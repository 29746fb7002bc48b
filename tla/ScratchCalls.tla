---------------------------- MODULE ScratchCalls -----------------------------
(***************************************************************************)
(* acquireScratch asked (go/core.go): a call over a text, with a month     *)
(* vocabulary past it or, checked, a declaration and its enum list, is     *)
(* given base scratch, an instance of its own, or a panic.                 *)
(***************************************************************************)
EXTENDS ScratchLayout

CONSTANTS MostText, MostMore   \* bounds of the model: the text's bytes, and those past it

VARIABLES
    textBytes, moreBytes,      \* what the call is over
    outcome                    \* which call it was, and what it was given

scratchVars == <<textBytes, moreBytes, outcome>>

Unasked == [kind |-> "none", decision |-> "none"]

ScratchInit ==
    /\ textBytes \in 0 .. MostText /\ moreBytes \in 0 .. MostMore
    /\ outcome = Unasked

(* The bytes acquireScratch is asked for.                                  *)
TotalOf(kind) ==
    textBytes + (IF kind = "checked" THEN DeclarationExtra(textBytes, moreBytes) ELSE moreBytes)

AskPlain ==
    /\ outcome = Unasked
    /\ outcome' = [kind |-> "plain", decision |-> Decision(TotalOf("plain"))]
    /\ UNCHANGED <<textBytes, moreBytes>>

AskChecked ==
    /\ outcome = Unasked
    /\ outcome' = [kind |-> "checked", decision |-> Decision(TotalOf("checked"))]
    /\ UNCHANGED <<textBytes, moreBytes>>

ScratchNext == AskPlain \/ AskChecked

ScratchSpec == ScratchInit /\ [][ScratchNext]_scratchVars

-----------------------------------------------------------------------------
(* A call's text, and the month vocabulary, or the declaration, RawCheck   *)
(* and enum list past it, padding to 8 bytes included, stay inside the     *)
(* scratch acquireScratch picked, apart from the header and each other     *)
(* (core.go's acquireScratch, acquireChecked, loadDeclaration), and the    *)
(* int32 pointers core.go computes (s + textOffset + int32(length),        *)
(* s + int32(at)) name the bytes that were written, past 2^31 too.         *)
CallsFit ==
    /\ outcome.kind = "plain" => PlainLaidOut(textBytes, moreBytes) /\ PlainExact(textBytes, moreBytes)
    /\ outcome.kind = "checked" =>
          CheckedLaidOut(textBytes, moreBytes) /\ CheckedExact(textBytes, moreBytes)

(* The two panics "the core cannot address ... on this host" never fire:   *)
(* what MaxText admits is given a scratch.                                 *)
HostNeverRefuses ==
    outcome # Unasked /\ TotalOf(outcome.kind) <= MaxText => outcome.decision # "panic"
=============================================================================
