---------------------------- MODULE DoorRequests -----------------------------
(***************************************************************************)
(* What a caller hands a door, and what the door owes it: shared by Doors  *)
(* (the promise) and DoorCalls (how go/core.go keeps it).  A byte of text, *)
(* a format or a declaration is a model value; only where it lies and      *)
(* which call wrote it matters here.                                       *)
(***************************************************************************)
EXTENDS ScratchLayout, Sequences

CONSTANTS
    Request,           \* the calls a goroutine may make
    Nothing,           \* no format, no answer yet: what nil is in the source
    NoEntry,           \* RawCheck.EnumIndex = MaxUint32: no enum entry matched
    Core(_)            \* external: the core's judgement of what it reads, as
                       \*   [code, keyword, entry]

(***************************************************************************)
(* A request: call names the core.go function the door goes through, ok is *)
(* whether the declarations passed the door's own checks (a format, date   *)
(* options, an enum code, a Constraints that was built), and the rest is   *)
(* what crosses.  text, vocab and enum are sequences of bytes.             *)
(***************************************************************************)
Calls == {"callDetailed", "callDetailedFromF64", "callChecked", "callCheckedFromF64",
          "callConstraintsCheck", "callDeclaredDecimal", "packedVersion"}

Declares(r) == r.call \in {"callChecked", "callCheckedFromF64", "callConstraintsCheck"}

(* The calls that give the core a fault to write, and so must hand it the  *)
(* size word it checks.                                                    *)
Reports(r) == r.call \in {"callDetailed", "callDetailedFromF64",
                          "callChecked", "callCheckedFromF64"}

(* The scratch a request needs: acquireScratch's n + extra.                *)
Total(r) == IF Declares(r) THEN Len(r.text) + DeclarationExtra(Len(r.text), Len(r.enum))
                           ELSE Len(r.text) + Len(r.vocab)

(* The codes the core may return to each call.                             *)
CoreCodes(r) ==
    CASE r.call \in {"callDetailed", "callDetailedFromF64"}   -> 0..3
      [] r.call \in {"callChecked", "callCheckedFromF64"}     -> 0..4
      [] r.call = "callConstraintsCheck"                      -> 0..13
      [] r.call = "callDeclaredDecimal"                       -> {0, 8}
      [] r.call = "packedVersion"                             -> Nat

(* The core's contract with a request that crosses intact: a code its door *)
(* defines, a keyword exactly with a violation, and an entry of the list.  *)
ASSUME CoreAssumption ==
    \A r \in Request :
        /\ Core(r).code \in CoreCodes(r)
        /\ Declares(r) /\ Core(r).code = 4 => Core(r).keyword \in Nat \ {0}
        /\ Core(r).entry \in {NoEntry} \cup (0 .. Len(r.enum) - 1)

(* A number as a cell of memory holds it.                                  *)
Number(n) == [number |-> n]

-----------------------------------------------------------------------------
(* What a call can come to.                                                *)
CallerBug   == [kind |-> "callerBug"]    \* a panic before anything is acquired
BindingBug  == [kind |-> "bindingBug"]   \* a panic on a verdict no door has
Trapped     == [kind |-> "trapped"]      \* a panic inside the core

Value(r, entry)       == [kind |-> "value", of |-> r, entry |-> entry]
FaultOf(r, code)      == [kind |-> "fault", of |-> r, code |-> code]
ViolationOf(r, k)     == [kind |-> "violation", of |-> r, keyword |-> k]
CodeOf(code)          == [kind |-> "code", code |-> code]

(* The promise: the answer is the core's judgement of this request and of  *)
(* nothing else, or the panic its caller earned.                           *)
Promise(r) ==
    IF ~r.ok \/ Total(r) > MaxText THEN CallerBug
    ELSE CASE ~Reports(r) /\ r.call # "callDeclaredDecimal" -> CodeOf(Core(r).code)
           [] r.call = "callDeclaredDecimal" /\ Core(r).code = 8 -> CodeOf(8)
           [] Core(r).code = 0 /\ (Reports(r) \/ r.call = "callDeclaredDecimal") ->
                Value(r, Number(IF Declares(r) THEN Core(r).entry ELSE NoEntry))
           [] Core(r).code \in 1..3 /\ Reports(r) -> FaultOf(r, Core(r).code)
           [] Core(r).code = 4 /\ Reports(r) -> ViolationOf(r, Number(Core(r).keyword))

(* A request is what its call's parameters carry: text, vocab and enum are *)
(* sequences, and what the call has no parameter for is absent.            *)
Fields == {"call", "ok", "door", "number", "text", "format", "periods", "options", "vocab",
           "decl", "enum"}

IsSequence(s) == s \in Seq({ s[i] : i \in DOMAIN s })

ASSUME RequestAssumption ==
    /\ Nothing \notin {Trapped, CallerBug}
    /\ \A r \in Request :
           /\ r = [field \in Fields |-> r[field]]
           /\ r.call \in Calls /\ r.ok \in BOOLEAN
           /\ IsSequence(r.text) /\ IsSequence(r.vocab) /\ IsSequence(r.enum)
           /\ r.text # <<>> => r.call \in {"callDetailed", "callChecked", "callDeclaredDecimal"}
           /\ r.format # Nothing => r.call \in {"callDetailed", "callChecked"}
           /\ r.periods # Nothing \/ r.options # Nothing \/ r.vocab # <<>> =>
                  r.call = "callDetailed"
           /\ r.decl # Nothing \/ r.enum # <<>> => Declares(r)
           /\ r # Nothing /\ Promise(r) # Nothing
=============================================================================
