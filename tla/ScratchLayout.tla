---------------------------- MODULE ScratchLayout ----------------------------
(***************************************************************************)
(* Where a call lays things out in its instance's scratch, and how many    *)
(* pages that takes: the constants and the arithmetic of go/core.go        *)
(* (scratch layout, MaxText, scratchPagesFor, declarationAt).  The module  *)
(* has no state.  Sizes are in bytes of guest memory; every number of the  *)
(* source is a CONSTANT, so that TLC can check small pages exhaustively    *)
(* and the proofs hold for the real ones.                                  *)
(***************************************************************************)
EXTENDS Integers

CONSTANTS
    PageSize,         \* pageSize: 65536
    ModulePages,      \* modulePages: 2, a fresh module's own memory
    BasePages,        \* basePages: 1
    HostMaxPages,     \* hostMaxPages: 65536, or 32767 on a 32-bit host
    SliceLimit,       \* 2^31 - 1, the guest's isize::MAX
    Word,             \* 2^32, the size of the guest's address space
    OutBytes, FaultBytes, FormatBytes, PeriodsBytes, OptionsBytes,
                      \* the regions of the scratch's header: 16, 16, 92, 40, 12
    ConstraintsBytes, CheckBytes,
                      \* rawConstraintsBytes, rawCheckBytes: 72, 12
    Align             \* a declaration's alignment: 8

(***************************************************************************)
(* The header fits the base scratch, the base scratch fits the host, and   *)
(* the host's pages fit the guest's address space.                         *)
(***************************************************************************)
ASSUME LayoutAssumption ==
    /\ PageSize \in Nat \ {0} /\ ModulePages \in Nat \ {0} /\ BasePages \in Nat \ {0}
    /\ HostMaxPages \in Nat /\ SliceLimit \in Nat /\ Word \in Nat \ {0}
    /\ OutBytes \in Nat /\ FaultBytes \in Nat /\ FormatBytes \in Nat
    /\ PeriodsBytes \in Nat /\ OptionsBytes \in Nat
    /\ ConstraintsBytes \in Nat /\ CheckBytes \in Nat
    /\ Align \in Nat \ {0}
    /\ OutBytes + FaultBytes + FormatBytes + PeriodsBytes + OptionsBytes
         <= BasePages * PageSize
    /\ ModulePages + BasePages <= HostMaxPages
    /\ HostMaxPages * PageSize <= Word

-----------------------------------------------------------------------------
OutOffset     == 0
FaultOffset   == OutOffset + OutBytes
FormatOffset  == FaultOffset + FaultBytes
PeriodsOffset == FormatOffset + FormatBytes
OptionsOffset == PeriodsOffset + PeriodsBytes
TextOffset    == OptionsOffset + OptionsBytes

(* The longest text the base scratch holds.                                *)
BaseText == BasePages * PageSize - TextOffset

(* Mutant: the module's own pages forgotten.                               *)
AddressableTextOfHost == HostMaxPages * PageSize - TextOffset

(* The longest text, with what follows it, that a door takes.              *)
AddressableText == HostMaxPages * PageSize - ModulePages * PageSize - TextOffset
MaxText == IF SliceLimit <= AddressableText THEN SliceLimit ELSE AddressableText

(* scratchPagesFor: the pages a scratch for n bytes past the header needs, *)
(* and whether a module can hold them beside its own.                      *)
ScratchPages(n) ==
    LET bytes == n + TextOffset
    IN  bytes \div PageSize + (IF bytes % PageSize # 0 THEN 1 ELSE 0)

Addressable(n) == ScratchPages(n) + ModulePages <= HostMaxPages

(* newInstance: the scratch starts where the module's own memory ends.     *)
ScratchBase == ModulePages * PageSize

(* declarationAt: the first aligned offset past a text of n bytes.         *)
DeclarationAt(n) == ((TextOffset + n + Align - 1) \div Align) * Align

(* Mutant: no room for the RawCheck.                                       *)
DeclarationExtraUnchecked(n, e) == DeclarationAt(n) - TextOffset - n + ConstraintsBytes + e

(* acquireChecked: what a declaration with an enum list of e bytes adds to *)
(* a text of n bytes, the padding before it included.                      *)
DeclarationExtra(n, e) ==
    DeclarationAt(n) - TextOffset - n + ConstraintsBytes + CheckBytes + e

CheckAt(n) == DeclarationAt(n) + ConstraintsBytes
EnumAt(n)  == CheckAt(n) + CheckBytes

(* Mutant: the base scratch's limit off by one.                            *)
DecisionAbove(total) ==
    CASE total <= BaseText + 1 -> "base"
      [] total > BaseText + 1 /\ total <= MaxText /\ Addressable(total) -> "oneOff"
      [] OTHER -> "panic"

(* acquireScratch: which kind of instance a call over total bytes gets.    *)
Decision(total) ==
    CASE total <= BaseText -> "base"
      [] total > BaseText /\ total > MaxText -> "panic"
      [] total > BaseText /\ total <= MaxText /\ ~Addressable(total) -> "panic"
      [] OTHER -> "oneOff"

(* The pages of the scratch that decision leads to.                        *)
PagesOf(total) == IF total <= BaseText THEN BasePages ELSE ScratchPages(total)

(* A guest pointer is an int32: each conversion and sum wraps.  The core   *)
(* reads it back as an unsigned address.                                   *)
Wrap(x) == ((x + (Word \div 2)) % Word) - (Word \div 2)

Pointer(offset) == Wrap(Wrap(ScratchBase) + Wrap(offset))
Address(pointer) == pointer % Word

-----------------------------------------------------------------------------
(***************************************************************************)
(* The regions a call may touch, as [at, len] records relative to the      *)
(* scratch: a plain call's (v bytes of month vocabulary past the text) and *)
(* a checked call's (a declaration and e bytes of enum past it).           *)
(***************************************************************************)
Header ==
    { [at |-> OutOffset,     len |-> OutBytes],
      [at |-> FaultOffset,   len |-> FaultBytes],
      [at |-> FormatOffset,  len |-> FormatBytes],
      [at |-> PeriodsOffset, len |-> PeriodsBytes],
      [at |-> OptionsOffset, len |-> OptionsBytes] }

PlainRegions(n, v) ==
    Header \cup { [at |-> TextOffset, len |-> n], [at |-> TextOffset + n, len |-> v] }

CheckedRegions(n, e) ==
    Header \cup
    { [at |-> TextOffset,       len |-> n],
      [at |-> DeclarationAt(n), len |-> ConstraintsBytes],
      [at |-> CheckAt(n),       len |-> CheckBytes],
      [at |-> EnumAt(n),        len |-> e] }

Apart(r, s) == r.at + r.len <= s.at \/ s.at + s.len <= r.at

Disjoint(regions) == \A r, s \in regions : r # s => Apart(r, s)

Inside(regions, bytes) == \A r \in regions : r.at >= 0 /\ r.at + r.len <= bytes

(* The pointer the core gets for a region names the region's own bytes.    *)
Exact(regions) ==
    \A r \in regions : r.len > 0 => Address(Pointer(r.at)) = ScratchBase + r.at

-----------------------------------------------------------------------------
(***************************************************************************)
(* What the layout promises, for a plain call with a text of n bytes and a *)
(* vocabulary of v, and a checked one with an enum list of e.              *)
(***************************************************************************)
Accepted(total) == Decision(total) # "panic"

(* A call acquireScratch accepts writes inside the scratch it gets, and    *)
(* no region of it overlaps another: no copy is cut short, and no load     *)
(* overwrites what an earlier load of the call put there.                  *)
LaidOut(regions, total) ==
    Accepted(total) => /\ Inside(regions, PagesOf(total) * PageSize)
                       /\ Disjoint(regions)

PlainLaidOut(n, v)   == LaidOut(PlainRegions(n, v), n + v)
CheckedLaidOut(n, e) == LaidOut(CheckedRegions(n, e), n + DeclarationExtra(n, e))

(* Every pointer a call hands the core survives its trip through an int32. *)
PlainExact(n, v)   == Accepted(n + v) => Exact(PlainRegions(n, v))
CheckedExact(n, e) ==
    Accepted(n + DeclarationExtra(n, e)) => Exact(CheckedRegions(n, e))

(* MaxText is the whole truth: what passes it has pages, and a host never  *)
(* refuses a text MaxText lets through.                                    *)
MaxTextSuffices(total) == total <= MaxText => Addressable(total)

(* A one-off instance holds its call and not a page more, and is made for  *)
(* no call the base scratch could serve.                                   *)
PagesAreTight(total) ==
    Decision(total) = "oneOff" =>
        /\ total + TextOffset > (PagesOf(total) - 1) * PageSize
        /\ PagesOf(total) > BasePages
=============================================================================
