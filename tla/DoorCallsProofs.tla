--------------------------- MODULE DoorCallsProofs ---------------------------
(***************************************************************************)
(* First the scratch's layout; then InstancePool's invariants, for any     *)
(* number of goroutines and instances and any sizes: the inductive         *)
(* invariant, its preservation by each action, and what follows; last, for *)
(* any requests and interleavings, that DoorCalls implements Doors: a call *)
(* loads what it hands over where the core looks for it, reads back what   *)
(* the core wrote for it, and answers as promised.                         *)
(***************************************************************************)
EXTENDS DoorCalls, ScratchCalls, TLAPS

-----------------------------------------------------------------------------
(* The scratch layout, for every text, vocabulary and enum length and for  *)
(* the source's own sizes as for any others LayoutAssumption admits.       *)

(* The header fits the base scratch, and the text starts past it.          *)
LEMMA HeaderFits ==
    /\ TextOffset \in Nat /\ BaseText \in Nat
    /\ BaseText + TextOffset = BasePages * PageSize
    /\ TextOffset = OutBytes + FaultBytes + FormatBytes + PeriodsBytes + OptionsBytes
  BY LayoutAssumption, SMT
     DEF TextOffset, OptionsOffset, PeriodsOffset, FormatOffset, FaultOffset, OutOffset,
         BaseText

(* MaxText is an integer, and no more than the host can address.           *)
LEMMA MaxTextIsInt ==
    MaxText \in Int /\ MaxText <= AddressableText /\ AddressableText \in Int
  BY LayoutAssumption, HeaderFits, SMT DEF MaxText, AddressableText

(* scratchPagesFor rounds up: enough pages, and not one too many.          *)
LEMMA PagesRoundUp ==
    ASSUME NEW n \in Nat
    PROVE  /\ ScratchPages(n) \in Nat
           /\ n + TextOffset <= ScratchPages(n) * PageSize
           /\ (ScratchPages(n) - 1) * PageSize < n + TextOffset
              \/ n + TextOffset = 0
  BY LayoutAssumption, HeaderFits, Z3 DEF ScratchPages

(* declarationAt is past the text, by less than the alignment.             *)
LEMMA DeclarationPastText ==
    ASSUME NEW n \in Nat
    PROVE  /\ DeclarationAt(n) \in Nat
           /\ TextOffset + n <= DeclarationAt(n)
           /\ DeclarationAt(n) < TextOffset + n + Align
  BY LayoutAssumption, HeaderFits, Z3 DEF DeclarationAt

(* What a call acquireScratch accepts gets: room for its total.            *)
LEMMA AcceptedHasRoom ==
    ASSUME NEW all \in Nat, Accepted(all)
    PROVE  /\ PagesOf(all) \in Nat
           /\ TextOffset + all <= PagesOf(all) * PageSize
           /\ PagesOf(all) + ModulePages <= HostMaxPages
<1>1. CASE all <= BaseText
  BY <1>1, HeaderFits, LayoutAssumption, SMT DEF PagesOf
<1>2. CASE ~(all <= BaseText)
  <2>1. Addressable(all)
    BY <1>2, HeaderFits, MaxTextIsInt, SMT DEF Accepted, Decision
  <2> QED BY <1>2, <2>1, PagesRoundUp, HeaderFits, LayoutAssumption, SMT
          DEF PagesOf, Addressable
<1> QED BY <1>1, <1>2

(* An address below Word survives Wrap and Address.                        *)
LEMMA WrapIsFaithful ==
    ASSUME NEW s \in Nat, NEW o \in Nat, s + o < Word
    PROVE  Address(Wrap(Wrap(s) + Wrap(o))) = s + o
  BY LayoutAssumption, Z3 DEF Address, Wrap

-----------------------------------------------------------------------------
(* A plain call's regions, header, text and vocabulary, lie inside the     *)
(* scratch it is given and apart from each other (callDetailed).           *)
THEOREM PlainCallsAreLaidOut ==
    ASSUME NEW n \in Nat, NEW v \in Nat
    PROVE  PlainLaidOut(n, v)
<1> SUFFICES ASSUME Accepted(n + v)
             PROVE  Inside(PlainRegions(n, v), PagesOf(n + v) * PageSize)
                    /\ Disjoint(PlainRegions(n, v))
  BY DEF PlainLaidOut, LaidOut
<1>1. TextOffset + (n + v) <= PagesOf(n + v) * PageSize
      /\ PagesOf(n + v) * PageSize \in Nat
  BY AcceptedHasRoom, LayoutAssumption, SMT
<1>2. Inside(PlainRegions(n, v), PagesOf(n + v) * PageSize)
  BY <1>1, LayoutAssumption, SMT
     DEF Inside, PlainRegions, Header, TextOffset, OptionsOffset, PeriodsOffset,
         FormatOffset, FaultOffset, OutOffset
<1>3. Disjoint(PlainRegions(n, v))
  BY LayoutAssumption, SMT
     DEF Disjoint, Apart, PlainRegions, Header, TextOffset, OptionsOffset, PeriodsOffset,
         FormatOffset, FaultOffset, OutOffset
<1> QED BY <1>2, <1>3

(* A checked call's regions too: the declaration, its RawCheck and its     *)
(* enum list never touch the text or the header (acquireChecked).          *)
THEOREM CheckedCallsAreLaidOut ==
    ASSUME NEW n \in Nat, NEW e \in Nat
    PROVE  CheckedLaidOut(n, e)
<1> DEFINE all == n + DeclarationExtra(n, e)
<1> SUFFICES ASSUME Accepted(all)
             PROVE  Inside(CheckedRegions(n, e), PagesOf(all) * PageSize)
                    /\ Disjoint(CheckedRegions(n, e))
  BY DEF CheckedLaidOut, LaidOut
<1>1. /\ all \in Nat
      /\ TextOffset + all = EnumAt(n) + e
  BY DeclarationPastText, HeaderFits, LayoutAssumption, SMT
     DEF DeclarationExtra, EnumAt, CheckAt
<1>2. EnumAt(n) + e <= PagesOf(all) * PageSize /\ PagesOf(all) * PageSize \in Nat
  BY <1>1, AcceptedHasRoom, LayoutAssumption, SMT
<1> HIDE DEF all
<1>3. Inside(CheckedRegions(n, e), PagesOf(all) * PageSize)
  BY <1>2, DeclarationPastText, LayoutAssumption, SMT
     DEF Inside, CheckedRegions, EnumAt, CheckAt, Header, TextOffset, OptionsOffset,
         PeriodsOffset, FormatOffset, FaultOffset, OutOffset
<1>4. Disjoint(CheckedRegions(n, e))
  <2> DEFINE own == { [at |-> TextOffset,       len |-> n],
                      [at |-> DeclarationAt(n), len |-> ConstraintsBytes],
                      [at |-> CheckAt(n),       len |-> CheckBytes],
                      [at |-> EnumAt(n),        len |-> e] }
  <2>1. Disjoint(Header) /\ \A r \in Header : r.at \in Nat /\ r.len \in Nat /\ r.at + r.len <= TextOffset
    BY LayoutAssumption, SMT
       DEF Disjoint, Apart, Header, TextOffset, OptionsOffset, PeriodsOffset, FormatOffset,
           FaultOffset, OutOffset
  <2>2. Disjoint(own) /\ \A r \in own : r.at \in Nat /\ r.len \in Nat /\ TextOffset <= r.at
    BY DeclarationPastText, HeaderFits, LayoutAssumption, SMT
       DEF Disjoint, Apart, EnumAt, CheckAt
  <2>3. CheckedRegions(n, e) = Header \cup own  BY DEF CheckedRegions
  <2> HIDE DEF own
  <2>4. QED  BY <2>1, <2>2, <2>3, HeaderFits, SMT DEF Disjoint, Apart
<1> QED BY <1>3, <1>4

(* MaxText is exact: no total it admits needs a page the host lacks, so    *)
(* the "cannot address" panics of acquireScratch are unreachable.          *)
THEOREM MaxTextIsEnough ==
    ASSUME NEW all \in Nat
    PROVE  MaxTextSuffices(all)
<1> SUFFICES ASSUME all <= MaxText
             PROVE  Addressable(all)
  BY DEF MaxTextSuffices
<1>1. all + TextOffset <= (HostMaxPages - ModulePages) * PageSize
  BY MaxTextIsInt, HeaderFits, LayoutAssumption, Z3 DEF AddressableText
<1>2. (ScratchPages(all) - 1) * PageSize < (HostMaxPages - ModulePages) * PageSize
      \/ ScratchPages(all) = 0
  BY <1>1, PagesRoundUp, HeaderFits, LayoutAssumption, Z3 DEF ScratchPages
<1>3. ScratchPages(all) - 1 < HostMaxPages - ModulePages \/ ScratchPages(all) = 0
  BY <1>2, PagesRoundUp, LayoutAssumption, Z3
<1> QED BY <1>3, PagesRoundUp, LayoutAssumption, SMT DEF Addressable

(* A region inside the scratch of an accepted call is addressed exactly.   *)
LEMMA InsideIsExact ==
    ASSUME NEW all \in Nat, Accepted(all),
           NEW at \in Nat, NEW len \in Nat, len > 0,
           at + len <= PagesOf(all) * PageSize
    PROVE  Address(Pointer(at)) = ScratchBase + at
<1>1. /\ ScratchBase \in Nat
      /\ ScratchBase + PagesOf(all) * PageSize <= Word
  BY AcceptedHasRoom, LayoutAssumption, Z3 DEF ScratchBase
<1>2. ScratchBase + at < Word
  BY <1>1, AcceptedHasRoom, LayoutAssumption, SMT
<1> QED BY <1>1, <1>2, WrapIsFaithful DEF Pointer

(* The pointers a plain call hands the core name the bytes it wrote, on    *)
(* either side of 2^31.                                                    *)
THEOREM PlainPointersAreExact ==
    ASSUME NEW n \in Nat, NEW v \in Nat
    PROVE  PlainExact(n, v)
<1> SUFFICES ASSUME Accepted(n + v), NEW r \in PlainRegions(n, v), r.len > 0
             PROVE  Address(Pointer(r.at)) = ScratchBase + r.at
  BY DEF PlainExact, Exact
<1>1. r.at + r.len <= PagesOf(n + v) * PageSize
  BY PlainCallsAreLaidOut DEF PlainLaidOut, LaidOut, Inside
<1>2. r.at \in Nat /\ r.len \in Nat
  BY LayoutAssumption, SMT
     DEF PlainRegions, Header, TextOffset, OptionsOffset, PeriodsOffset, FormatOffset,
         FaultOffset, OutOffset
<1> QED BY <1>1, <1>2, InsideIsExact

(* And a checked call's (s + int32(at), and what lies past it).            *)
THEOREM CheckedPointersAreExact ==
    ASSUME NEW n \in Nat, NEW e \in Nat
    PROVE  CheckedExact(n, e)
<1> DEFINE all == n + DeclarationExtra(n, e)
<1> SUFFICES ASSUME Accepted(all), NEW r \in CheckedRegions(n, e), r.len > 0
             PROVE  Address(Pointer(r.at)) = ScratchBase + r.at
  BY DEF CheckedExact, Exact
<1>1. r.at + r.len <= PagesOf(all) * PageSize
  BY CheckedCallsAreLaidOut DEF CheckedLaidOut, LaidOut, Inside
<1>2. all \in Nat
  BY DeclarationPastText, HeaderFits, LayoutAssumption, SMT DEF DeclarationExtra
<1>3. r.at \in Nat /\ r.len \in Nat
  BY DeclarationPastText, LayoutAssumption, SMT
     DEF CheckedRegions, EnumAt, CheckAt, Header, TextOffset, OptionsOffset,
         PeriodsOffset, FormatOffset, FaultOffset, OutOffset
<1> HIDE DEF all
<1> QED BY <1>1, <1>2, <1>3, InsideIsExact

(* A one-off instance is never a page too big, nor made in vain.           *)
THEOREM OneOffsAreMinimal ==
    ASSUME NEW all \in Nat
    PROVE  PagesAreTight(all)
<1> SUFFICES ASSUME Decision(all) = "oneOff"
             PROVE  /\ all + TextOffset > (PagesOf(all) - 1) * PageSize
                    /\ PagesOf(all) > BasePages
  BY DEF PagesAreTight
<1>1. all > BaseText /\ PagesOf(all) = ScratchPages(all)
  BY HeaderFits, SMT DEF Decision, PagesOf
<1>2. BasePages * PageSize < ScratchPages(all) * PageSize
  BY <1>1, PagesRoundUp, HeaderFits, LayoutAssumption, SMT
<1>3. BasePages < ScratchPages(all)
  BY <1>2, PagesRoundUp, LayoutAssumption, Z3T(30)
<1> QED BY <1>1, <1>3, PagesRoundUp, HeaderFits, SMT

-----------------------------------------------------------------------------
(* What acquireScratch was asked for and gave, of any sizes.               *)
ScratchInv ==
    /\ textBytes \in Nat /\ moreBytes \in Nat
    /\ outcome # Unasked => /\ outcome.kind \in {"plain", "checked"}
                            /\ outcome.decision = Decision(TotalOf(outcome.kind))

(* It stays so: a call is asked about once.                                *)
LEMMA ScratchInvAlways == ScratchSpec => []ScratchInv
<1>1. ScratchInit => ScratchInv
  BY SMT DEF ScratchInit, ScratchInv
<1>2. ScratchInv /\ [ScratchNext]_scratchVars => ScratchInv'
  <2> SUFFICES ASSUME ScratchInv, [ScratchNext]_scratchVars  PROVE ScratchInv'
    OBVIOUS
  <2>1. CASE AskPlain
    BY <2>1, SMT DEF AskPlain, ScratchInv, TotalOf, Unasked
  <2>2. CASE AskChecked
    BY <2>2, SMT DEF AskChecked, ScratchInv, TotalOf, Unasked
  <2>3. CASE UNCHANGED scratchVars
    BY <2>3 DEF scratchVars, ScratchInv, TotalOf
  <2> QED BY <2>1, <2>2, <2>3 DEF ScratchNext
<1> QED BY <1>1, <1>2, PTL DEF ScratchSpec

(* Every call acquireScratch serves fits what it was given, and is         *)
(* addressed exactly, for any sizes of text, vocabulary and enum.          *)
THEOREM CallsFitHolds == ScratchSpec => []CallsFit
<1>1. ScratchInv => CallsFit
  BY PlainCallsAreLaidOut, PlainPointersAreExact, CheckedCallsAreLaidOut, CheckedPointersAreExact
     DEF ScratchInv, CallsFit
<1> QED BY <1>1, ScratchInvAlways, PTL

(* acquireScratch panics at no total MaxText admits: no host lacks pages   *)
(* for one.                                                                *)
THEOREM HostNeverRefusesHolds == ScratchSpec => []HostNeverRefuses
<1>1. ScratchInv => HostNeverRefuses
  <2> SUFFICES ASSUME ScratchInv, outcome # Unasked, TotalOf(outcome.kind) <= MaxText
               PROVE  outcome.decision # "panic"
    BY DEF HostNeverRefuses
  <2> DEFINE all == TotalOf(outcome.kind)
  <2>1. all \in Nat
    BY DeclarationPastText, HeaderFits, LayoutAssumption, SMT DEF ScratchInv, TotalOf, DeclarationExtra
  <2> HIDE DEF all
  <2>2. Addressable(all)
    BY <2>1, MaxTextIsEnough DEF MaxTextSuffices, all
  <2>3. Decision(all) # "panic"
    BY <2>1, <2>2, MaxTextIsInt, HeaderFits, SMT DEF Decision, all
  <2> QED BY <2>3 DEF ScratchInv, all
<1> QED BY <1>1, ScratchInvAlways, PTL

-----------------------------------------------------------------------------
(* primaryOnce: one goroutine at most is creating, nobody gets past the    *)
(* Once before it is done, and a done Once means a primary.                *)
OnceProtocol ==
    /\ once = "idle" => thePrimary = NoInstance
    /\ once = "done" => thePrimary \in Instance
    /\ \A g \in Goroutine :
          /\ pc[g] = "create"  => once = "running" /\ thePrimary = NoInstance
          /\ pc[g] = "created" => once = "running" /\ thePrimary \in Instance
          /\ pc[g] \in {"tryLock", "get"} => once = "done"
    /\ \A g, h \in Goroutine :
          pc[g] \in {"create", "created"} /\ pc[h] \in {"create", "created"} => g = h

(* What each lease says of the instance a call holds.                      *)
LeasesMean ==
    \A g \in Goroutine :
        /\ ~Holding(g) => in[g] = NoInstance /\ how[g] = "none"
        /\ Holding(g) => in[g] \in Instance /\ pages[in[g]] > 0 /\ how[g] # "none"
        /\ how[g] = "leasePrimary" => in[g] = thePrimary
        /\ how[g] = "leasePooled"  => in[g] # thePrimary /\ pages[in[g]] = BasePages
        /\ how[g] = "leaseOneOff"  => in[g] # thePrimary /\ pages[in[g]] = ScratchPages(total[g])

(* A call goes the way its size sent it.                                   *)
SizesDecide ==
    \A g \in Goroutine :
        /\ pc[g] \in {"acquire", "create", "created", "tryLock", "get"}
             \/ how[g] \in {"leasePrimary", "leasePooled"} => Decision(total[g]) = "base"
        /\ pc[g] = "oneOff" \/ how[g] = "leaseOneOff" => Decision(total[g]) = "oneOff"

PrimaryLives == thePrimary \in Instance => pages[thePrimary] = BasePages

IInv ==
    /\ PoolTypeOK
    /\ OnceProtocol
    /\ LeasesMean
    /\ SizesDecide
    /\ PrimaryLives
    /\ ExclusiveUse
    /\ PoolIsClean
    /\ LockIsAccountedFor
    /\ AbandonedForGood
    /\ OneOffsAreDropped
    /\ NothingLeaks

-----------------------------------------------------------------------------
(* The header and what is left of the base scratch make up its pages.      *)
LEMMA LayoutConstants ==
    /\ TextOffset \in Nat /\ BaseText \in Nat
    /\ BasePages \in Nat /\ BasePages > 0
    /\ PageSize \in Nat /\ PageSize > 0
    /\ BaseText + TextOffset = BasePages * PageSize
  BY LayoutAssumption, SMT
     DEF TextOffset, OptionsOffset, PeriodsOffset, FormatOffset, FaultOffset, OutOffset, BaseText

(* What the two decisions that get an instance mean.                       *)
LEMMA DecisionMeans ==
    ASSUME NEW n \in Nat
    PROVE  /\ Decision(n) = "base" => n <= BaseText
           /\ Decision(n) = "oneOff" => n > BaseText
  BY LayoutConstants, SMT DEF Decision

(* A one-off instance has pages, and they hold its text.                   *)
LEMMA OneOffPages ==
    ASSUME NEW n \in Nat
    PROVE  /\ ScratchPages(n) \in Nat
           /\ n + TextOffset <= ScratchPages(n) * PageSize
           /\ Decision(n) = "oneOff" => ScratchPages(n) > 0
<1>1. /\ ScratchPages(n) \in Nat
      /\ n + TextOffset <= ScratchPages(n) * PageSize
  BY LayoutConstants, Z3 DEF ScratchPages
<1>2. ASSUME Decision(n) = "oneOff" PROVE ScratchPages(n) > 0
  <2>1. n > 0
    BY <1>2, DecisionMeans, LayoutConstants, SMT
  <2>2. n + TextOffset > 0
    BY <2>1, LayoutConstants, SMT
  <2> QED BY <1>1, <2>2, LayoutConstants, SMT
<1> QED BY <1>1, <1>2

(* Nothing is held, pooled or locked before the first call.                *)
LEMMA InitInv == PoolInit => IInv
  BY PoolAssumption, LayoutConstants, SMT
     DEF PoolInit, IInv, PoolTypeOK, OnceProtocol, LeasesMean, SizesDecide, PrimaryLives,
         ExclusiveUse, PoolIsClean, LockIsAccountedFor, AbandonedForGood,
         OneOffsAreDropped, NothingLeaks, Holding, Pooled, Labels, Leases

(* The size picks the way; the goroutine still holds nothing.              *)
LEMMA AcquireScratchInv ==
    ASSUME IInv, NEW g \in Goroutine, NEW n \in Nat, AcquireScratch(g, n)
    PROVE  IInv'
<1> USE PoolAssumption, LayoutConstants
        DEF AcquireScratch, Goto, IInv, PoolTypeOK, Holding, Pooled, Labels, Leases
<1>1. PoolTypeOK' /\ OnceProtocol' /\ PrimaryLives' /\ ExclusiveUse' /\ PoolIsClean'
        /\ LockIsAccountedFor' /\ AbandonedForGood' /\ OneOffsAreDropped'
        /\ NothingLeaks'
  BY SMT
     DEF OnceProtocol, LeasesMean, PrimaryLives, ExclusiveUse, PoolIsClean,
         LockIsAccountedFor, AbandonedForGood, OneOffsAreDropped, NothingLeaks
<1>2. LeasesMean'
  BY SMT
     DEF OnceProtocol, LeasesMean, PrimaryLives
<1>3. SizesDecide'
  BY SMT
     DEF OnceProtocol, LeasesMean, SizesDecide, PrimaryLives
<1> QED BY <1>1, <1>2, <1>3

(* The first goroutine into the Once.                                      *)
LEMMA OnceBeginInv ==
    ASSUME IInv, NEW g \in Goroutine, OnceBegin(g)
    PROVE  IInv'
<1> USE PoolAssumption, LayoutConstants
        DEF OnceBegin, Goto, IInv, PoolTypeOK, Holding, Pooled, Labels, Leases
<1>1. PoolTypeOK' /\ LeasesMean' /\ PrimaryLives' /\ ExclusiveUse' /\ PoolIsClean'
        /\ LockIsAccountedFor' /\ AbandonedForGood' /\ OneOffsAreDropped'
        /\ NothingLeaks'
  BY SMT
     DEF OnceProtocol, LeasesMean, PrimaryLives, ExclusiveUse, PoolIsClean,
         LockIsAccountedFor, AbandonedForGood, OneOffsAreDropped, NothingLeaks
<1>2. OnceProtocol'
  BY SMT
     DEF OnceProtocol, LeasesMean, PrimaryLives
<1>3. SizesDecide'
  BY SMT
     DEF OnceProtocol, LeasesMean, SizesDecide, PrimaryLives
<1> QED BY <1>1, <1>2, <1>3

(* A fresh name becomes the primary.                                       *)
LEMMA CreatePrimaryInv ==
    ASSUME IInv, NEW g \in Goroutine, CreatePrimary(g)
    PROVE  IInv'
<1> USE PoolAssumption, LayoutConstants
        DEF CreatePrimary, Goto, Fresh, IInv, PoolTypeOK, Holding, Pooled, Labels, Leases
<1>1. PoolTypeOK' /\ SizesDecide' /\ ExclusiveUse' /\ AbandonedForGood'
  BY SMT
     DEF OnceProtocol, LeasesMean, SizesDecide, PrimaryLives, ExclusiveUse,
         AbandonedForGood
<1>2. OnceProtocol'
  BY SMT
     DEF OnceProtocol, LeasesMean, PrimaryLives
<1>3. LeasesMean'
  BY SMT
     DEF OnceProtocol, LeasesMean, PrimaryLives
<1>4. PrimaryLives'
  BY SMT
     DEF OnceProtocol, LeasesMean, PrimaryLives
<1>5. PoolIsClean'
  BY SMT
     DEF OnceProtocol, LeasesMean, PrimaryLives, PoolIsClean
<1>6. LockIsAccountedFor'
  BY SMT
     DEF OnceProtocol, LeasesMean, PrimaryLives, LockIsAccountedFor
<1>7. OneOffsAreDropped'
  BY SMT
     DEF OnceProtocol, LeasesMean, PrimaryLives, OneOffsAreDropped
<1>8. NothingLeaks'
  BY SMT
     DEF OnceProtocol, LeasesMean, PrimaryLives, NothingLeaks
<1> QED BY <1>1, <1>2, <1>3, <1>4, <1>5, <1>6, <1>7, <1>8

(* The Once lets everybody through.                                        *)
LEMMA OnceEndInv ==
    ASSUME IInv, NEW g \in Goroutine, OnceEnd(g)
    PROVE  IInv'
<1> USE PoolAssumption, LayoutConstants
        DEF OnceEnd, Goto, IInv, PoolTypeOK, Holding, Pooled, Labels, Leases
<1>1. PoolTypeOK' /\ LeasesMean' /\ PrimaryLives' /\ ExclusiveUse' /\ PoolIsClean'
        /\ LockIsAccountedFor' /\ AbandonedForGood' /\ OneOffsAreDropped'
        /\ NothingLeaks'
  BY SMT
     DEF OnceProtocol, LeasesMean, PrimaryLives, ExclusiveUse, PoolIsClean,
         LockIsAccountedFor, AbandonedForGood, OneOffsAreDropped, NothingLeaks
<1>2. OnceProtocol'
  BY SMT
     DEF OnceProtocol, LeasesMean, PrimaryLives
<1>3. SizesDecide'
  BY SMT
     DEF OnceProtocol, LeasesMean, SizesDecide, PrimaryLives
<1> QED BY <1>1, <1>2, <1>3

(* A later call finds the Once done.                                       *)
LEMMA OnceDoneInv ==
    ASSUME IInv, NEW g \in Goroutine, OnceDone(g)
    PROVE  IInv'
<1> USE PoolAssumption, LayoutConstants
        DEF OnceDone, Goto, IInv, PoolTypeOK, Holding, Pooled, Labels, Leases
<1>1. PoolTypeOK' /\ LeasesMean' /\ PrimaryLives' /\ ExclusiveUse' /\ PoolIsClean'
        /\ LockIsAccountedFor' /\ AbandonedForGood' /\ OneOffsAreDropped'
        /\ NothingLeaks'
  BY SMT
     DEF OnceProtocol, LeasesMean, PrimaryLives, ExclusiveUse, PoolIsClean,
         LockIsAccountedFor, AbandonedForGood, OneOffsAreDropped, NothingLeaks
<1>2. OnceProtocol'
  BY SMT
     DEF OnceProtocol, LeasesMean, PrimaryLives
<1>3. SizesDecide'
  BY SMT
     DEF OnceProtocol, LeasesMean, SizesDecide, PrimaryLives
<1> QED BY <1>1, <1>2, <1>3

(* A free lock means nobody is inside the primary and no panic was.        *)
LEMMA TryLockInv ==
    ASSUME IInv, NEW g \in Goroutine, TryLock(g)
    PROVE  IInv'
<1> USE PoolAssumption, LayoutConstants
        DEF TryLock, Goto, Holds, IInv, PoolTypeOK, Holding, Pooled, Labels, Leases
<1>1. PoolTypeOK' /\ OnceProtocol' /\ PrimaryLives' /\ OneOffsAreDropped'
        /\ NothingLeaks'
  BY SMT
     DEF OnceProtocol, LeasesMean, PrimaryLives, LockIsAccountedFor, OneOffsAreDropped,
         NothingLeaks
<1>2. LeasesMean'
  BY SMT
     DEF OnceProtocol, LeasesMean, PrimaryLives, LockIsAccountedFor
<1>3. SizesDecide'
  BY SMT
     DEF OnceProtocol, LeasesMean, SizesDecide, PrimaryLives, LockIsAccountedFor
<1>4. ExclusiveUse'
  BY SMT
     DEF OnceProtocol, LeasesMean, PrimaryLives, ExclusiveUse, LockIsAccountedFor
<1>5. PoolIsClean'
  BY SMT
     DEF OnceProtocol, LeasesMean, PrimaryLives, PoolIsClean, LockIsAccountedFor
<1>6. LockIsAccountedFor'
  BY SMT
     DEF OnceProtocol, LeasesMean, PrimaryLives, LockIsAccountedFor
<1>7. AbandonedForGood'
  BY SMT
     DEF OnceProtocol, LeasesMean, PrimaryLives, LockIsAccountedFor, AbandonedForGood
<1> QED BY <1>1, <1>2, <1>3, <1>4, <1>5, <1>6, <1>7

(* A taken lock sends the call to the pool.                                *)
LEMMA TryLockFailsInv ==
    ASSUME IInv, NEW g \in Goroutine, TryLockFails(g)
    PROVE  IInv'
<1> USE PoolAssumption, LayoutConstants
        DEF TryLockFails, Goto, IInv, PoolTypeOK, Holding, Pooled, Labels, Leases
<1>1. PoolTypeOK' /\ LeasesMean' /\ PrimaryLives' /\ ExclusiveUse' /\ PoolIsClean'
        /\ LockIsAccountedFor' /\ AbandonedForGood' /\ OneOffsAreDropped'
        /\ NothingLeaks'
  BY SMT
     DEF OnceProtocol, LeasesMean, PrimaryLives, ExclusiveUse, PoolIsClean,
         LockIsAccountedFor, AbandonedForGood, OneOffsAreDropped, NothingLeaks
<1>2. OnceProtocol'
  BY SMT
     DEF OnceProtocol, LeasesMean, PrimaryLives
<1>3. SizesDecide'
  BY SMT
     DEF OnceProtocol, LeasesMean, SizesDecide, PrimaryLives
<1> QED BY <1>1, <1>2, <1>3

(* What the pool holds is clean, so the call may have it.                  *)
LEMMA PoolGetInv ==
    ASSUME IInv, NEW g \in Goroutine, PoolGet(g)
    PROVE  IInv'
<1> USE PoolAssumption, LayoutConstants
        DEF PoolGet, Goto, Holds, IInv, PoolTypeOK, Holding, Pooled, Labels, Leases
<1>1. PoolTypeOK' /\ OnceProtocol' /\ PrimaryLives' /\ OneOffsAreDropped'
  BY SMT
     DEF OnceProtocol, LeasesMean, PrimaryLives, PoolIsClean, OneOffsAreDropped
<1>2. LeasesMean'
  BY SMT
     DEF OnceProtocol, LeasesMean, PrimaryLives, PoolIsClean
<1>3. SizesDecide'
  BY SMT
     DEF OnceProtocol, LeasesMean, SizesDecide, PrimaryLives, PoolIsClean
<1>4. ExclusiveUse'
  BY SMT
     DEF OnceProtocol, LeasesMean, PrimaryLives, ExclusiveUse, PoolIsClean
<1>5. PoolIsClean'
  BY SMT
     DEF OnceProtocol, LeasesMean, PrimaryLives, PoolIsClean
<1>6. LockIsAccountedFor'
  BY SMT
     DEF OnceProtocol, LeasesMean, PrimaryLives, PoolIsClean, LockIsAccountedFor
<1>7. AbandonedForGood'
  BY SMT
     DEF OnceProtocol, LeasesMean, PrimaryLives, PoolIsClean, AbandonedForGood
<1>8. NothingLeaks'
  BY SMT
     DEF OnceProtocol, LeasesMean, PrimaryLives, PoolIsClean, NothingLeaks
<1> QED BY <1>1, <1>2, <1>3, <1>4, <1>5, <1>6, <1>7, <1>8

(* A fresh name, base-sized.                                               *)
LEMMA PoolNewInv ==
    ASSUME IInv, NEW g \in Goroutine, PoolNew(g)
    PROVE  IInv'
<1> USE PoolAssumption, LayoutConstants
        DEF PoolNew, Goto, Holds, Fresh, IInv, PoolTypeOK, Holding, Pooled, Labels, Leases
<1>1. PoolTypeOK' /\ OnceProtocol' /\ PrimaryLives'
  BY SMT
     DEF OnceProtocol, LeasesMean, PrimaryLives
<1>2. LeasesMean'
  BY SMT
     DEF OnceProtocol, LeasesMean, PrimaryLives
<1>3. SizesDecide'
  BY SMT
     DEF OnceProtocol, LeasesMean, SizesDecide, PrimaryLives
<1>4. ExclusiveUse'
  BY SMT
     DEF OnceProtocol, LeasesMean, PrimaryLives, ExclusiveUse
<1>5. PoolIsClean'
  BY SMT
     DEF OnceProtocol, LeasesMean, PrimaryLives, PoolIsClean
<1>6. LockIsAccountedFor'
  BY SMT
     DEF OnceProtocol, LeasesMean, PrimaryLives, LockIsAccountedFor
<1>7. AbandonedForGood'
  BY SMT
     DEF OnceProtocol, LeasesMean, PrimaryLives, AbandonedForGood
<1>8. OneOffsAreDropped'
  BY SMT
     DEF OnceProtocol, LeasesMean, PrimaryLives, OneOffsAreDropped
<1>9. NothingLeaks'
  BY SMT
     DEF OnceProtocol, LeasesMean, PrimaryLives, NothingLeaks
<1> QED BY <1>1, <1>2, <1>3, <1>4, <1>5, <1>6, <1>7, <1>8, <1>9

(* A fresh name, sized for the text.                                       *)
LEMMA NewOneOffInv ==
    ASSUME IInv, NEW g \in Goroutine, NewOneOff(g)
    PROVE  IInv'
<1> USE PoolAssumption, LayoutConstants
        DEF NewOneOff, Goto, Holds, Fresh, IInv, PoolTypeOK, Holding, Pooled, Labels, Leases
<1>1. PoolTypeOK' /\ OnceProtocol' /\ PrimaryLives'
  BY OneOffPages, SMT
     DEF OnceProtocol, LeasesMean, SizesDecide, PrimaryLives
<1>2. LeasesMean'
  BY OneOffPages, SMT
     DEF OnceProtocol, LeasesMean, SizesDecide, PrimaryLives
<1>3. SizesDecide'
  BY SMT
     DEF OnceProtocol, LeasesMean, SizesDecide, PrimaryLives
<1>4. ExclusiveUse'
  BY SMT
     DEF OnceProtocol, LeasesMean, SizesDecide, PrimaryLives, ExclusiveUse
<1>5. PoolIsClean'
  BY SMT
     DEF OnceProtocol, LeasesMean, SizesDecide, PrimaryLives, PoolIsClean
<1>6. LockIsAccountedFor'
  BY SMT
     DEF OnceProtocol, LeasesMean, SizesDecide, PrimaryLives, LockIsAccountedFor
<1>7. AbandonedForGood'
  BY SMT
     DEF OnceProtocol, LeasesMean, SizesDecide, PrimaryLives, AbandonedForGood
<1>8. OneOffsAreDropped'
  BY SMT
     DEF OnceProtocol, LeasesMean, SizesDecide, PrimaryLives, OneOffsAreDropped
<1>9. NothingLeaks'
  BY SMT
     DEF OnceProtocol, LeasesMean, SizesDecide, PrimaryLives, NothingLeaks
<1> QED BY <1>1, <1>2, <1>3, <1>4, <1>5, <1>6, <1>7, <1>8, <1>9

(* The core returned; the lease stands.                                    *)
LEMMA ReturnInv ==
    ASSUME IInv, NEW g \in Goroutine, Return(g)
    PROVE  IInv'
<1> USE PoolAssumption, LayoutConstants
        DEF Return, Goto, IInv, PoolTypeOK, Holding, Pooled, Labels, Leases
<1>1. PoolTypeOK' /\ OnceProtocol' /\ SizesDecide' /\ PrimaryLives' /\ ExclusiveUse'
        /\ PoolIsClean' /\ LockIsAccountedFor' /\ AbandonedForGood'
        /\ OneOffsAreDropped' /\ NothingLeaks'
  BY SMT
     DEF OnceProtocol, LeasesMean, SizesDecide, PrimaryLives, ExclusiveUse, PoolIsClean,
         LockIsAccountedFor, AbandonedForGood, OneOffsAreDropped, NothingLeaks
<1>2. LeasesMean'
  BY SMT
     DEF OnceProtocol, LeasesMean, PrimaryLives
<1> QED BY <1>1, <1>2

(* One holder at most, so what it gives back is free.                      *)
LEMMA ReleaseInv ==
    ASSUME IInv, NEW g \in Goroutine, Release(g)
    PROVE  IInv'
<1> USE PoolAssumption, LayoutConstants
        DEF Release, Goto, LetGo, IInv, PoolTypeOK, Holding, Pooled, Labels, Leases
<1>1. PoolTypeOK' /\ OnceProtocol' /\ ExclusiveUse'
  BY SMT
     DEF OnceProtocol, LeasesMean, PrimaryLives, ExclusiveUse, PoolIsClean,
         AbandonedForGood
<1>2. LeasesMean'
  BY SMT
     DEF OnceProtocol, LeasesMean, PrimaryLives, ExclusiveUse, PoolIsClean,
         AbandonedForGood
<1>3. SizesDecide'
  BY SMT
     DEF OnceProtocol, LeasesMean, SizesDecide, PrimaryLives, ExclusiveUse, PoolIsClean,
         AbandonedForGood
<1>4. PrimaryLives'
  BY SMT
     DEF OnceProtocol, LeasesMean, PrimaryLives, ExclusiveUse, PoolIsClean,
         AbandonedForGood
<1>5. PoolIsClean'
  BY SMT
     DEF OnceProtocol, LeasesMean, PrimaryLives, ExclusiveUse, PoolIsClean,
         AbandonedForGood
<1>6. LockIsAccountedFor'
  BY SMT
     DEF OnceProtocol, LeasesMean, PrimaryLives, ExclusiveUse, PoolIsClean,
         LockIsAccountedFor, AbandonedForGood
<1>7. AbandonedForGood'
  BY SMT
     DEF OnceProtocol, LeasesMean, PrimaryLives, ExclusiveUse, PoolIsClean,
         AbandonedForGood
<1>8. OneOffsAreDropped'
  BY SMT
     DEF OnceProtocol, LeasesMean, PrimaryLives, ExclusiveUse, PoolIsClean,
         AbandonedForGood, OneOffsAreDropped
<1>9. NothingLeaks'
  BY SMT
     DEF OnceProtocol, LeasesMean, PrimaryLives, ExclusiveUse, PoolIsClean,
         AbandonedForGood, NothingLeaks
<1> QED BY <1>1, <1>2, <1>3, <1>4, <1>5, <1>6, <1>7, <1>8, <1>9

(* The holder goes, the instance is abandoned where it was.                *)
LEMMA TrapInv ==
    ASSUME IInv, NEW g \in Goroutine, Trap(g)
    PROVE  IInv'
<1> USE PoolAssumption, LayoutConstants
        DEF Trap, Goto, LetGo, IInv, PoolTypeOK, Holding, Pooled, Labels, Leases
<1>1. PoolTypeOK' /\ OnceProtocol' /\ SizesDecide' /\ PrimaryLives' /\ ExclusiveUse'
  BY SMT
     DEF OnceProtocol, LeasesMean, SizesDecide, PrimaryLives, ExclusiveUse, PoolIsClean
<1>2. LeasesMean'
  BY SMT
     DEF OnceProtocol, LeasesMean, PrimaryLives, ExclusiveUse, PoolIsClean
<1>3. PoolIsClean'
  BY SMT
     DEF OnceProtocol, LeasesMean, PrimaryLives, ExclusiveUse, PoolIsClean
<1>4. LockIsAccountedFor'
  BY SMT
     DEF OnceProtocol, LeasesMean, PrimaryLives, ExclusiveUse, PoolIsClean,
         LockIsAccountedFor
<1>5. AbandonedForGood'
  BY SMT
     DEF OnceProtocol, LeasesMean, PrimaryLives, ExclusiveUse, PoolIsClean,
         AbandonedForGood
<1>6. OneOffsAreDropped'
  BY SMT
     DEF OnceProtocol, LeasesMean, PrimaryLives, ExclusiveUse, PoolIsClean,
         OneOffsAreDropped
<1>7. NothingLeaks'
  BY SMT
     DEF OnceProtocol, LeasesMean, PrimaryLives, ExclusiveUse, PoolIsClean, NothingLeaks
<1> QED BY <1>1, <1>2, <1>3, <1>4, <1>5, <1>6, <1>7

(* Only what the pool held is dropped.                                     *)
LEMMA GCInv ==
    ASSUME IInv, GC
    PROVE  IInv'
<1> USE PoolAssumption, LayoutConstants
        DEF GC, IInv, PoolTypeOK, Holding, Pooled, Labels, Leases
<1>1. PoolTypeOK' /\ OnceProtocol' /\ SizesDecide' /\ ExclusiveUse'
        /\ LockIsAccountedFor' /\ AbandonedForGood'
  BY SMT
     DEF OnceProtocol, LeasesMean, SizesDecide, PrimaryLives, ExclusiveUse, PoolIsClean,
         LockIsAccountedFor, AbandonedForGood
<1>2. LeasesMean'
  BY SMT
     DEF OnceProtocol, LeasesMean, PrimaryLives, PoolIsClean
<1>3. PrimaryLives'
  BY SMT
     DEF OnceProtocol, LeasesMean, PrimaryLives, PoolIsClean
<1>4. PoolIsClean'
  BY SMT
     DEF OnceProtocol, LeasesMean, PrimaryLives, PoolIsClean
<1>5. OneOffsAreDropped'
  BY SMT
     DEF OnceProtocol, LeasesMean, PrimaryLives, PoolIsClean, OneOffsAreDropped
<1>6. NothingLeaks'
  BY SMT
     DEF OnceProtocol, LeasesMean, PrimaryLives, PoolIsClean, NothingLeaks
<1> QED BY <1>1, <1>2, <1>3, <1>4, <1>5, <1>6

-----------------------------------------------------------------------------
(* Every step of a goroutine, and a collection, preserves the invariant.   *)
LEMMA NextInv == IInv /\ [PoolNext]_poolVars => IInv'
<1> SUFFICES ASSUME IInv, [PoolNext]_poolVars
             PROVE  IInv'
  OBVIOUS
<1>1. ASSUME NEW g \in Goroutine, NEW n \in Totals, AcquireScratch(g, n)
      PROVE  IInv'
  <2>1. n \in Nat
    BY PoolAssumption
  <2> QED BY <1>1, <2>1, AcquireScratchInv
<1>2. ASSUME NEW g \in Goroutine, Acquiring(g)
      PROVE  IInv'
  BY <1>2, OnceBeginInv, CreatePrimaryInv, OnceEndInv, OnceDoneInv, TryLockInv,
     TryLockFailsInv, PoolGetInv, PoolNewInv, NewOneOffInv
     DEF Acquiring
<1>3. ASSUME NEW g \in Goroutine, Return(g)
      PROVE  IInv'
  BY <1>3, ReturnInv
<1>4. ASSUME NEW g \in Goroutine, Release(g)
      PROVE  IInv'
  BY <1>4, ReleaseInv
<1>5. ASSUME NEW g \in Goroutine, Trap(g)
      PROVE  IInv'
  BY <1>5, TrapInv
<1>6. CASE GC
  BY <1>6, GCInv
<1>7. CASE UNCHANGED poolVars
  BY <1>7 DEF poolVars, IInv, PoolTypeOK, OnceProtocol, LeasesMean, SizesDecide,
     PrimaryLives, ExclusiveUse, PoolIsClean, LockIsAccountedFor, AbandonedForGood,
     OneOffsAreDropped, NothingLeaks, Holding, Pooled
<1> QED BY <1>1, <1>2, <1>3, <1>4, <1>5, <1>6, <1>7 DEF PoolNext

(* The base scratch holds what a base call asks for, a one-off what its    *)
(* own call asks for.                                                      *)
LEMMA ScratchFromInv == IInv => ScratchHoldsCall
<1> SUFFICES ASSUME IInv, NEW g \in Goroutine, Holding(g)
             PROVE  total[g] + TextOffset <= pages[in[g]] * PageSize
  BY DEF ScratchHoldsCall
<1>1. total[g] \in Nat /\ how[g] \in Leases \ {"none"}
  BY DEF IInv, PoolTypeOK, LeasesMean
<1>2. CASE how[g] = "leasePrimary"
  <2>1. Decision(total[g]) = "base"
    BY <1>2 DEF IInv, SizesDecide
  <2>2. pages[in[g]] = BasePages
    BY <1>2 DEF IInv, LeasesMean, PrimaryLives
  <2> QED BY <1>1, <2>1, <2>2, DecisionMeans, LayoutConstants, SMT
<1>3. CASE how[g] = "leasePooled"
  <2>1. Decision(total[g]) = "base"
    BY <1>3 DEF IInv, SizesDecide
  <2>2. pages[in[g]] = BasePages
    BY <1>3 DEF IInv, LeasesMean
  <2> QED BY <1>1, <2>1, <2>2, DecisionMeans, LayoutConstants, SMT
<1>4. CASE how[g] = "leaseOneOff"
  <2>1. pages[in[g]] = ScratchPages(total[g])
    BY <1>4 DEF IInv, LeasesMean
  <2> QED BY <1>1, <2>1, OneOffPages
<1> QED BY <1>1, <1>2, <1>3, <1>4 DEF Leases

(* The inductive invariant holds in every reachable state.                 *)
LEMMA PoolInvariant == PoolSpec => []IInv
  BY InitInv, NextInv, PTL DEF PoolSpec

-----------------------------------------------------------------------------
(* Type correctness of the pool's variables.                               *)
THEOREM PoolTypeCorrect == PoolSpec => []PoolTypeOK
<1>1. IInv => PoolTypeOK
  BY DEF IInv
<1> QED BY <1>1, PoolInvariant, PTL

(* Two calls are never inside one instance (acquire, release): the         *)
(* primary's lock and the pool's ownership keep them apart, for any number *)
(* of goroutines, panics and collections.                                  *)
THEOREM PoolExcludes == PoolSpec => []ExclusiveUse
<1>1. IInv => ExclusiveUse
  BY DEF IInv
<1> QED BY <1>1, PoolInvariant, PTL

(* The pool only ever offers free, base-sized, undamaged instances, and    *)
(* never the primary.                                                      *)
THEOREM PoolStaysClean == PoolSpec => []PoolIsClean
<1>1. IInv => PoolIsClean
  BY DEF IInv
<1> QED BY <1>1, PoolInvariant, PTL

(* The primary's lock is held by exactly the call on the primary, or by a  *)
(* panic that abandoned it (release is not deferred).                      *)
THEOREM PrimaryLockAccounted == PoolSpec => []LockIsAccountedFor
<1>1. IInv => LockIsAccountedFor
  BY DEF IInv
<1> QED BY <1>1, PoolInvariant, PTL

(* An instance a panic abandoned never serves another call.                *)
THEOREM AbandonedNeverServes == PoolSpec => []AbandonedForGood
<1>1. IInv => AbandonedForGood
  BY DEF IInv
<1> QED BY <1>1, PoolInvariant, PTL

(* Every call's instance has room for its text and what follows it, with   *)
(* the real sizes as with any others (acquireScratch, scratchPagesFor).    *)
THEOREM CallsFitTheirScratch == PoolSpec => []ScratchHoldsCall
  BY ScratchFromInv, PoolInvariant, PTL

(* Neither long texts nor finished calls leave an instance behind.         *)
THEOREM NoInstanceLeaks == PoolSpec => [](OneOffsAreDropped /\ NothingLeaks)
<1>1. IInv => OneOffsAreDropped /\ NothingLeaks
  BY DEF IInv
<1> QED BY <1>1, PoolInvariant, PTL

(* The primary, once created, is never replaced, resized or collected.     *)
LEMMA PrimaryStep ==
    ASSUME IInv, [PoolNext]_poolVars, thePrimary # NoInstance
    PROVE  thePrimary' = thePrimary /\ pages'[thePrimary] = BasePages
<1>1. IInv'
  BY NextInv
<1>2. thePrimary \in Instance
  BY DEF IInv, PoolTypeOK
<1>3. thePrimary' = thePrimary
  BY DEF PoolNext, poolVars, IInv, OnceProtocol, Acquiring, AcquireScratch, OnceBegin,
     CreatePrimary, OnceEnd, OnceDone, TryLock, TryLockFails, PoolGet, PoolNew,
     NewOneOff, Return, Release, Trap, GC
<1> QED BY <1>1, <1>2, <1>3 DEF IInv, PrimaryLives

(* Once created, the primary is the same, living, base-sized instance for  *)
(* ever (primaryOnce, thePrimary): no release, panic or collection         *)
(* replaces it.                                                            *)
THEOREM PrimaryStays == PoolSpec => PrimaryIsForEver
<1>1. IInv /\ [PoolNext]_poolVars
        => [thePrimary # NoInstance =>
              thePrimary' = thePrimary /\ pages'[thePrimary] = BasePages]_poolVars
  BY PrimaryStep
<1> QED BY <1>1, PoolInvariant, PTL DEF PoolSpec, PrimaryIsForEver

-----------------------------------------------------------------------------
(* The loads a request's program has, and the steps after them.            *)
Wanted(step, r) ==
    CASE step = "declaration" -> Declares(r)
      [] step = "text"        -> r.call \in {"callDetailed", "callChecked", "callDeclaredDecimal"}
      [] step = "resetFault"  -> Reports(r)
      [] step = "format"      -> r.format # Nothing
      [] step = "periods"     -> r.periods # Nothing
      [] step = "options"     -> r.options # Nothing
      [] step = "vocab"       -> r.vocab # <<>>

(* The steps after the loads: the export, then what is read back.          *)
Final(r) ==
    CASE Reports(r) /\ Declares(r) -> <<"core", "result", "check">>
      [] (Reports(r) /\ ~Declares(r)) \/ r.call = "callDeclaredDecimal" -> <<"core", "result">>
      [] r.call \in {"callConstraintsCheck", "packedVersion"} -> <<"core">>

(* A step of a program.                                                    *)
Among(step, s) == \E i \in 1 .. Len(s) : s[i] = step

(* A request's call is one of the seven; its cells are sequences.          *)
LEMMA RequestTyped ==
    ASSUME NEW r \in Request
    PROVE  /\ r.call \in Calls
           /\ Len(r.text) \in Nat /\ Len(r.vocab) \in Nat /\ Len(r.enum) \in Nat
           /\ r.text = [k \in 1 .. Len(r.text) |-> r.text[k]]
           /\ r.vocab = [k \in 1 .. Len(r.vocab) |-> r.vocab[k]]
           /\ r.enum = [k \in 1 .. Len(r.enum) |-> r.enum[k]]
<1>1. ASSUME NEW s, IsSequence(s)
      PROVE  Len(s) \in Nat /\ s = [k \in 1 .. Len(s) |-> s[k]]
  BY <1>1 DEF IsSequence
<1>2. QED  BY <1>1, RequestAssumption

(* Steps of a concatenation.                                               *)
LEMMA AmongBoth ==
    ASSUME NEW S, NEW s \in Seq(S), NEW t \in Seq(S)
    PROVE  /\ s \o t \in Seq(S)
           /\ \A step : Among(step, s \o t) <=> Among(step, s) \/ Among(step, t)
<1>1. s \o t \in Seq(S) /\ Len(s \o t) = Len(s) + Len(t) /\ Len(s) \in Nat /\ Len(t) \in Nat
  OBVIOUS
<1>2. /\ \A i \in 1 .. Len(s) : (s \o t)[i] = s[i]
      /\ \A i \in 1 .. Len(t) : (s \o t)[Len(s) + i] = t[i]
  OBVIOUS
<1>3. ASSUME NEW step, Among(step, s \o t)
      PROVE  Among(step, s) \/ Among(step, t)
  <2>1. PICK i \in 1 .. Len(s \o t) : (s \o t)[i] = step
    BY <1>3 DEF Among
  <2>2. CASE i <= Len(s)
    BY <1>1, <1>2, <2>1, <2>2 DEF Among
  <2>3. CASE ~(i <= Len(s))
    <3>1. i - Len(s) \in 1 .. Len(t) /\ Len(s) + (i - Len(s)) = i
      BY <1>1, <2>3
    <3>2. QED  BY <1>2, <2>1, <3>1 DEF Among
  <2>4. QED  BY <2>2, <2>3
<1>4. ASSUME NEW step, Among(step, s) PROVE Among(step, s \o t)
  BY <1>1, <1>2, <1>4 DEF Among
<1>5. ASSUME NEW step, Among(step, t) PROVE Among(step, s \o t)
  <2>1. PICK i \in 1 .. Len(t) : t[i] = step
    BY <1>5 DEF Among
  <2>2. Len(s) + i \in 1 .. Len(s \o t) /\ (s \o t)[Len(s) + i] = step
    BY <1>1, <1>2, <2>1
  <2>3. QED  BY <2>2 DEF Among
<1>6. QED  BY <1>1, <1>3, <1>4, <1>5

(* A conditional load is a step just when it is present.                   *)
LEMMA AmongIf ==
    ASSUME NEW present \in BOOLEAN, NEW load \in Loads
    PROVE  /\ If(present, load) \in Seq(Loads)
           /\ \A step : Among(step, If(present, load)) <=> present /\ step = load
<1>1. CASE present
  BY <1>1 DEF If, Among
<1>2. CASE ~present
  BY <1>2 DEF If, Among
<1>3. QED  BY <1>1, <1>2

(* What a program loads, in some order, and its end.                       *)
LEMMA ProgramIs ==
    ASSUME NEW r \in Request
    PROVE  \E R \in Seq(Loads) :
              /\ Program(r) = R \o Final(r)
              /\ \A step \in Loads : Among(step, R) <=> Wanted(step, r)
<1>0. \A s, t \in Seq(Loads) :
         /\ s \o t \in Seq(Loads)
         /\ \A step : Among(step, s \o t) <=> Among(step, s) \/ Among(step, t)
  BY AmongBoth
<1>1. \A load \in Loads : /\ <<load>> \in Seq(Loads)
                           /\ \A step : Among(step, <<load>>) <=> step = load
  BY DEF Among
<1> DEFINE text == <<"text">>
           reset == <<"resetFault">>
           declaration == <<"declaration">>
           format == If(r.format # Nothing, "format")
           periods == If(r.periods # Nothing, "periods")
           options == If(r.options # Nothing, "options")
           vocab == If(r.vocab # <<>>, "vocab")
<1>2. /\ text \in Seq(Loads) /\ reset \in Seq(Loads) /\ declaration \in Seq(Loads)
      /\ format \in Seq(Loads) /\ periods \in Seq(Loads) /\ options \in Seq(Loads)
      /\ vocab \in Seq(Loads)
      /\ \A step : Among(step, text) <=> step = "text"
      /\ \A step : Among(step, reset) <=> step = "resetFault"
      /\ \A step : Among(step, declaration) <=> step = "declaration"
      /\ \A step : Among(step, format) <=> r.format # Nothing /\ step = "format"
      /\ \A step : Among(step, periods) <=> r.periods # Nothing /\ step = "periods"
      /\ \A step : Among(step, options) <=> r.options # Nothing /\ step = "options"
      /\ \A step : Among(step, vocab) <=> r.vocab # <<>> /\ step = "vocab"
  BY <1>1, AmongIf DEF Loads
<1> HIDE DEF text, reset, declaration, format, periods, options, vocab
<1>3. CASE r.call = "callDetailed"
  <2> DEFINE R == text \o reset \o format \o periods \o options \o vocab
  <2>1. Program(r) = R \o <<"core", "result">> /\ Final(r) = <<"core", "result">>
    BY <1>3 DEF Program, Final, ResetFault, Reports, Declares, text, reset, format, periods,
                options, vocab
  <2>2. /\ R \in Seq(Loads)
        /\ \A step : Among(step, R) <=>
              \/ Among(step, text) \/ Among(step, reset) \/ Among(step, format)
              \/ Among(step, periods) \/ Among(step, options) \/ Among(step, vocab)
    <3> DEFINE s2 == text \o reset
               s3 == s2 \o format
               s4 == s3 \o periods
               s5 == s4 \o options
    <3>1. s2 \in Seq(Loads) /\ \A step : Among(step, s2) <=> Among(step, text) \/ Among(step, reset)
      BY <1>0, <1>2
    <3> HIDE DEF s2
    <3>2. s3 \in Seq(Loads) /\ \A step : Among(step, s3) <=> Among(step, s2) \/ Among(step, format)
      BY <1>0, <1>2, <3>1
    <3> HIDE DEF s3
    <3>3. s4 \in Seq(Loads) /\ \A step : Among(step, s4) <=> Among(step, s3) \/ Among(step, periods)
      BY <1>0, <1>2, <3>2
    <3> HIDE DEF s4
    <3>4. s5 \in Seq(Loads) /\ \A step : Among(step, s5) <=> Among(step, s4) \/ Among(step, options)
      BY <1>0, <1>2, <3>3
    <3> HIDE DEF s5
    <3>5. /\ s5 \o vocab \in Seq(Loads)
          /\ \A step : Among(step, s5 \o vocab) <=> Among(step, s5) \/ Among(step, vocab)
      BY <1>0, <1>2, <3>4
    <3>6. R = s5 \o vocab
      BY DEF s5, s4, s3, s2
    <3>7. QED  BY <3>1, <3>2, <3>3, <3>4, <3>5, <3>6
  <2>3. \A step \in Loads : Among(step, R) <=> Wanted(step, r)
    <3> HIDE DEF R
    <3>1. QED  BY <1>2, <1>3, <2>2 DEF Loads, Wanted, Declares, Reports
  <2>4. QED  BY <2>1, <2>2, <2>3
<1>4. \A s \in Seq(Loads) :
         (s \o <<"core", "result">>) \o <<"check">> = s \o <<"core", "result", "check">>
  OBVIOUS
<1>5. CASE r.call = "callChecked"
  <2> DEFINE R == declaration \o text \o reset \o format
  <2>1. /\ R \in Seq(Loads)
        /\ \A step : Among(step, R) <=>
              \/ Among(step, declaration) \/ Among(step, text) \/ Among(step, reset)
              \/ Among(step, format)
    <3> DEFINE s2 == declaration \o text
               s3 == s2 \o reset
    <3>1. s2 \in Seq(Loads)
          /\ \A step : Among(step, s2) <=> Among(step, declaration) \/ Among(step, text)
      BY <1>0, <1>2
    <3> HIDE DEF s2
    <3>2. s3 \in Seq(Loads) /\ \A step : Among(step, s3) <=> Among(step, s2) \/ Among(step, reset)
      BY <1>0, <1>2, <3>1
    <3> HIDE DEF s3
    <3>3. /\ s3 \o format \in Seq(Loads)
          /\ \A step : Among(step, s3 \o format) <=> Among(step, s3) \/ Among(step, format)
      BY <1>0, <1>2, <3>2
    <3>4. R = s3 \o format
      BY DEF s3, s2
    <3>5. QED  BY <3>1, <3>2, <3>3, <3>4
  <2>2. /\ Program(r) = (R \o <<"core", "result">>) \o <<"check">>
        /\ Final(r) = <<"core", "result", "check">>
    BY <1>5 DEF Program, Final, ResetFault, Reports, Declares, text, reset, format, declaration
  <2> HIDE DEF R
  <2>3. Program(r) = R \o Final(r)
    BY <1>4, <2>1, <2>2
  <2>4. \A step \in Loads : Among(step, R) <=> Wanted(step, r)
    BY <1>2, <1>5, <2>1, RequestAssumption DEF Loads, Wanted, Declares, Reports
  <2>5. QED  BY <2>1, <2>3, <2>4
<1>6. CASE r.call = "callCheckedFromF64"
  <2> DEFINE R == declaration \o reset
  <2>1. R \in Seq(Loads)
        /\ \A step : Among(step, R) <=> Among(step, declaration) \/ Among(step, reset)
    BY <1>0, <1>2
  <2>2. /\ Program(r) = (R \o <<"core", "result">>) \o <<"check">>
        /\ Final(r) = <<"core", "result", "check">>
    BY <1>6 DEF Program, Final, ResetFault, Reports, Declares, reset, declaration
  <2> HIDE DEF R
  <2>3. Program(r) = R \o Final(r)
    BY <1>4, <2>1, <2>2
  <2>4. \A step \in Loads : Among(step, R) <=> Wanted(step, r)
    BY <1>2, <1>6, <2>1, RequestAssumption DEF Loads, Wanted, Declares, Reports
  <2>5. QED  BY <2>1, <2>3, <2>4
<1>7. CASE r.call = "callDetailedFromF64"
  <2>1. Program(r) = reset \o Final(r)
    BY <1>7 DEF Program, Final, ResetFault, Reports, Declares, reset
  <2>2. \A step \in Loads : Among(step, reset) <=> Wanted(step, r)
    BY <1>2, <1>7, RequestAssumption DEF Loads, Wanted, Declares, Reports
  <2>3. QED  BY <1>2, <2>1, <2>2
<1>8. CASE r.call = "callDeclaredDecimal"
  <2>1. Program(r) = text \o Final(r)
    BY <1>8 DEF Program, Final, Reports, Declares, text
  <2>2. \A step \in Loads : Among(step, text) <=> Wanted(step, r)
    BY <1>2, <1>8, RequestAssumption DEF Loads, Wanted, Declares, Reports
  <2>3. QED  BY <1>2, <2>1, <2>2
<1>9. CASE r.call = "callConstraintsCheck"
  <2>1. Program(r) = declaration \o Final(r)
    BY <1>9 DEF Program, Final, Reports, Declares, declaration
  <2>2. \A step \in Loads : Among(step, declaration) <=> Wanted(step, r)
    BY <1>2, <1>9, RequestAssumption DEF Loads, Wanted, Declares, Reports
  <2>3. QED  BY <1>2, <2>1, <2>2
<1>10. CASE r.call = "packedVersion"
  <2>1. Program(r) = <<>> \o Final(r)
    BY <1>10 DEF Program, Final, Reports, Declares
  <2>2. \A step \in Loads : Among(step, <<>>) <=> Wanted(step, r)
    <3>1. \A step \in Loads : ~Wanted(step, r)
      BY <1>10, RequestAssumption DEF Loads, Wanted, Declares, Reports
    <3>2. \A step : ~Among(step, <<>>)
      BY DEF Among
    <3>3. QED  BY <3>1, <3>2
  <2>3. <<>> \in Seq(Loads)
    OBVIOUS
  <2>4. QED  BY <2>1, <2>2, <2>3
<1>11. QED
  BY <1>3, <1>5, <1>6, <1>7, <1>8, <1>9, <1>10, RequestTyped DEF Calls

-----------------------------------------------------------------------------
(* The header's regions follow one another up to the text.                 *)
LEMMA Offsets ==
    /\ OutOffset = 0 /\ FaultOffset \in Nat /\ FormatOffset \in Nat /\ PeriodsOffset \in Nat
    /\ OptionsOffset \in Nat /\ TextOffset \in Nat
    /\ 0 < FaultOffset /\ FaultOffset + 1 < FormatOffset /\ FormatOffset < PeriodsOffset
    /\ PeriodsOffset < OptionsOffset /\ OptionsOffset < TextOffset
  BY CellAssumption, LayoutAssumption, SMT
     DEF TextOffset, OptionsOffset, PeriodsOffset, FormatOffset, FaultOffset, OutOffset

(* A declaration's cells: the RawConstraints, the RawCheck, the enum list. *)
LEMMA DeclarationCells ==
    ASSUME NEW r \in Request
    PROVE  /\ Len(Declaration(r)) = 3 + Len(r.enum)
           /\ Declaration(r)[1] = r.decl
           /\ Declaration(r)[2] = Number(0)
           /\ Declaration(r)[3] = Number(NoEntry)
           /\ \A k \in 1 .. Len(r.enum) : Declaration(r)[3 + k] = r.enum[k]
<1> DEFINE front == <<r.decl, Unchecked.keyword, Unchecked.entry>>
<1>1. ASSUME NEW S, NEW s \in Seq(S), NEW t \in Seq(S)
      PROVE  /\ Len(s \o t) = Len(s) + Len(t)
             /\ \A k \in 1 .. Len(s) : (s \o t)[k] = s[k]
             /\ \A k \in 1 .. Len(t) : (s \o t)[Len(s) + k] = t[k]
  OBVIOUS
<1>2. PICK S : front \in Seq(S) /\ r.enum \in Seq(S)
  <2> DEFINE E == { r.enum[i] : i \in DOMAIN r.enum }
             S == E \cup { r.decl, Unchecked.keyword, Unchecked.entry }
  <2>1. r.enum \in Seq(E)
    BY RequestAssumption DEF IsSequence
  <2> HIDE DEF E
  <2>2. r.enum \in Seq(S)
    BY <2>1
  <2>3. front \in Seq(S)
    OBVIOUS
  <2>4. QED  BY <2>2, <2>3
<1>3. Len(front) = 3 /\ front[1] = r.decl /\ front[2] = Number(0) /\ front[3] = Number(NoEntry)
  BY DEF Unchecked
<1> HIDE DEF front
<1>4. Declaration(r) = front \o r.enum
  BY DEF Declaration, front
<1>5. /\ Len(front \o r.enum) = Len(front) + Len(r.enum)
      /\ \A k \in 1 .. Len(front) : (front \o r.enum)[k] = front[k]
      /\ \A k \in 1 .. Len(r.enum) : (front \o r.enum)[Len(front) + k] = r.enum[k]
  BY <1>1, <1>2
<1>6. QED  BY <1>3, <1>4, <1>5

(* Where a load goes: into its region of the header, over the text, past   *)
(* it; inside what acquireScratch was asked for.                           *)
LEMMA LoadSpans ==
    ASSUME NEW r \in Request, NEW step \in Loads, Wanted(step, r)
    PROVE  /\ Load(step, r).at \in Nat
           /\ Len(Load(step, r).cells) \in Nat
           /\ Load(step, r).at + Len(Load(step, r).cells) <= TextOffset + Total(r)
           /\ Load(step, r).at =
                 CASE step = "declaration" -> DeclarationAt(Len(r.text))
                   [] step = "text"        -> TextOffset
                   [] step = "resetFault"  -> FaultOffset
                   [] step = "format"      -> FormatOffset
                   [] step = "periods"     -> PeriodsOffset
                   [] step = "options"     -> OptionsOffset
                   [] step = "vocab"       -> TextOffset + Len(r.text)
           /\ Len(Load(step, r).cells) =
                 CASE step = "declaration" -> 3 + Len(r.enum)
                   [] step = "text"        -> Len(r.text)
                   [] step \in {"resetFault", "format", "periods", "options"} -> 1
                   [] step = "vocab"       -> Len(r.vocab)
<1> DEFINE n == Len(r.text)
<1>1. n \in Nat /\ Len(r.vocab) \in Nat /\ Len(r.enum) \in Nat
  BY RequestTyped
<1>2. DeclarationAt(n) \in Nat /\ TextOffset + n <= DeclarationAt(n)
  BY <1>1, DeclarationPastText
<1>3. Total(r) \in Nat /\ n <= Total(r)
      /\ (Declares(r) => TextOffset + Total(r) = DeclarationAt(n) + 3 + Len(r.enum))
      /\ (~Declares(r) => Total(r) = n + Len(r.vocab))
  <2> DEFINE v == Len(r.vocab)
             e == Len(r.enum)
             at == DeclarationAt(n)
  <2>1. CASE Declares(r)
    <3>1. Total(r) = n + (at - TextOffset - n + 1 + 2 + e)
      BY <2>1, CellAssumption DEF Total, DeclarationExtra
    <3>2. n \in Nat /\ e \in Nat /\ at \in Nat /\ TextOffset + n <= at
      BY <1>1, <1>2
    <3> HIDE DEF n, e, at
    <3>3. Total(r) = at - TextOffset + 3 + e /\ TextOffset \in Nat
      BY <3>1, <3>2, Offsets
    <3> DEFINE t == Total(r)
    <3> HIDE DEF t
    <3>4. t \in Nat /\ n <= t /\ TextOffset + t = at + 3 + e
      BY <3>2, <3>3 DEF t
    <3>5. QED  BY <2>1, <3>4 DEF t, e, at
  <2>2. CASE ~Declares(r)
    <3>1. Total(r) = n + v /\ n \in Nat /\ v \in Nat
      BY <1>1, <2>2 DEF Total
    <3> HIDE DEF n, v
    <3>2. Total(r) \in Nat /\ n <= Total(r)
      BY <3>1
    <3>3. QED  BY <2>2, <3>1, <3>2 DEF v
  <2>3. QED  BY <2>1, <2>2
<1>4. Wanted("vocab", r) => ~Declares(r)
  BY RequestAssumption DEF Wanted, Declares
<1>5. CASE step = "declaration"
  BY <1>1, <1>2, <1>3, <1>5, DeclarationCells DEF Load, Wanted
<1>6. CASE step = "text"
  BY <1>1, <1>3, <1>6, Offsets DEF Load, Wanted
<1>7. CASE step = "vocab"
  <2>1. Load(step, r).at = TextOffset + n /\ Load(step, r).cells = r.vocab
    BY <1>7 DEF Load, VocabAt
  <2>2. ~Declares(r)
    BY <1>4, <1>7
  <2> DEFINE v == Len(r.vocab)
  <2>3. Total(r) = n + v /\ TextOffset \in Nat /\ n \in Nat /\ v \in Nat
    BY <1>1, <1>3, <2>2, Offsets
  <2> HIDE DEF n, v
  <2>4. TextOffset + n \in Nat /\ TextOffset + n + v <= TextOffset + Total(r)
    BY <2>3
  <2> USE DEF n, v
  <2>5. /\ Load(step, r).at \in Nat
        /\ Len(Load(step, r).cells) \in Nat
        /\ Load(step, r).at + Len(Load(step, r).cells) <= TextOffset + Total(r)
    BY <2>1, <2>3, <2>4
  <2>6. QED  BY <1>7, <2>1, <2>5
<1>8. CASE step \in {"resetFault", "format", "periods", "options"}
  BY <1>3, <1>8, Offsets DEF Load
<1>9. QED  BY <1>5, <1>6, <1>7, <1>8 DEF Loads

(* No two loads of a call touch a cell in common.                          *)
LEMMA LoadsApart ==
    ASSUME NEW r \in Request, NEW s \in Loads, NEW t \in Loads,
           Wanted(s, r), Wanted(t, r), s # t
    PROVE  \/ Load(s, r).at + Len(Load(s, r).cells) <= Load(t, r).at
           \/ Load(t, r).at + Len(Load(t, r).cells) <= Load(s, r).at
<1> DEFINE n == Len(r.text)
           at(step) == CASE step = "declaration" -> DeclarationAt(n)
                         [] step = "text"        -> TextOffset
                         [] step = "resetFault"  -> FaultOffset
                         [] step = "format"      -> FormatOffset
                         [] step = "periods"     -> PeriodsOffset
                         [] step = "options"     -> OptionsOffset
                         [] step = "vocab"       -> TextOffset + n
           len(step) == CASE step = "declaration" -> 3 + Len(r.enum)
                          [] step = "text"        -> n
                          [] step \in {"resetFault", "format", "periods", "options"} -> 1
                          [] step = "vocab"       -> Len(r.vocab)
<1>1. /\ Load(s, r).at = at(s) /\ Len(Load(s, r).cells) = len(s)
      /\ Load(t, r).at = at(t) /\ Len(Load(t, r).cells) = len(t)
  BY LoadSpans
<1>2. ~(s = "declaration" /\ t = "vocab") /\ ~(s = "vocab" /\ t = "declaration")
  BY RequestAssumption DEF Wanted, Declares
<1>3. n \in Nat /\ Len(r.enum) \in Nat /\ Len(r.vocab) \in Nat
  BY RequestTyped
<1>4. DeclarationAt(n) \in Nat /\ TextOffset + n <= DeclarationAt(n)
  BY <1>3, DeclarationPastText
<1> HIDE DEF n
<1>5. at(s) + len(s) <= at(t) \/ at(t) + len(t) <= at(s)
  BY <1>2, <1>3, <1>4, Offsets, SMTT(30) DEF Loads
<1>6. QED  BY <1>1, <1>5

-----------------------------------------------------------------------------
(* A load's cells are where the core will look for them.                   *)
Placed(step, m, r) ==
    \A k \in 1 .. Len(Load(step, r).cells) :
        m[Load(step, r).at + k - 1] = Load(step, r).cells[k]

(* A scratch with room for all that a request asks for.                    *)
Roomy(m, r) == \E size \in Nat : DOMAIN m = 0 .. size - 1 /\ TextOffset + Total(r) <= size

(* What copy() writes, and what it leaves alone.                           *)
LEMMA StoredCells ==
    ASSUME NEW m, NEW size \in Nat, DOMAIN m = 0 .. size - 1,
           NEW l, l.at \in Nat, Len(l.cells) \in Nat, l.at + Len(l.cells) <= size
    PROVE  /\ DOMAIN Stored(m, l) = DOMAIN m
           /\ \A k \in 1 .. Len(l.cells) : Stored(m, l)[l.at + k - 1] = l.cells[k]
           /\ \A k \in DOMAIN m : k < l.at \/ l.at + Len(l.cells) <= k =>
                                    Stored(m, l)[k] = m[k]
<1> DEFINE at == l.at
           cells == l.cells
           len == Len(l.cells)
<1>1. Stored(m, l) = [k \in DOMAIN m |-> IF k \in at .. at + len - 1
                                         THEN cells[k - at + 1] ELSE m[k]]
  BY DEF Stored
<1>2. at \in Nat /\ len \in Nat /\ at + len <= size
  OBVIOUS
<1> HIDE DEF at, cells, len
<1>3. ASSUME NEW k \in 1 .. len
      PROVE  Stored(m, l)[at + k - 1] = cells[k]
  <2>1. at + k - 1 \in 0 .. size - 1 /\ at + k - 1 \in at .. at + len - 1
        /\ (at + k - 1) - at + 1 = k
    BY <1>2
  <2>2. QED  BY <1>1, <2>1
<1>4. ASSUME NEW k \in DOMAIN m, k < at \/ at + len <= k
      PROVE  Stored(m, l)[k] = m[k]
  <2>1. k \notin at .. at + len - 1
    BY <1>2, <1>4
  <2>2. QED  BY <1>1, <2>1
<1>5. DOMAIN Stored(m, l) = DOMAIN m
  BY <1>1
<1>6. QED  BY <1>3, <1>4, <1>5 DEF at, cells, len

(* A load puts its own cells in place and damages no other load's.         *)
LEMMA LoadPlaces ==
    ASSUME NEW r \in Request, NEW step \in Loads, Wanted(step, r), NEW m, Roomy(m, r)
    PROVE  /\ DOMAIN Stored(m, Load(step, r)) = DOMAIN m
           /\ Placed(step, Stored(m, Load(step, r)), r)
           /\ \A other \in Loads : Wanted(other, r) /\ Placed(other, m, r) =>
                                      Placed(other, Stored(m, Load(step, r)), r)
<1> DEFINE l == Load(step, r)
           m2 == Stored(m, l)
<1>1. PICK size \in Nat : DOMAIN m = 0 .. size - 1 /\ TextOffset + Total(r) <= size
  BY DEF Roomy
<1>0. TextOffset + Total(r) \in Nat
  <2>1. Total(r) \in Nat
    BY PoolAssumption, CellAssumption
  <2>2. QED  BY <2>1, Offsets
<1>2. l.at \in Nat /\ Len(l.cells) \in Nat /\ l.at + Len(l.cells) <= size
  <2>1. l.at \in Nat /\ Len(l.cells) \in Nat /\ l.at + Len(l.cells) <= TextOffset + Total(r)
    BY LoadSpans
  <2> HIDE DEF l
  <2>2. QED  BY <1>0, <1>1, <2>1
<1>3. /\ DOMAIN m2 = DOMAIN m
      /\ \A k \in 1 .. Len(l.cells) : m2[l.at + k - 1] = l.cells[k]
      /\ \A k \in DOMAIN m : k < l.at \/ l.at + Len(l.cells) <= k => m2[k] = m[k]
  <2> HIDE DEF l
  <2>1. QED  BY <1>1, <1>2, StoredCells
<1> HIDE DEF m2
<1>4. Placed(step, m2, r)
  BY <1>3 DEF Placed
<1>5. ASSUME NEW other \in Loads, Wanted(other, r), Placed(other, m, r), other # step
      PROVE  Placed(other, m2, r)
  <2> DEFINE at == Load(other, r).at
             len == Len(Load(other, r).cells)
             cells == Load(other, r).cells
  <2>1. at \in Nat /\ len \in Nat /\ at + len <= TextOffset + Total(r)
    BY <1>5, LoadSpans
  <2>2. l.at + Len(l.cells) <= at \/ at + len <= l.at
    BY <1>5, LoadsApart
  <2>3. \A k \in 1 .. len : m[at + k - 1] = cells[k]
    BY <1>5 DEF Placed
  <2> HIDE DEF at, len, cells, l
  <2>4. ASSUME NEW k \in 1 .. len PROVE m2[at + k - 1] = cells[k]
    <3>1. at + k - 1 \in 0 .. size - 1
          /\ (at + k - 1 < l.at \/ l.at + Len(l.cells) <= at + k - 1)
      BY <1>0, <1>1, <1>2, <2>1, <2>2
    <3>2. QED  BY <1>1, <1>3, <2>3, <3>1
  <2>5. QED  BY <2>4 DEF Placed, at, len, cells
<1>6. QED  BY <1>3, <1>4, <1>5 DEF m2

(* Every load a request wants is in the scratch.                           *)
AllPlaced(m, r) == \A step \in Loads : Wanted(step, r) => Placed(step, m, r)

(* When every load is in place, what the core sees is the request.         *)
LEMMA PlacedIsSeen ==
    ASSUME NEW r \in Request, NEW m, AllPlaced(m, r)
    PROVE  /\ Seen(m, r) = r
           /\ Reports(r) => m[FaultOffset] = SizeWord
<1> DEFINE n == Len(r.text)
<1>1. n \in Nat /\ Len(r.vocab) \in Nat /\ Len(r.enum) \in Nat
  BY RequestTyped
<1>2. DeclarationAt(n) \in Nat
  BY <1>1, DeclarationPastText
<1>3. Fetched(m, TextOffset, n) = r.text
  <2>1. r.text = [k \in 1 .. n |-> r.text[k]]
    BY RequestTyped
  <2>2. CASE n = 0
    BY <2>1, <2>2 DEF Fetched
  <2>3. CASE n # 0
    <3>1. Wanted("text", r)
      BY <2>3, RequestAssumption DEF Wanted
    <3>2. Load("text", r).at = TextOffset /\ Load("text", r).cells = r.text
      BY DEF Load
    <3>3. \A k \in 1 .. n : m[TextOffset + k - 1] = r.text[k]
      BY <3>1, <3>2 DEF AllPlaced, Placed, Loads
    <3>4. QED  BY <2>1, <3>3 DEF Fetched
  <2>4. QED  BY <2>2, <2>3
<1>4. Fetched(m, VocabAt(n), Len(r.vocab)) = r.vocab
  <2>1. r.vocab = [k \in 1 .. Len(r.vocab) |-> r.vocab[k]]
    BY RequestTyped
  <2>2. CASE r.vocab = <<>>
    BY <2>1, <2>2 DEF Fetched
  <2>3. CASE r.vocab # <<>>
    <3>1. Wanted("vocab", r)
      BY <2>3 DEF Wanted
    <3>2. Load("vocab", r).at = VocabAt(n) /\ Load("vocab", r).cells = r.vocab
      BY DEF Load
    <3>3. \A k \in 1 .. Len(r.vocab) : m[VocabAt(n) + k - 1] = r.vocab[k]
      BY <3>1, <3>2 DEF AllPlaced, Placed, Loads
    <3>4. QED  BY <2>1, <3>3 DEF Fetched
  <2>4. QED  BY <2>2, <2>3
<1>5. ASSUME Declares(r)
      PROVE  /\ m[DeclarationAt(n)] = r.decl
             /\ Fetched(m, EnumAt(n), Len(r.enum)) = r.enum
  <2> DEFINE at == DeclarationAt(n)
             e == Len(r.enum)
             cells == Declaration(r)
  <2>1. Wanted("declaration", r)
    BY <1>5 DEF Wanted
  <2>2. Load("declaration", r).at = at /\ Load("declaration", r).cells = cells
    BY DEF Load
  <2>3. \A k \in 1 .. Len(cells) : m[at + k - 1] = cells[k]
    BY <2>1, <2>2 DEF AllPlaced, Placed, Loads
  <2>4. Len(cells) = 3 + e /\ cells[1] = r.decl /\ \A k \in 1 .. e : cells[3 + k] = r.enum[k]
    BY DeclarationCells
  <2>5. EnumAt(n) = at + 3
    BY <1>2, CellAssumption DEF EnumAt, CheckAt
  <2>6. r.enum = [k \in 1 .. e |-> r.enum[k]]
    BY RequestTyped
  <2>7. at \in Nat /\ e \in Nat
    BY <1>1, <1>2
  <2> HIDE DEF at, e, cells
  <2>8. m[at] = r.decl
    <3>1. 1 \in 1 .. Len(cells) /\ at + 1 - 1 = at
      BY <2>4, <2>7
    <3>2. QED  BY <2>3, <2>4, <3>1
  <2>9. ASSUME NEW k \in 1 .. e PROVE m[at + 3 + k - 1] = r.enum[k]
    <3>1. 3 + k \in 1 .. Len(cells) /\ at + (3 + k) - 1 = at + 3 + k - 1
      BY <2>4, <2>7
    <3>2. QED  BY <2>3, <2>4, <3>1
  <2>10. QED  BY <2>5, <2>6, <2>8, <2>9 DEF Fetched, at, e
<1>6. Fetched(m, EnumAt(n), Len(r.enum)) = r.enum
  <2>1. CASE Declares(r)
    BY <1>5, <2>1
  <2>2. CASE ~Declares(r)
    <3>1. r.enum = <<>>
      BY <2>2, RequestAssumption
    <3>2. r.enum = [k \in 1 .. Len(r.enum) |-> r.enum[k]]
      BY RequestTyped
    <3>3. QED  BY <3>1, <3>2 DEF Fetched
  <2>3. QED  BY <2>1, <2>2
<1>7. (IF Declares(r) THEN m[DeclarationAt(n)] ELSE Nothing) = r.decl
  BY <1>5, RequestAssumption
<1>8. \A step \in {"resetFault", "format", "periods", "options"} :
         Wanted(step, r) => m[Load(step, r).at] = Load(step, r).cells[1]
  <2>1. ASSUME NEW step \in {"resetFault", "format", "periods", "options"}, Wanted(step, r)
        PROVE  m[Load(step, r).at] = Load(step, r).cells[1]
    <3>1. step \in Loads /\ Load(step, r).at \in Nat /\ Len(Load(step, r).cells) = 1
      BY <2>1, LoadSpans, Offsets DEF Loads
    <3>2. \A k \in 1 .. 1 : m[Load(step, r).at + k - 1] = Load(step, r).cells[k]
      BY <2>1, <3>1 DEF AllPlaced, Placed
    <3>3. QED  BY <3>1, <3>2
  <2>2. QED  BY <2>1
<1>9. /\ Reports(r) => m[FaultOffset] = SizeWord
      /\ r.format # Nothing => m[FormatOffset] = r.format
      /\ r.periods # Nothing => m[PeriodsOffset] = r.periods
      /\ r.options # Nothing => m[OptionsOffset] = r.options
  BY <1>8 DEF Wanted, Load
<1>10. Seen(m, r) = [r EXCEPT !.text = r.text, !.format = r.format, !.periods = r.periods,
                              !.options = r.options, !.vocab = r.vocab, !.decl = r.decl,
                              !.enum = r.enum]
  BY <1>3, <1>4, <1>6, <1>7, <1>9 DEF Seen
<1>11. r = [field \in Fields |-> r[field]]
  BY RequestAssumption
<1>12. Seen(m, r) = r
  BY <1>10, <1>11 DEF Fields
<1>13. QED  BY <1>9, <1>12

-----------------------------------------------------------------------------
(* What the core leaves for result and check to read.                      *)
Report(r) ==
    [keyword |-> Number(IF Core(r).code = 4 THEN Core(r).keyword ELSE 0),
     entry   |-> Number(IF Core(r).code = 0 THEN Core(r).entry ELSE NoEntry)]

(* The calls whose out-value or fault is copied out.                       *)
HasResult(r) == Reports(r) \/ r.call = "callDeclaredDecimal"

Reported(m, r) ==
    /\ HasResult(r) /\ Core(r).code = 0 => m[OutOffset] = r
    /\ Reports(r) /\ Core(r).code > 0 => m[FaultOffset + 1] = r
    /\ Reports(r) /\ Declares(r) => Checked(m, r) = Report(r)

(* A declaration in place is a RawCheck reset.                             *)
LEMMA CheckIsReset ==
    ASSUME NEW r \in Request, NEW m, AllPlaced(m, r), Declares(r)
    PROVE  m[CheckAt(Len(r.text))] = Number(0) /\ m[CheckAt(Len(r.text)) + 1] = Number(NoEntry)
<1> DEFINE at == DeclarationAt(Len(r.text))
           cells == Declaration(r)
<1>1. at \in Nat
  BY RequestTyped, DeclarationPastText
<1>2. Load("declaration", r).at = at /\ Load("declaration", r).cells = cells
  BY DEF Load
<1>3. Wanted("declaration", r)
  BY DEF Wanted
<1>4. \A k \in 1 .. Len(cells) : m[at + k - 1] = cells[k]
  BY <1>2, <1>3 DEF AllPlaced, Placed, Loads
<1>5. Len(cells) = 3 + Len(r.enum) /\ cells[2] = Number(0) /\ cells[3] = Number(NoEntry)
  BY DeclarationCells
<1>6. CheckAt(Len(r.text)) = at + 1
  BY CellAssumption DEF CheckAt
<1>7. Len(r.enum) \in Nat
  BY RequestTyped
<1> HIDE DEF at, cells
<1>8. 2 \in 1 .. Len(cells) /\ 3 \in 1 .. Len(cells)
  BY <1>5, <1>7
<1>9. at + 2 - 1 = at + 1 /\ at + 3 - 1 = at + 1 + 1
  BY <1>1
<1>10. QED  BY <1>4, <1>5, <1>6, <1>8, <1>9

(* The cells the core may write are in the scratch and are not each other. *)
LEMMA ReportCells ==
    ASSUME NEW r \in Request, NEW m, Roomy(m, r)
    PROVE  /\ OutOffset \in DOMAIN m /\ FaultOffset + 1 \in DOMAIN m
           /\ OutOffset # FaultOffset + 1
           /\ Declares(r) =>
                 /\ CheckAt(Len(r.text)) \in DOMAIN m /\ CheckAt(Len(r.text)) + 1 \in DOMAIN m
                 /\ CheckAt(Len(r.text)) # CheckAt(Len(r.text)) + 1
                 /\ CheckAt(Len(r.text)) > FaultOffset + 1
<1>1. PICK size \in Nat : DOMAIN m = 0 .. size - 1 /\ TextOffset + Total(r) <= size
  BY DEF Roomy
<1>2. Total(r) \in Nat
  BY PoolAssumption, CellAssumption
<1>3. OutOffset \in DOMAIN m /\ FaultOffset + 1 \in DOMAIN m /\ OutOffset # FaultOffset + 1
  BY <1>1, <1>2, Offsets
<1>4. ASSUME Declares(r)
      PROVE  /\ CheckAt(Len(r.text)) \in DOMAIN m /\ CheckAt(Len(r.text)) + 1 \in DOMAIN m
             /\ CheckAt(Len(r.text)) # CheckAt(Len(r.text)) + 1
             /\ CheckAt(Len(r.text)) > FaultOffset + 1
  <2> DEFINE at == DeclarationAt(Len(r.text))
             e == Len(r.enum)
             n == Len(r.text)
  <2>1. at \in Nat /\ e \in Nat /\ n \in Nat /\ TextOffset + n <= at
    BY RequestTyped, DeclarationPastText
  <2>2. CheckAt(Len(r.text)) = at + 1
    BY CellAssumption DEF CheckAt
  <2>3. at + 3 + e <= TextOffset + Total(r)
    <3>1. Wanted("declaration", r)
      BY <1>4 DEF Wanted
    <3>2. /\ Load("declaration", r).at + Len(Load("declaration", r).cells)
               <= TextOffset + Total(r)
          /\ Load("declaration", r).at = at /\ Len(Load("declaration", r).cells) = 3 + e
      BY <3>1, LoadSpans DEF Loads
    <3> HIDE DEF at, e, n
    <3>3. at + (3 + e) = at + 3 + e
      BY <2>1
    <3>4. QED  BY <3>2, <3>3
  <2> HIDE DEF at, e, n
  <2>4. at + 1 \in 0 .. size - 1 /\ at + 1 + 1 \in 0 .. size - 1 /\ at + 1 # at + 1 + 1
        /\ at + 1 > FaultOffset + 1
    BY <1>1, <1>2, <2>1, <2>3, Offsets
  <2>5. QED  BY <1>1, <2>2, <2>4
<1>5. QED  BY <1>3, <1>4

(* The core judges the request, and its report is there to be read.        *)
LEMMA CoreReports ==
    ASSUME NEW r \in Request, NEW m, Roomy(m, r), AllPlaced(m, r)
    PROVE  /\ Judged(m, r) = Core(r)
           /\ DOMAIN Written(m, r) = DOMAIN m
           /\ Reported(Written(m, r), r)
<1> DEFINE w == Written(m, r)
           at == CheckAt(Len(r.text))
<1>1. Seen(m, r) = r /\ (Reports(r) => m[FaultOffset] = SizeWord)
  BY PlacedIsSeen
<1>2. Judged(m, r) = Core(r)
  BY <1>1 DEF Judged
<1>3. w = [k \in DOMAIN m |->
             CASE k = OutOffset /\ HasResult(r) /\ Core(r).code = 0 -> r
               [] k = FaultOffset + 1 /\ Reports(r) /\ Core(r).code > 0 -> r
               [] k = at /\ Declares(r) /\ Reports(r) /\ Core(r).code \in {0, 4} ->
                    Number(IF Core(r).code = 4 THEN Core(r).keyword ELSE 0)
               [] k = at + 1 /\ Declares(r) /\ Reports(r) /\ Core(r).code \in {0, 4} ->
                    Number(IF Core(r).code = 0 THEN Core(r).entry ELSE NoEntry)
               [] OTHER -> m[k]]
  BY <1>1, <1>2 DEF Written, HasResult
<1>4. Core(r).code \in Int
  <2>1. Core(r).code \in CoreCodes(r) /\ r.call \in Calls
    BY CoreAssumption, RequestTyped
  <2>2. QED  BY <2>1 DEF CoreCodes, Calls
<1>5. DOMAIN w = DOMAIN m
  BY <1>3
<1>6. HasResult(r) /\ Core(r).code = 0 => w[OutOffset] = r
  <2>1. /\ OutOffset \in DOMAIN m /\ OutOffset # FaultOffset + 1
        /\ Declares(r) => at # OutOffset /\ at + 1 # OutOffset
    BY ReportCells, Offsets DEF Roomy
  <2> HIDE DEF w, at
  <2>2. QED  BY <1>3, <2>1
<1>7. Reports(r) /\ Core(r).code > 0 => w[FaultOffset + 1] = r
  BY <1>3, <1>4, ReportCells
<1>8. ASSUME Reports(r), Declares(r)
      PROVE  Checked(w, r) = Report(r)
  <2>1. /\ at \in DOMAIN m /\ at + 1 \in DOMAIN m /\ at # at + 1
        /\ at # OutOffset /\ at + 1 # OutOffset
        /\ at # FaultOffset + 1 /\ at + 1 # FaultOffset + 1
    BY <1>8, ReportCells, Offsets DEF Roomy
  <2>2. m[at] = Number(0) /\ m[at + 1] = Number(NoEntry)
    BY <1>8, CheckIsReset
  <2> HIDE DEF w, at
  <2>3. w[at] = Number(IF Core(r).code = 4 THEN Core(r).keyword ELSE 0)
    BY <1>3, <1>8, <2>1, <2>2
  <2>4. w[at + 1] = Number(IF Core(r).code = 0 THEN Core(r).entry ELSE NoEntry)
    BY <1>3, <1>8, <2>1, <2>2
  <2>5. QED  BY <2>3, <2>4 DEF Checked, Report, at
<1>9. QED  BY <1>2, <1>5, <1>6, <1>7, <1>8 DEF Reported

-----------------------------------------------------------------------------
(* A call's own copies, once it has made them all.                         *)
Finished(result, c, r) ==
    /\ result.code = Core(r).code
    /\ HasResult(r) /\ Core(r).code = 0 => result.out = r
    /\ Reports(r) /\ Core(r).code > 0 => result.fault = r
    /\ c = IF Reports(r) /\ Declares(r) THEN Report(r) ELSE Unchecked

(* What the door makes of them is what was promised.                       *)
LEMMA AnswerIsPromised ==
    ASSUME NEW r \in Request, r.ok, Total(r) <= MaxText,
           NEW result, NEW c, Finished(result, c, r)
    PROVE  Answered(r, result, c) = Promise(r)
<1>1. r.call \in Calls /\ Core(r).code \in CoreCodes(r)
      /\ (Declares(r) /\ Core(r).code = 4 => Core(r).keyword \in Nat \ {0})
      /\ Core(r).entry \in {NoEntry} \cup (0 .. Len(r.enum) - 1)
  BY CoreAssumption, RequestTyped
<1>2. ~(~r.ok \/ Total(r) > MaxText)
  <2>1. Total(r) \in Nat
    BY PoolAssumption, CellAssumption
  <2>2. QED  BY <2>1, MaxTextIsInt
<1>3. CASE r.call \in {"callConstraintsCheck", "packedVersion"}
  BY <1>2, <1>3 DEF Answered, Promise, Finished, Reports
<1>4. CASE r.call = "callDeclaredDecimal"
  <2>1. Core(r).code \in {0, 8} /\ ~Declares(r) /\ ~Reports(r) /\ HasResult(r)
    BY <1>1, <1>4 DEF CoreCodes, Declares, Reports, HasResult
  <2>2. QED  BY <1>2, <1>4, <2>1 DEF Answered, Promise, Finished
<1>5. CASE Reports(r)
  <2>1. r.call \notin {"callConstraintsCheck", "packedVersion", "callDeclaredDecimal"}
    BY <1>5 DEF Reports
  <2>2. Core(r).code \in 0 .. 4 /\ (Core(r).code = 4 => Declares(r)) /\ HasResult(r)
    BY <1>1, <1>5 DEF Reports, CoreCodes, Declares, HasResult
  <2>3. CASE Core(r).code = 0
    <3>1. c.entry = Number(IF Declares(r) THEN Core(r).entry ELSE NoEntry)
      BY <1>5, <2>3 DEF Finished, Report, Unchecked
    <3>2. c.entry \in {Number(e) : e \in {NoEntry} \cup (0 .. Len(r.enum) - 1)}
      BY <1>1, <3>1
    <3>3. Answered(r, result, c) = Value(r, c.entry)
      BY <1>5, <2>1, <2>2, <2>3, <3>2 DEF Answered, Finished
    <3>4. Promise(r) = Value(r, Number(IF Declares(r) THEN Core(r).entry ELSE NoEntry))
      BY <1>2, <1>5, <2>1, <2>3 DEF Promise
    <3>5. QED  BY <3>1, <3>3, <3>4
  <2>4. CASE Core(r).code \in 1 .. 3
    <3>1. Answered(r, result, c) = FaultOf(r, Core(r).code)
      BY <1>5, <2>1, <2>4 DEF Answered, Finished
    <3>2. Promise(r) = FaultOf(r, Core(r).code)
      BY <1>2, <1>5, <2>1, <2>4 DEF Promise
    <3>3. QED  BY <3>1, <3>2
  <2>5. CASE Core(r).code = 4
    <3>1. c.keyword = Number(Core(r).keyword) /\ c.keyword # Number(0)
      BY <1>1, <1>5, <2>2, <2>5 DEF Finished, Report, Number
    <3>2. Answered(r, result, c) = ViolationOf(r, c.keyword)
      BY <1>5, <2>1, <2>2, <2>5, <3>1 DEF Answered, Finished
    <3>3. Promise(r) = ViolationOf(r, Number(Core(r).keyword))
      BY <1>2, <1>5, <2>1, <2>5 DEF Promise
    <3>4. QED  BY <3>1, <3>2, <3>3
  <2>6. QED  BY <2>2, <2>3, <2>4, <2>5
<1>6. QED  BY <1>1, <1>3, <1>4, <1>5 DEF Calls, Reports

-----------------------------------------------------------------------------
(* A call that is loading: what it has left to load and then its end, and  *)
(* what it wants loaded and has not left is in place.                      *)
Loaded(m, r, t) ==
    \E R \in Seq(Loads) :
        /\ t = R \o Final(r)
        /\ \A step \in Loads : /\ Among(step, R) => Wanted(step, r)
                               /\ Wanted(step, r) => Among(step, R) \/ Placed(step, m, r)

(* How a sequence of loads begins.                                         *)
LEMMA LoadsBegin ==
    ASSUME NEW R \in Seq(Loads), R # <<>>, NEW S, NEW F \in Seq(S)
    PROVE  /\ R \o F # <<>> /\ Head(R \o F) = Head(R) /\ Tail(R \o F) = Tail(R) \o F
           /\ Head(R) \in Loads /\ Tail(R) \in Seq(Loads)
           /\ \A step : Among(step, R) <=> step = Head(R) \/ Among(step, Tail(R))
<1>1. /\ Head(R) \in Loads /\ Tail(R) \in Seq(Loads) /\ Head(R) = R[1]
      /\ Len(R) \in Nat \ {0} /\ Len(Tail(R)) = Len(R) - 1
      /\ \A i \in 1 .. Len(R) - 1 : Tail(R)[i] = R[i + 1]
  OBVIOUS
<1>2. R \o F # <<>> /\ Head(R \o F) = Head(R) /\ Tail(R \o F) = Tail(R) \o F
  OBVIOUS
<1>3. ASSUME NEW step, Among(step, R) PROVE step = Head(R) \/ Among(step, Tail(R))
  <2>1. PICK i \in 1 .. Len(R) : R[i] = step
    BY <1>3 DEF Among
  <2>2. CASE i = 1
    BY <1>1, <2>1, <2>2
  <2>3. CASE i # 1
    <3>1. i - 1 \in 1 .. Len(R) - 1 /\ (i - 1) + 1 = i
      BY <1>1, <2>3
    <3>2. Tail(R)[i - 1] = step
      BY <1>1, <2>1, <3>1
    <3>3. QED  BY <1>1, <3>1, <3>2 DEF Among
  <2>4. QED  BY <2>2, <2>3
<1>4. Among(Head(R), R)
  BY <1>1 DEF Among
<1>5. ASSUME NEW step, Among(step, Tail(R)) PROVE Among(step, R)
  <2>1. PICK i \in 1 .. Len(Tail(R)) : Tail(R)[i] = step
    BY <1>5 DEF Among
  <2>2. i + 1 \in 1 .. Len(R) /\ R[i + 1] = step
    BY <1>1, <2>1
  <2>3. QED  BY <2>2 DEF Among
<1>6. QED  BY <1>1, <1>2, <1>3, <1>4, <1>5

(* The core comes first; what follows depends on what is reported.         *)
LEMMA FinalTyped ==
    ASSUME NEW r \in Request
    PROVE  /\ Final(r) \in Seq({"core", "result", "check"}) /\ Final(r) # <<>>
           /\ Head(Final(r)) = "core"
           /\ Tail(Final(r)) = IF ~HasResult(r) THEN <<>>
                               ELSE IF Declares(r) THEN <<"result", "check">> ELSE <<"result">>
<1>1. CASE Reports(r) /\ Declares(r)
  <2>1. Final(r) = <<"core", "result", "check">> /\ HasResult(r)
    BY <1>1 DEF Final, HasResult, Declares, Reports
  <2>2. QED  BY <1>1, <2>1
<1>2. CASE (Reports(r) /\ ~Declares(r)) \/ r.call = "callDeclaredDecimal"
  <2>1. Final(r) = <<"core", "result">> /\ ~Declares(r) /\ HasResult(r)
    BY <1>2 DEF Final, HasResult, Declares, Reports
  <2>2. QED  BY <2>1
<1>3. CASE r.call \in {"callConstraintsCheck", "packedVersion"}
  <2>1. Final(r) = <<"core">> /\ ~HasResult(r)
    BY <1>3 DEF Final, HasResult, Declares, Reports
  <2>2. QED  BY <2>1
<1>4. QED  BY <1>1, <1>2, <1>3, RequestTyped DEF Calls, Reports

(* Its next step is a load it wants, or the core with every load in place. *)
LEMMA LoadedBegins ==
    ASSUME NEW r \in Request, NEW m, NEW t, Loaded(m, r, t)
    PROVE  /\ t # <<>> /\ Head(t) \in Loads \cup {"core"}
           /\ Head(t) = "core" => t = Final(r) /\ AllPlaced(m, r)
           /\ Head(t) \in Loads => Wanted(Head(t), r)
<1>1. PICK R \in Seq(Loads) :
        /\ t = R \o Final(r)
        /\ \A step \in Loads : /\ Among(step, R) => Wanted(step, r)
                               /\ Wanted(step, r) => Among(step, R) \/ Placed(step, m, r)
  BY DEF Loaded
<1>2. "core" \notin Loads
  BY DEF Loads
<1>3. CASE R = <<>>
  <2>1. t = Final(r)
    BY <1>1, <1>3, FinalTyped
  <2>2. \A step : ~Among(step, R)
    BY <1>3 DEF Among
  <2>3. AllPlaced(m, r)
    BY <1>1, <2>2 DEF AllPlaced
  <2>4. QED  BY <1>2, <2>1, <2>3, FinalTyped
<1>4. CASE R # <<>>
  <2>1. /\ t # <<>> /\ Head(t) = Head(R) /\ Head(R) \in Loads
        /\ Among(Head(R), R)
    BY <1>1, <1>4, FinalTyped, LoadsBegin
  <2>2. QED  BY <1>1, <1>2, <2>1
<1>5. QED  BY <1>3, <1>4

(* A load takes a step off what is left and puts it in place.              *)
LEMMA LoadedAfter ==
    ASSUME NEW r \in Request, NEW m, NEW t, Loaded(m, r, t), Roomy(m, r),
           Head(t) \in Loads
    PROVE  /\ DOMAIN Stored(m, Load(Head(t), r)) = DOMAIN m
           /\ Loaded(Stored(m, Load(Head(t), r)), r, Tail(t))
<1>1. PICK R \in Seq(Loads) :
        /\ t = R \o Final(r)
        /\ \A step \in Loads : /\ Among(step, R) => Wanted(step, r)
                               /\ Wanted(step, r) => Among(step, R) \/ Placed(step, m, r)
  BY DEF Loaded
<1>2. R # <<>>
  <2>1. "core" \notin Loads
    BY DEF Loads
  <2>2. QED  BY <1>1, <2>1, FinalTyped
<1> DEFINE next == Head(t)
           w == Stored(m, Load(next, r))
<1>3. /\ next \in Loads /\ next = Head(R) /\ Tail(t) = Tail(R) \o Final(r)
      /\ Tail(R) \in Seq(Loads)
      /\ \A s : Among(s, R) <=> s = next \/ Among(s, Tail(R))
  BY <1>1, <1>2, FinalTyped, LoadsBegin
<1>4. Wanted(next, r)
  BY <1>1, <1>3
<1> HIDE DEF next
<1>5. /\ DOMAIN w = DOMAIN m
      /\ Placed(next, w, r)
      /\ \A other \in Loads : Wanted(other, r) /\ Placed(other, m, r) => Placed(other, w, r)
  BY <1>3, <1>4, LoadPlaces
<1> HIDE DEF w
<1>6. \A s \in Loads : /\ Among(s, Tail(R)) => Wanted(s, r)
                       /\ Wanted(s, r) => Among(s, Tail(R)) \/ Placed(s, w, r)
  BY <1>1, <1>3, <1>5
<1>7. Loaded(w, r, Tail(t))
  BY <1>3, <1>6 DEF Loaded
<1>8. QED  BY <1>5, <1>7 DEF w, next

-----------------------------------------------------------------------------
(***************************************************************************)
(* The stages of a call, in its order.  A goroutine is at one of them in   *)
(* every reachable state.                                                  *)
(***************************************************************************)
Outside(g) == pc[g] = "idle" /\ todo[g] = <<>> /\ Idle(g)

Asking(g) == req[g] \in Request /\ answer[g] = Nothing

Unread(g) == res[g] = NoResult /\ chk[g] = Unchecked

Entered(g) == Asking(g) /\ pc[g] = "idle" /\ todo[g] = <<"acquire">> /\ Unread(g)

(* acquireScratch let it through.                                          *)
Admitted(g) == Asking(g) /\ req[g].ok /\ Total(req[g]) <= MaxText

Crossing(g) == Admitted(g) /\ total[g] = Total(req[g])

Acquires(g) ==
    /\ Crossing(g) /\ Unread(g)
    /\ pc[g] \notin {"idle", "inside", "release"} /\ todo[g] = Program(req[g])

Loading(g) ==
    /\ Crossing(g) /\ Unread(g)
    /\ pc[g] = "inside" /\ Loaded(mem[in[g]], req[g], todo[g])

ToRead(g) ==
    /\ Crossing(g) /\ pc[g] = "inside" /\ HasResult(req[g])
    /\ todo[g] = IF Declares(req[g]) THEN <<"result", "check">> ELSE <<"result">>
    /\ res[g].code = Core(req[g]).code /\ chk[g] = Unchecked
    /\ Reported(mem[in[g]], req[g])

ToCheck(g) ==
    /\ Crossing(g) /\ pc[g] = "inside" /\ todo[g] = <<"check">>
    /\ Reports(req[g]) /\ Declares(req[g])
    /\ Finished(res[g], Report(req[g]), req[g])
    /\ Reported(mem[in[g]], req[g])

Over(g) ==
    /\ Crossing(g) /\ pc[g] \in {"inside", "release"} /\ todo[g] = <<>>
    /\ Finished(res[g], chk[g], req[g])

ToJudge(g) ==
    /\ Admitted(g) /\ pc[g] = "idle" /\ todo[g] = <<"verdict">>
    /\ Finished(res[g], chk[g], req[g])

Sound(g) ==
    \/ Outside(g) \/ Entered(g) \/ Acquires(g) \/ Loading(g) \/ ToRead(g) \/ ToCheck(g)
    \/ Over(g) \/ ToJudge(g)

(* A scratch is as long as its instance's pages.                           *)
MemFits ==
    /\ DOMAIN mem = Instance
    /\ \A i \in Instance : DOMAIN mem[i] = 0 .. pages[i] * PageSize - 1

CallsAreFunctions ==
    /\ DOMAIN req = Goroutine /\ DOMAIN todo = Goroutine /\ DOMAIN res = Goroutine
    /\ DOMAIN chk = Goroutine /\ DOMAIN answer = Goroutine

CallInv ==
    /\ IInv
    /\ MemFits
    /\ CallsAreFunctions
    /\ \A g \in Goroutine : Sound(g)

(* Every goroutine starts outside any call.                                *)
LEMMA CallInit == Init => CallInv
<1> SUFFICES ASSUME Init PROVE CallInv
  OBVIOUS
<1>1. IInv
  BY InitInv DEF Init
<1>2. MemFits
  BY LayoutConstants DEF Init, PoolInit, MemFits
<1>3. CallsAreFunctions
  BY DEF Init, CallsAreFunctions
<1>4. \A g \in Goroutine : Outside(g)
  BY DEF Init, PoolInit, Outside, Idle
<1>5. QED  BY <1>1, <1>2, <1>3, <1>4 DEF CallInv, Sound

(* A goroutine nothing happened to is where it was.                        *)
LEMMA Undisturbed ==
    ASSUME NEW h \in Goroutine, Sound(h),
           pc'[h] = pc[h], total'[h] = total[h], req'[h] = req[h], todo'[h] = todo[h],
           res'[h] = res[h], chk'[h] = chk[h], answer'[h] = answer[h],
           pc[h] = "inside" => mem'[in'[h]] = mem[in[h]]
    PROVE  Sound(h)'
<1>1. CASE Outside(h)
  <2>1. Outside(h)'
    BY <1>1 DEF Outside, Idle
  <2>2. QED  BY <2>1 DEF Sound
<1>2. CASE Entered(h)
  <2>1. Entered(h)'
    BY <1>2 DEF Entered, Asking, Unread
  <2>2. QED  BY <2>1 DEF Sound
<1>3. CASE Acquires(h)
  <2>1. Acquires(h)'
    BY <1>3 DEF Acquires, Crossing, Admitted, Asking, Unread
  <2>2. QED  BY <2>1 DEF Sound
<1>4. CASE Loading(h)
  <2>1. Loading(h)'
    BY <1>4 DEF Loading, Crossing, Admitted, Asking, Unread
  <2>2. QED  BY <2>1 DEF Sound
<1>5. CASE ToRead(h)
  <2>1. ToRead(h)'
    BY <1>5 DEF ToRead, Crossing, Admitted, Asking
  <2>2. QED  BY <2>1 DEF Sound
<1>6. CASE ToCheck(h)
  <2>1. ToCheck(h)'
    BY <1>6 DEF ToCheck, Crossing, Admitted, Asking
  <2>2. QED  BY <2>1 DEF Sound
<1>7. CASE Over(h)
  <2>1. Over(h)'
    BY <1>7 DEF Over, Crossing, Admitted, Asking
  <2>2. QED  BY <2>1 DEF Sound
<1>8. CASE ToJudge(h)
  <2>1. ToJudge(h)'
    BY <1>8 DEF ToJudge, Admitted, Asking
  <2>2. QED  BY <2>1 DEF Sound
<1>9. QED
  BY <1>1, <1>2, <1>3, <1>4, <1>5, <1>6, <1>7, <1>8 DEF Sound

(* A held instance keeps its pages while others acquire, release or are    *)
(* collected.                                                              *)
LEMMA HeldStays ==
    ASSUME IInv, NEW h \in Goroutine, Holding(h),
           GC \/ \E g \in Goroutine : Acquiring(g) \/ (Release(g) /\ g # h)
    PROVE  in[h] \in Instance /\ pages'[in[h]] = pages[in[h]]
<1>1. in[h] \in Instance /\ pages[in[h]] > 0 /\ pages \in [Instance -> Nat]
  BY DEF IInv, PoolTypeOK, LeasesMean
<1>2. CASE GC
  <2>1. in[h] \notin victim
    BY DEF IInv, PoolIsClean, Pooled
  <2>2. QED  BY <1>1, <1>2, <2>1 DEF GC
<1>3. ASSUME NEW g \in Goroutine, Acquiring(g)
      PROVE  pages'[in[h]] = pages[in[h]]
  <2>1. ASSUME NEW i \in Fresh, NEW n, pages' = [pages EXCEPT ![i] = n]
        PROVE  pages'[in[h]] = pages[in[h]]
    BY <1>1, <2>1 DEF Fresh
  <2>2. QED
    BY <1>3, <2>1 DEF Acquiring, OnceBegin, CreatePrimary, OnceEnd, OnceDone, TryLock,
                      TryLockFails, PoolGet, PoolNew, NewOneOff
<1>4. ASSUME NEW g \in Goroutine, Release(g), g # h
      PROVE  pages'[in[h]] = pages[in[h]]
  <2>1. Holding(g)
    BY <1>4 DEF Release, Holding
  <2>2. in[g] # in[h]
    BY <1>4, <2>1 DEF IInv, ExclusiveUse
  <2>3. pages' = pages \/ pages' = [pages EXCEPT ![in[g]] = 0]
    BY <1>4 DEF Release
  <2>4. QED  BY <1>1, <2>2, <2>3
<1>5. QED  BY <1>1, <1>2, <1>3, <1>4

(* New memory is as long as its instance's pages.                          *)
LEMMA MemFollows ==
    ASSUME MemFits, MemFollowsPages
    PROVE  /\ MemFits'
           /\ \A i \in Instance : pages'[i] = pages[i] => mem'[i] = mem[i]
  BY DEF MemFits, MemFollowsPages

-----------------------------------------------------------------------------
(* A program is loads to come, whatever the scratch holds.                 *)
LEMMA ProgramLoads ==
    ASSUME NEW r \in Request, NEW m
    PROVE  Loaded(m, r, Program(r))
<1>1. PICK R \in Seq(Loads) :
        /\ Program(r) = R \o Final(r)
        /\ \A step \in Loads : Among(step, R) <=> Wanted(step, r)
  BY ProgramIs
<1>2. QED  BY <1>1 DEF Loaded

(* Where a goroutine is, and what its call has left, tell the stage.       *)
LEMMA StageTold ==
    ASSUME NEW g \in Goroutine, Sound(g)
    PROVE  /\ todo[g] = <<"acquire">> => Entered(g)
           /\ todo[g] = <<"verdict">> => ToJudge(g)
           /\ \A step \in Loads \cup {"core"} : At(g, step) => Loading(g)
           /\ At(g, "result") => ToRead(g)
           /\ At(g, "check") => ToCheck(g)
           /\ pc[g] = "inside" /\ todo[g] = <<>> => Over(g)
           /\ pc[g] = "release" => Over(g)
           /\ pc[g] \notin {"idle", "inside", "release"} => Acquires(g)
<1>1. \A r \in Request : \A m, t :
          Loaded(m, r, t) => t # <<>> /\ Head(t) \in Loads \cup {"core"}
  BY LoadedBegins
<1>2. "acquire" \notin Loads /\ "verdict" \notin Loads /\ "result" \notin Loads
      /\ "check" \notin Loads
  BY DEF Loads
<1>3. CASE Outside(g)
  BY <1>3 DEF Outside, At
<1>4. CASE Entered(g)
  BY <1>4 DEF Entered, At
<1>5. CASE Acquires(g)
  <2>1. todo[g] # <<>> /\ Head(todo[g]) \in Loads \cup {"core"}
    BY <1>1, <1>5, ProgramLoads DEF Acquires, Crossing, Admitted, Asking
  <2>2. todo[g] # <<"acquire">> /\ todo[g] # <<"verdict">>
    BY <1>2, <2>1
  <2>3. QED  BY <1>5, <2>2 DEF Acquires, At
<1>6. CASE Loading(g)
  <2>1. todo[g] # <<>> /\ Head(todo[g]) \in Loads \cup {"core"}
    BY <1>1, <1>6 DEF Loading, Crossing, Admitted, Asking
  <2>2. todo[g] # <<"acquire">> /\ todo[g] # <<"verdict">>
    BY <1>2, <2>1
  <2>3. QED  BY <1>2, <1>6, <2>1, <2>2 DEF Loading, At
<1>7. CASE ToRead(g)
  <2>1. /\ pc[g] = "inside" /\ todo[g] # <<>> /\ Head(todo[g]) = "result"
        /\ todo[g] # <<"acquire">> /\ todo[g] # <<"verdict">>
    BY <1>7 DEF ToRead
  <2>2. QED  BY <1>2, <1>7, <2>1 DEF At
<1>8. CASE ToCheck(g)
  BY <1>2, <1>8 DEF ToCheck, At
<1>9. CASE Over(g)
  BY <1>9 DEF Over, At
<1>10. CASE ToJudge(g)
  BY <1>10 DEF ToJudge, At
<1>11. QED
  BY <1>3, <1>4, <1>5, <1>6, <1>7, <1>8, <1>9, <1>10 DEF Sound

(* A call inside its instance has the room it asked for.                   *)
LEMMA InsideIsRoomy ==
    ASSUME CallInv, NEW g \in Goroutine, Crossing(g), Holding(g)
    PROVE  in[g] \in Instance /\ Roomy(mem[in[g]], req[g])
<1>1. in[g] \in Instance /\ pages[in[g]] \in Nat
  BY DEF CallInv, IInv, PoolTypeOK, LeasesMean
<1>2. total[g] + TextOffset <= pages[in[g]] * PageSize
  BY ScratchFromInv DEF CallInv, ScratchHoldsCall
<1>3. DOMAIN mem[in[g]] = 0 .. pages[in[g]] * PageSize - 1
  BY <1>1 DEF CallInv, MemFits
<1>4. total[g] = Total(req[g]) /\ total[g] \in Nat
  BY DEF Crossing, CallInv, IInv, PoolTypeOK
<1>5. pages[in[g]] * PageSize \in Nat
  BY <1>1, LayoutConstants
<1>6. QED  BY <1>1, <1>2, <1>3, <1>4, <1>5, LayoutConstants DEF Roomy

(* Every step of a call is a step of the pool, or none.                    *)
LEMMA StepIsPoolStep == CallInv /\ [Next]_vars => [PoolNext]_poolVars
<1> SUFFICES ASSUME CallInv, [Next]_vars PROVE [PoolNext]_poolVars
  OBVIOUS
<1>1. ASSUME NEW g \in Goroutine, Acquire(g) PROVE PoolNext
  <2>1. Entered(g)
    BY <1>1, StageTold DEF Acquire, CallInv
  <2>2. Total(req[g]) \in Totals
    BY <2>1, CellAssumption DEF Entered, Asking
  <2>3. AcquireScratch(g, Total(req[g]))
    BY <1>1 DEF Acquire
  <2>4. QED  BY <2>2, <2>3 DEF PoolNext
<1>2. ASSUME NEW g \in Goroutine, AcquireStep(g) \/ ReturnStep(g) \/ ReleaseStep(g) \/ TrapStep(g)
      PROVE  PoolNext
  BY <1>2 DEF AcquireStep, ReturnStep, ReleaseStep, TrapStep, PoolNext
<1>3. CASE Collect
  BY <1>3 DEF Collect, PoolNext
<1>4. ASSUME NEW g \in Goroutine,
             \/ \E r \in Request : Call(g, r)
             \/ Refuse(g) \/ LoadStep(g) \/ CoreStep(g) \/ ResultStep(g) \/ CheckStep(g)
             \/ Verdict(g)
      PROVE  UNCHANGED poolVars
  BY <1>4 DEF Call, Refuse, LoadStep, CoreStep, ResultStep, CheckStep, Verdict
<1>5. CASE UNCHANGED vars
  BY <1>5 DEF vars
<1>6. QED
  BY <1>1, <1>2, <1>3, <1>4, <1>5 DEF Next, CallStep

-----------------------------------------------------------------------------
(* What is left to show of a goroutine's step: its own call, the lengths   *)
(* of the scratches, and that it left the other calls alone.               *)
LEMMA StepKeepsInv ==
    ASSUME CallInv, [Next]_vars, NEW g \in Goroutine, MemFits', CallsAreFunctions', Sound(g)',
           \A h \in Goroutine : h # g =>
              /\ pc'[h] = pc[h] /\ total'[h] = total[h] /\ req'[h] = req[h]
              /\ todo'[h] = todo[h] /\ res'[h] = res[h] /\ chk'[h] = chk[h]
              /\ answer'[h] = answer[h]
              /\ pc[h] = "inside" => mem'[in'[h]] = mem[in[h]]
    PROVE  CallInv'
<1>1. IInv'
  BY StepIsPoolStep, NextInv DEF CallInv
<1>2. ASSUME NEW h \in Goroutine, h # g PROVE Sound(h)'
  BY <1>2, Undisturbed DEF CallInv
<1>3. QED  BY <1>1, <1>2 DEF CallInv

(* A goroutine at a door.                                                  *)
LEMMA CallKeeps ==
    ASSUME CallInv, NEW g \in Goroutine, NEW r \in Request, Call(g, r)
    PROVE  CallInv'
<1>1. [Next]_vars
  BY DEF Next
<1>2. MemFits' /\ CallsAreFunctions'
  BY DEF Call, CallInv, MemFits, CallsAreFunctions, poolVars
<1>3. Entered(g)'
  <2>1. pc[g] = "idle"
    <3>1. ~Asking(g)
      BY RequestAssumption DEF Call, Idle, Asking
    <3>2. Sound(g)
      BY DEF CallInv
    <3>3. QED
      BY <3>1, <3>2 DEF Sound, Outside, Entered, Acquires, Loading, ToRead, ToCheck, Over,
                        ToJudge, Crossing, Admitted
  <2>2. QED  BY <2>1 DEF Call, Entered, Asking, Unread, CallInv, CallsAreFunctions, poolVars
<1>4. \A h \in Goroutine : h # g =>
         /\ pc'[h] = pc[h] /\ total'[h] = total[h] /\ req'[h] = req[h]
         /\ todo'[h] = todo[h] /\ res'[h] = res[h] /\ chk'[h] = chk[h]
         /\ answer'[h] = answer[h]
         /\ pc[h] = "inside" => mem'[in'[h]] = mem[in[h]]
  BY DEF Call, poolVars, CallInv, CallsAreFunctions
<1>5. QED  BY <1>1, <1>2, <1>3, <1>4, StepKeepsInv DEF Sound

(* A call refused.                                                         *)
LEMMA RefuseKeeps ==
    ASSUME CallInv, NEW g \in Goroutine, Refuse(g)
    PROVE  CallInv'
<1>1. [Next]_vars
  BY DEF Next, CallStep
<1>2. MemFits' /\ CallsAreFunctions'
  BY DEF Refuse, CallInv, MemFits, CallsAreFunctions, poolVars
<1>3. Outside(g)'
  <2>1. Entered(g)
    BY StageTold DEF Refuse, CallInv
  <2>2. CallerBug # Nothing
    BY RequestAssumption
  <2>3. QED
    BY <2>1, <2>2 DEF Refuse, Entered, Outside, Idle, CallInv, CallsAreFunctions, poolVars
<1>4. \A h \in Goroutine : h # g =>
         /\ pc'[h] = pc[h] /\ total'[h] = total[h] /\ req'[h] = req[h]
         /\ todo'[h] = todo[h] /\ res'[h] = res[h] /\ chk'[h] = chk[h]
         /\ answer'[h] = answer[h]
         /\ pc[h] = "inside" => mem'[in'[h]] = mem[in[h]]
  BY DEF Refuse, poolVars, CallInv, CallsAreFunctions
<1>5. QED  BY <1>1, <1>2, <1>3, <1>4, StepKeepsInv DEF Sound

(* The sizes acquireScratch lets through are those up to MaxText.          *)
LEMMA DecisionIs ==
    ASSUME NEW n \in Nat
    PROVE  Decision(n) = "panic" <=> n > MaxText
<1>1. BaseText <= MaxText /\ MaxText \in Int /\ BaseText \in Nat
  <2>1. BaseText <= AddressableText
    <3>1. BasePages * PageSize + ModulePages * PageSize <= HostMaxPages * PageSize
      BY LayoutAssumption, Z3
    <3>2. /\ BaseText = BasePages * PageSize - TextOffset
          /\ AddressableText = HostMaxPages * PageSize - ModulePages * PageSize - TextOffset
      BY DEF BaseText, AddressableText
    <3>3. BasePages * PageSize \in Nat /\ ModulePages * PageSize \in Nat
          /\ HostMaxPages * PageSize \in Nat
      BY LayoutAssumption
    <3>4. QED  BY <3>1, <3>2, <3>3, HeaderFits
  <2>2. QED  BY <2>1, CellAssumption, MaxTextIsInt, HeaderFits DEF MaxText
<1>2. n <= MaxText => Addressable(n)
  BY MaxTextIsEnough DEF MaxTextSuffices
<1>3. QED  BY <1>1, <1>2 DEF Decision

(* acquireScratch has decided.                                             *)
LEMMA AcquireKeeps ==
    ASSUME CallInv, NEW g \in Goroutine, Acquire(g)
    PROVE  CallInv'
<1>1. [Next]_vars
  BY DEF Next, CallStep
<1>2. MemFits' /\ CallsAreFunctions'
  BY DEF Acquire, AcquireScratch, CallInv, MemFits, CallsAreFunctions
<1>3. Acquires(g)'
  <2>1. Entered(g)
    BY StageTold DEF Acquire, CallInv
  <2>2. Total(req[g]) \in Nat
    BY <2>1, CellAssumption, PoolAssumption DEF Entered, Asking
  <2>3. Decision(Total(req[g])) # "panic"
    BY DEF Acquire, AcquireScratch
  <2>4. Total(req[g]) <= MaxText
    BY <2>2, <2>3, DecisionIs, MaxTextIsInt
  <2>5. pc'[g] \in {"acquire", "oneOff"} /\ total'[g] = Total(req[g])
    BY DEF Acquire, AcquireScratch, Goto, CallInv, IInv, PoolTypeOK
  <2>6. QED
    BY <2>1, <2>4, <2>5 DEF Acquire, Entered, Acquires, Crossing, Admitted, Asking, Unread,
                            CallInv, CallsAreFunctions
<1>4. \A h \in Goroutine : h # g =>
         /\ pc'[h] = pc[h] /\ total'[h] = total[h] /\ req'[h] = req[h]
         /\ todo'[h] = todo[h] /\ res'[h] = res[h] /\ chk'[h] = chk[h]
         /\ answer'[h] = answer[h]
         /\ pc[h] = "inside" => mem'[in'[h]] = mem[in[h]]
  BY DEF Acquire, AcquireScratch, Goto, CallInv, CallsAreFunctions, IInv, PoolTypeOK
<1>5. QED  BY <1>1, <1>2, <1>3, <1>4, StepKeepsInv DEF Sound

(* A step of acquire.                                                      *)
LEMMA AcquireStepKeeps ==
    ASSUME CallInv, NEW g \in Goroutine, AcquireStep(g)
    PROVE  CallInv'
<1>1. [Next]_vars
  BY DEF Next, CallStep
<1>2. MemFits' /\ CallsAreFunctions'
        /\ \A i \in Instance : pages'[i] = pages[i] => mem'[i] = mem[i]
  BY MemFollows DEF AcquireStep, CallInv, CallsAreFunctions, callVars
<1>3. /\ pc[g] \notin {"idle", "inside", "release"} /\ pc'[g] \notin {"idle", "release"}
      /\ total' = total
      /\ \A h \in Goroutine : h # g => pc'[h] = pc[h] /\ in'[h] = in[h]
  BY DEF AcquireStep, Acquiring, OnceBegin, CreatePrimary, OnceEnd, OnceDone, TryLock,
         TryLockFails, PoolGet, PoolNew, NewOneOff, Goto, Holds, CallInv, IInv, PoolTypeOK
<1>4. Sound(g)'
  <2>1. Acquires(g)
    BY <1>3, StageTold DEF CallInv
  <2>2. CASE pc'[g] # "inside"
    <3>1. Acquires(g)'
      BY <1>3, <2>1, <2>2 DEF AcquireStep, callVars, Acquires, Crossing, Admitted, Asking, Unread
    <3>2. QED  BY <3>1 DEF Sound
  <2>3. CASE pc'[g] = "inside"
    <3>1. Loading(g)'
      BY <1>3, <2>1, <2>3, ProgramLoads
         DEF AcquireStep, callVars, Acquires, Loading, Crossing, Admitted, Asking, Unread
    <3>2. QED  BY <3>1 DEF Sound
  <2>4. QED  BY <2>2, <2>3
<1>5. ASSUME NEW h \in Goroutine, h # g
      PROVE  /\ pc'[h] = pc[h] /\ total'[h] = total[h] /\ req'[h] = req[h]
             /\ todo'[h] = todo[h] /\ res'[h] = res[h] /\ chk'[h] = chk[h]
             /\ answer'[h] = answer[h]
             /\ pc[h] = "inside" => mem'[in'[h]] = mem[in[h]]
  <2>1. pc[h] = "inside" => in[h] \in Instance /\ pages'[in[h]] = pages[in[h]]
    BY HeldStays DEF AcquireStep, CallInv, Holding
  <2>2. QED  BY <1>2, <1>3, <1>5, <2>1 DEF AcquireStep, callVars
<1>6. QED  BY <1>1, <1>2, <1>4, <1>5, StepKeepsInv

(* A load, into the call's own instance.                                   *)
LEMMA LoadKeeps ==
    ASSUME CallInv, NEW g \in Goroutine, LoadStep(g)
    PROVE  CallInv'
<1>1. [Next]_vars
  BY DEF Next, CallStep
<1>2. PICK step \in Loads :
        /\ At(g, step)
        /\ mem' = [mem EXCEPT ![in[g]] = Stored(@, Load(step, req[g]))]
  BY DEF LoadStep
<1>3. Loading(g)
  BY <1>2, StageTold DEF CallInv
<1> DEFINE m == mem[in[g]]
           w == Stored(m, Load(step, req[g]))
<1>4. /\ in[g] \in Instance /\ Roomy(m, req[g]) /\ req[g] \in Request
      /\ Loaded(m, req[g], todo[g]) /\ Head(todo[g]) = step
  BY <1>2, <1>3, InsideIsRoomy DEF Loading, Holding, At, Crossing, Admitted, Asking
<1>5. DOMAIN w = DOMAIN m /\ Loaded(w, req[g], Tail(todo[g]))
  BY <1>4, LoadedAfter
<1>6. DOMAIN mem = Instance
  BY DEF CallInv, MemFits
<1>7. mem'[in[g]] = w /\ \A i \in Instance : i # in[g] => mem'[i] = mem[i]
  BY <1>2, <1>4, <1>6
<1> HIDE DEF w
<1>8. MemFits'
  BY <1>2, <1>4, <1>5, <1>7 DEF CallInv, MemFits, LoadStep, poolVars
<1>9. CallsAreFunctions'
  BY DEF LoadStep, Done, CallInv, CallsAreFunctions
<1>10. Loading(g)'
  BY <1>3, <1>5, <1>7 DEF LoadStep, Done, Loading, Crossing, Admitted, Asking, Unread, CallInv,
                          CallsAreFunctions, poolVars
<1>11. \A h \in Goroutine : h # g =>
         /\ pc'[h] = pc[h] /\ total'[h] = total[h] /\ req'[h] = req[h]
         /\ todo'[h] = todo[h] /\ res'[h] = res[h] /\ chk'[h] = chk[h]
         /\ answer'[h] = answer[h]
         /\ pc[h] = "inside" => mem'[in'[h]] = mem[in[h]]
  <2>1. ASSUME NEW h \in Goroutine, h # g, pc[h] = "inside"
        PROVE  in[h] \in Instance /\ in[h] # in[g]
    BY <1>2, <2>1 DEF At, CallInv, IInv, ExclusiveUse, LeasesMean, Holding
  <2>2. QED  BY <1>7, <2>1 DEF LoadStep, Done, CallInv, CallsAreFunctions, poolVars
<1>12. QED  BY <1>1, <1>8, <1>9, <1>10, <1>11, StepKeepsInv DEF Sound

(* The core, on what was loaded.                                           *)
LEMMA CoreKeeps ==
    ASSUME CallInv, NEW g \in Goroutine, CoreStep(g)
    PROVE  CallInv'
<1>1. [Next]_vars
  BY DEF Next, CallStep
<1>2. Loading(g)
  BY StageTold DEF CoreStep, CallInv
<1> DEFINE m == mem[in[g]]
           w == Written(m, req[g])
           verdict == Judged(m, req[g]).code
<1>3. /\ in[g] \in Instance /\ Roomy(m, req[g]) /\ req[g] \in Request
      /\ Loaded(m, req[g], todo[g]) /\ Head(todo[g]) = "core"
  BY <1>2, InsideIsRoomy DEF CoreStep, Loading, Holding, At, Crossing, Admitted, Asking
<1>4. todo[g] = Final(req[g]) /\ AllPlaced(m, req[g])
  BY <1>3, LoadedBegins
<1>5. /\ verdict = Core(req[g]).code /\ DOMAIN w = DOMAIN m /\ Reported(w, req[g])
  BY <1>3, <1>4, CoreReports
<1>6. DOMAIN mem = Instance /\ mem' = [mem EXCEPT ![in[g]] = w]
  BY DEF CallInv, MemFits, CoreStep
<1>7. mem'[in[g]] = w /\ \A i \in Instance : i # in[g] => mem'[i] = mem[i]
  BY <1>3, <1>6
<1>8. /\ DOMAIN res' = DOMAIN res /\ res'[g] = [res[g] EXCEPT !.code = verdict]
      /\ \A h \in Goroutine : h # g => res'[h] = res[h]
  BY DEF CoreStep, CallInv, CallsAreFunctions
<1> HIDE DEF w, verdict
<1>9. MemFits'
  BY <1>3, <1>5, <1>6, <1>7 DEF CallInv, MemFits, CoreStep, poolVars
<1>10. CallsAreFunctions'
  BY <1>8 DEF CoreStep, Done, CallInv, CallsAreFunctions
<1>11. res'[g].code = Core(req[g]).code /\ chk[g] = Unchecked
  BY <1>2, <1>5, <1>8 DEF Loading, Unread, NoResult
<1>12. todo'[g] = Tail(Final(req[g]))
  BY <1>4 DEF CoreStep, Done, CallInv, CallsAreFunctions
<1>13. Sound(g)'
  <2>1. CASE HasResult(req[g])
    <3>1. ToRead(g)'
      BY <1>2, <1>3, <1>5, <1>7, <1>11, <1>12, <2>1, FinalTyped
         DEF CoreStep, Loading, ToRead, Crossing, Admitted, Asking, poolVars
    <3>2. QED  BY <3>1 DEF Sound
  <2>2. CASE ~HasResult(req[g])
    <3>1. todo'[g] = <<>>
      BY <1>3, <1>12, <2>2, FinalTyped
    <3>2. Finished(res[g], chk[g], req[g])'
      BY <1>11, <2>2 DEF Finished, HasResult, CoreStep
    <3>3. Over(g)'
      BY <1>2, <3>1, <3>2 DEF CoreStep, Loading, Over, Crossing, Admitted, Asking, poolVars
    <3>4. QED  BY <3>3 DEF Sound
  <2>3. QED  BY <2>1, <2>2
<1>14. \A h \in Goroutine : h # g =>
         /\ pc'[h] = pc[h] /\ total'[h] = total[h] /\ req'[h] = req[h]
         /\ todo'[h] = todo[h] /\ res'[h] = res[h] /\ chk'[h] = chk[h]
         /\ answer'[h] = answer[h]
         /\ pc[h] = "inside" => mem'[in'[h]] = mem[in[h]]
  <2>1. ASSUME NEW h \in Goroutine, h # g, pc[h] = "inside"
        PROVE  in[h] \in Instance /\ in[h] # in[g]
    BY <2>1 DEF CoreStep, At, CallInv, IInv, ExclusiveUse, LeasesMean, Holding
  <2>2. QED  BY <1>7, <1>8, <2>1 DEF CoreStep, Done, CallInv, CallsAreFunctions, poolVars
<1>15. QED  BY <1>1, <1>9, <1>10, <1>13, <1>14, StepKeepsInv

(* The result, copied out.                                                 *)
LEMMA ResultKeeps ==
    ASSUME CallInv, NEW g \in Goroutine, ResultStep(g)
    PROVE  CallInv'
<1>1. [Next]_vars
  BY DEF Next, CallStep
<1>2. ToRead(g)
  BY StageTold DEF ResultStep, CallInv
<1> DEFINE r == req[g]
           result == Result(mem[in[g]], res[g].code)
<1>3. /\ result.code = Core(r).code
      /\ HasResult(r) /\ Core(r).code = 0 => result.out = r
      /\ Reports(r) /\ Core(r).code > 0 => result.fault = r
  BY <1>2 DEF ToRead, Reported, Result
<1>4. /\ DOMAIN res' = DOMAIN res /\ res'[g] = result
      /\ \A h \in Goroutine : h # g => res'[h] = res[h]
  BY DEF ResultStep, CallInv, CallsAreFunctions
<1> HIDE DEF result
<1>5. MemFits' /\ CallsAreFunctions'
  BY <1>4 DEF ResultStep, Done, CallInv, MemFits, CallsAreFunctions, poolVars
<1>6. Sound(g)'
  <2>1. CASE Declares(r)
    <3>1. todo[g] = <<"result", "check">> /\ todo'[g] = Tail(todo[g])
      BY <1>2, <2>1 DEF ToRead, ResultStep, Done, CallInv, CallsAreFunctions
    <3>2. todo'[g] = <<"check">> /\ Reports(r)
      BY <1>2, <2>1, <3>1 DEF ToRead, HasResult, Declares
    <3>3. Finished(res[g], Report(r), r)'
      BY <1>3, <1>4, <2>1, <3>2 DEF Finished, ResultStep
    <3>4. ToCheck(g)'
      BY <1>2, <2>1, <3>2, <3>3
         DEF ResultStep, ToRead, ToCheck, Crossing, Admitted, Asking, poolVars
    <3>5. QED  BY <3>4 DEF Sound
  <2>2. CASE ~Declares(r)
    <3>1. todo[g] = <<"result">> /\ todo'[g] = Tail(todo[g])
      BY <1>2, <2>2 DEF ToRead, ResultStep, Done, CallInv, CallsAreFunctions
    <3>2. todo'[g] = <<>>
      BY <3>1
    <3>3. Finished(res[g], chk[g], r)'
      BY <1>2, <1>3, <1>4, <2>2 DEF ToRead, Finished, ResultStep
    <3>4. Over(g)'
      BY <1>2, <3>2, <3>3 DEF ResultStep, ToRead, Over, Crossing, Admitted, Asking, poolVars
    <3>5. QED  BY <3>4 DEF Sound
  <2>3. QED  BY <2>1, <2>2
<1>7. \A h \in Goroutine : h # g =>
         /\ pc'[h] = pc[h] /\ total'[h] = total[h] /\ req'[h] = req[h]
         /\ todo'[h] = todo[h] /\ res'[h] = res[h] /\ chk'[h] = chk[h]
         /\ answer'[h] = answer[h]
         /\ pc[h] = "inside" => mem'[in'[h]] = mem[in[h]]
  BY <1>4 DEF ResultStep, Done, CallInv, CallsAreFunctions, poolVars
<1>8. QED  BY <1>1, <1>5, <1>6, <1>7, StepKeepsInv

(* The RawCheck, copied out.                                               *)
LEMMA CheckKeeps ==
    ASSUME CallInv, NEW g \in Goroutine, CheckStep(g)
    PROVE  CallInv'
<1>1. [Next]_vars
  BY DEF Next, CallStep
<1>2. ToCheck(g)
  BY StageTold DEF CheckStep, CallInv
<1> DEFINE r == req[g]
<1>3. chk' = [chk EXCEPT ![g] = Checked(mem[in[g]], r)] /\ Checked(mem[in[g]], r) = Report(r)
  BY <1>2 DEF CheckStep, ToCheck, Reported
<1>4. MemFits' /\ CallsAreFunctions'
  BY <1>3 DEF CheckStep, Done, CallInv, MemFits, CallsAreFunctions, poolVars
<1>5. todo'[g] = <<>>
  <2>1. todo[g] = <<"check">> /\ todo'[g] = Tail(todo[g])
    BY <1>2 DEF ToCheck, CheckStep, Done, CallInv, CallsAreFunctions
  <2>2. QED  BY <2>1
<1>6. chk'[g] = Report(r)
  BY <1>3 DEF CallInv, CallsAreFunctions
<1>7. Finished(res[g], chk[g], r)'
  BY <1>2, <1>6 DEF CheckStep, ToCheck, Finished
<1>8. Over(g)'
  BY <1>2, <1>5, <1>7 DEF CheckStep, ToCheck, Over, Crossing, Admitted, Asking, poolVars
<1>9. \A h \in Goroutine : h # g =>
         /\ pc'[h] = pc[h] /\ total'[h] = total[h] /\ req'[h] = req[h]
         /\ todo'[h] = todo[h] /\ res'[h] = res[h] /\ chk'[h] = chk[h]
         /\ answer'[h] = answer[h]
         /\ pc[h] = "inside" => mem'[in'[h]] = mem[in[h]]
  BY <1>3 DEF CheckStep, Done, CallInv, CallsAreFunctions, poolVars
<1>10. QED  BY <1>1, <1>4, <1>8, <1>9, StepKeepsInv DEF Sound

(* Nothing is left to do on the instance.                                  *)
LEMMA ReturnKeeps ==
    ASSUME CallInv, NEW g \in Goroutine, ReturnStep(g)
    PROVE  CallInv'
<1>1. [Next]_vars
  BY DEF Next, CallStep
<1>2. Over(g)
  BY StageTold DEF ReturnStep, Return, CallInv
<1>3. MemFits' /\ CallsAreFunctions'
  BY DEF ReturnStep, Return, callVars, CallInv, MemFits, CallsAreFunctions
<1>4. /\ pc'[g] = "release" /\ UNCHANGED <<total, in, mem>>
      /\ \A h \in Goroutine : h # g => pc'[h] = pc[h]
  BY DEF ReturnStep, Return, Goto, CallInv, IInv, PoolTypeOK
<1>5. Over(g)'
  BY <1>2, <1>4 DEF ReturnStep, callVars, Over, Crossing, Admitted, Asking
<1>6. \A h \in Goroutine : h # g =>
         /\ pc'[h] = pc[h] /\ total'[h] = total[h] /\ req'[h] = req[h]
         /\ todo'[h] = todo[h] /\ res'[h] = res[h] /\ chk'[h] = chk[h]
         /\ answer'[h] = answer[h]
         /\ pc[h] = "inside" => mem'[in'[h]] = mem[in[h]]
  BY <1>4 DEF ReturnStep, callVars
<1>7. QED  BY <1>1, <1>3, <1>5, <1>6, StepKeepsInv DEF Sound

(* The instance goes back.                                                 *)
LEMMA ReleaseKeeps ==
    ASSUME CallInv, NEW g \in Goroutine, ReleaseStep(g)
    PROVE  CallInv'
<1>1. [Next]_vars
  BY DEF Next, CallStep
<1>2. Over(g)
  BY StageTold DEF ReleaseStep, Release, CallInv
<1>3. MemFits' /\ CallsAreFunctions'
        /\ \A i \in Instance : pages'[i] = pages[i] => mem'[i] = mem[i]
  BY MemFollows DEF ReleaseStep, CallInv, CallsAreFunctions
<1>4. /\ pc'[g] = "idle"
      /\ \A h \in Goroutine : h # g => /\ pc'[h] = pc[h] /\ in'[h] = in[h]
                                      /\ total'[h] = total[h]
  BY DEF ReleaseStep, Release, LetGo, Goto, CallInv, IInv, PoolTypeOK
<1>5. ToJudge(g)'
  BY <1>2, <1>4 DEF ReleaseStep, Over, ToJudge, Crossing, Admitted, Asking, CallInv,
                    CallsAreFunctions
<1>6. ASSUME NEW h \in Goroutine, h # g
      PROVE
         /\ pc'[h] = pc[h] /\ total'[h] = total[h] /\ req'[h] = req[h]
         /\ todo'[h] = todo[h] /\ res'[h] = res[h] /\ chk'[h] = chk[h]
         /\ answer'[h] = answer[h]
         /\ pc[h] = "inside" => mem'[in'[h]] = mem[in[h]]
  <2>1. pc[h] = "inside" => in[h] \in Instance /\ pages'[in[h]] = pages[in[h]]
    BY <1>6, HeldStays DEF ReleaseStep, CallInv, Holding
  <2>2. QED  BY <1>3, <1>4, <1>6, <2>1 DEF ReleaseStep, CallInv, CallsAreFunctions
<1>7. QED  BY <1>1, <1>3, <1>5, <1>6, StepKeepsInv DEF Sound

(* The door answers; its promise is the answer.                            *)
LEMMA VerdictAnswers ==
    ASSUME CallInv, NEW g \in Goroutine, Verdict(g)
    PROVE  req[g] \in Request /\ answer[g] = Nothing /\ answer'[g] = Promise(req[g])
<1>1. ToJudge(g)
  BY StageTold DEF Verdict, CallInv
<1>2. answer'[g] = Answered(req[g], res[g], chk[g])
  BY DEF Verdict, CallInv, CallsAreFunctions
<1>3. QED  BY <1>1, <1>2, AnswerIsPromised DEF ToJudge, Admitted, Asking

(* An answered goroutine is outside any call again.                        *)
LEMMA VerdictKeeps ==
    ASSUME CallInv, NEW g \in Goroutine, Verdict(g)
    PROVE  CallInv'
<1>1. [Next]_vars
  BY DEF Next, CallStep
<1>2. MemFits' /\ CallsAreFunctions'
  BY DEF Verdict, CallInv, MemFits, CallsAreFunctions, poolVars
<1>3. Outside(g)'
  <2>1. answer'[g] # Nothing
    BY VerdictAnswers, RequestAssumption
  <2>2. ToJudge(g)
    BY StageTold DEF Verdict, CallInv
  <2>3. QED
    BY <2>1, <2>2 DEF Verdict, ToJudge, Outside, Idle, CallInv, CallsAreFunctions, poolVars
<1>4. \A h \in Goroutine : h # g =>
         /\ pc'[h] = pc[h] /\ total'[h] = total[h] /\ req'[h] = req[h]
         /\ todo'[h] = todo[h] /\ res'[h] = res[h] /\ chk'[h] = chk[h]
         /\ answer'[h] = answer[h]
         /\ pc[h] = "inside" => mem'[in'[h]] = mem[in[h]]
  BY DEF Verdict, poolVars, CallInv, CallsAreFunctions
<1>5. QED  BY <1>1, <1>2, <1>3, <1>4, StepKeepsInv DEF Sound

(* A panic inside the core.                                                *)
LEMMA TrapKeeps ==
    ASSUME CallInv, NEW g \in Goroutine, TrapStep(g)
    PROVE  CallInv'
<1>1. [Next]_vars
  BY DEF Next
<1>2. MemFits' /\ CallsAreFunctions'
  BY DEF TrapStep, Trap, CallInv, MemFits, CallsAreFunctions
<1>3. /\ pc'[g] = "idle"
      /\ \A h \in Goroutine : h # g => /\ pc'[h] = pc[h] /\ in'[h] = in[h]
                                      /\ total'[h] = total[h]
  BY DEF TrapStep, Trap, LetGo, Goto, CallInv, IInv, PoolTypeOK
<1>4. Outside(g)'
  BY <1>3, RequestAssumption DEF TrapStep, Outside, Idle, CallInv, CallsAreFunctions
<1>5. \A h \in Goroutine : h # g =>
         /\ pc'[h] = pc[h] /\ total'[h] = total[h] /\ req'[h] = req[h]
         /\ todo'[h] = todo[h] /\ res'[h] = res[h] /\ chk'[h] = chk[h]
         /\ answer'[h] = answer[h]
         /\ pc[h] = "inside" => mem'[in'[h]] = mem[in[h]]
  BY <1>3 DEF TrapStep, CallInv, CallsAreFunctions
<1>6. QED  BY <1>1, <1>2, <1>4, <1>5, StepKeepsInv DEF Sound

(* A collection, or nothing at all.                                        *)
LEMMA CollectKeeps ==
    ASSUME CallInv, Collect \/ UNCHANGED vars
    PROVE  CallInv'
<1>1. [Next]_vars
  BY DEF Next
<1>2. IInv'
  BY <1>1, StepIsPoolStep, NextInv DEF CallInv
<1>3. MemFits' /\ CallsAreFunctions'
  BY MemFollows DEF Collect, CallInv, MemFits, CallsAreFunctions, callVars, vars, poolVars
<1>4. ASSUME NEW h \in Goroutine PROVE Sound(h)'
  <2>1. UNCHANGED <<pc, in, total, callVars>>
    BY DEF Collect, GC, vars, poolVars
  <2>2. pc[h] = "inside" => mem'[in[h]] = mem[in[h]]
    <3>1. CASE UNCHANGED vars
      BY <3>1 DEF vars
    <3>2. CASE Collect
      <4>1. pc[h] = "inside" => in[h] \in Instance /\ pages'[in[h]] = pages[in[h]]
        BY <3>2, HeldStays DEF Collect, CallInv, Holding
      <4>2. QED  BY <3>2, <4>1, MemFollows DEF Collect, CallInv
    <3>3. QED  BY <3>1, <3>2
  <2>3. QED  BY <2>1, <2>2, Undisturbed DEF callVars, CallInv
<1>5. QED  BY <1>2, <1>3, <1>4 DEF CallInv

(* Every step of DoorCalls keeps the invariant.                            *)
LEMMA NextKeeps == CallInv /\ [Next]_vars => CallInv'
<1> SUFFICES ASSUME CallInv, [Next]_vars PROVE CallInv'
  OBVIOUS
<1>1. ASSUME NEW g \in Goroutine, NEW r \in Request, Call(g, r) PROVE CallInv'
  BY <1>1, CallKeeps
<1>2. ASSUME NEW g \in Goroutine, CallStep(g) PROVE CallInv'
  BY <1>2, RefuseKeeps, AcquireKeeps, AcquireStepKeeps, LoadKeeps, CoreKeeps, ResultKeeps,
     CheckKeeps, ReturnKeeps, ReleaseKeeps, VerdictKeeps DEF CallStep
<1>3. ASSUME NEW g \in Goroutine, TrapStep(g) PROVE CallInv'
  BY <1>3, TrapKeeps
<1>4. CASE Collect \/ UNCHANGED vars
  BY <1>4, CollectKeeps
<1>5. QED  BY <1>1, <1>2, <1>3, <1>4 DEF Next

(* The stages, and all the pool keeps, hold in every reachable state.      *)
LEMMA CallInvariant == Spec => []CallInv
  BY CallInit, NextKeeps, PTL DEF Spec

-----------------------------------------------------------------------------
(* The calls use the instances as the pool says they may: whatever is true *)
(* of InstancePool's calls is true of the calls of go/core.go, loads,      *)
(* crossings and reads included.                                           *)
THEOREM CallsArePoolSteps == Spec => PoolSpec
<1>1. Init => PoolInit
  BY DEF Init
<1>2. QED  BY <1>1, CallInvariant, StepIsPoolStep, PTL DEF Spec, PoolSpec

(* A verdict is judged, and may panic, with the instance back (callDetailed*)
(* and its siblings release before they judge), for any interleaving.      *)
THEOREM ReleasedFirst == Spec => []ReleasedBeforeJudged
<1>1. CallInv => ReleasedBeforeJudged
  <2> SUFFICES ASSUME CallInv, NEW g \in Goroutine, todo[g] = <<"verdict">> \/ answer[g] # Nothing
               PROVE  ~Holding(g) /\ pc[g] = "idle"
    BY DEF ReleasedBeforeJudged
  <2>1. CASE todo[g] = <<"verdict">>
    BY <2>1, StageTold DEF CallInv, ToJudge, Holding
  <2>2. CASE answer[g] # Nothing
    BY <2>2 DEF CallInv, Sound, Outside, Entered, Acquires, Loading, ToRead, ToCheck, Over,
                ToJudge, Crossing, Admitted, Asking, Holding
  <2>3. QED  BY <2>1, <2>2
<1>2. QED  BY <1>1, CallInvariant, PTL

(* The core reads its call's request and nothing an earlier call left, for *)
(* any requests, sizes, panics and collections.                            *)
THEOREM CoreReadsItsOwn == Spec => []CoreReadsItsCall
<1>1. CallInv => CoreReadsItsCall
  <2> SUFFICES ASSUME CallInv, NEW g \in Goroutine, At(g, "core")
               PROVE  /\ Seen(mem[in[g]], req[g]) = req[g]
                      /\ Reports(req[g]) => mem[in[g]][FaultOffset] = SizeWord
    BY DEF CoreReadsItsCall
  <2>1. Loading(g)
    BY StageTold DEF CallInv
  <2>2. req[g] \in Request /\ Loaded(mem[in[g]], req[g], todo[g]) /\ Head(todo[g]) = "core"
    BY <2>1 DEF Loading, Crossing, Admitted, Asking, At
  <2>3. AllPlaced(mem[in[g]], req[g])
    BY <2>2, LoadedBegins
  <2>4. QED  BY <2>2, <2>3, PlacedIsSeen
<1>2. QED  BY <1>1, CallInvariant, PTL

(* What result and check read is this call's own report.                   *)
THEOREM ReportsAreOwn == Spec => []ReportIsItsOwn
<1>1. CallInv => ReportIsItsOwn
  <2> SUFFICES ASSUME CallInv, NEW g \in Goroutine
               PROVE  /\ At(g, "result") =>
                            LET r == req[g] rep == Result(mem[in[g]], res[g].code) IN
                            /\ rep.code = Core(r).code
                            /\ rep.code = 0 => rep.out = r
                            /\ rep.code > 0 /\ Reports(r) => rep.fault = r
                      /\ At(g, "check") => Checked(mem[in[g]], req[g]) = Report(req[g])
    BY DEF ReportIsItsOwn, Report
  <2>1. At(g, "result") => ToRead(g)
    BY StageTold DEF CallInv
  <2>2. At(g, "check") => ToCheck(g)
    BY StageTold DEF CallInv
  <2>3. QED  BY <2>1, <2>2 DEF ToRead, ToCheck, Reported, Result
<1>2. QED  BY <1>1, CallInvariant, PTL

-----------------------------------------------------------------------------
(* The doors of the abstract specification promise what these do.          *)
LEMMA SamePromise ==
    ASSUME NEW r \in Request
    PROVE  Promised!Promise(r) = Promise(r) /\ Promised!CallerBug = CallerBug
           /\ Promised!Trapped = Trapped
<1>1. Promised!Declares(r) = Declares(r) /\ Promised!Reports(r) = Reports(r)
  BY DEF Promised!Declares, Declares, Promised!Reports, Reports
<1>2. Promised!TextOffset = TextOffset
  BY DEF Promised!TextOffset, TextOffset, Promised!OptionsOffset, OptionsOffset,
         Promised!PeriodsOffset, PeriodsOffset, Promised!FormatOffset, FormatOffset,
         Promised!FaultOffset, FaultOffset, Promised!OutOffset, OutOffset
<1>3. \A n : Promised!DeclarationAt(n) = DeclarationAt(n)
  BY <1>2 DEF Promised!DeclarationAt, DeclarationAt
<1>4. Promised!MaxText = MaxText
  BY <1>2 DEF Promised!MaxText, MaxText, Promised!AddressableText, AddressableText
<1>5. Promised!Total(r) = Total(r)
  BY <1>1, <1>2, <1>3 DEF Promised!Total, Total, Promised!DeclarationExtra, DeclarationExtra
<1>6. /\ Promised!CallerBug = CallerBug /\ Promised!Trapped = Trapped
      /\ \A n : Promised!CodeOf(n) = CodeOf(n) /\ Promised!Number(n) = Number(n)
      /\ \A n : Promised!Value(r, n) = Value(r, n) /\ Promised!FaultOf(r, n) = FaultOf(r, n)
              /\ Promised!ViolationOf(r, n) = ViolationOf(r, n)
  BY DEF Promised!CallerBug, CallerBug, Promised!Trapped, Trapped, Promised!CodeOf, CodeOf,
         Promised!Number, Number, Promised!Value, Value, Promised!FaultOf, FaultOf,
         Promised!ViolationOf, ViolationOf
<1>7. Promised!Promise(r) = Promise(r)
  <2>1. CASE ~r.ok \/ Total(r) > MaxText
    BY <1>4, <1>5, <1>6, <2>1 DEF Promised!Promise, Promise
  <2> DEFINE judged == ~(~r.ok \/ Total(r) > MaxText)
             code == Core(r).code
  <2>2. CASE judged /\ ~Reports(r) /\ r.call # "callDeclaredDecimal"
    BY <1>1, <1>4, <1>5, <1>6, <2>2 DEF Promised!Promise, Promise
  <2>3. CASE judged /\ r.call = "callDeclaredDecimal"
    <3>1. code \in {0, 8} /\ ~Reports(r) /\ ~Declares(r)
      BY <2>3, CoreAssumption DEF CoreCodes, Reports, Declares
    <3>2. QED  BY <1>1, <1>4, <1>5, <1>6, <2>3, <3>1 DEF Promised!Promise, Promise
  <2>4. CASE judged /\ Reports(r)
    <3>1. r.call # "callDeclaredDecimal" /\ code \in 0 .. 4
      BY <2>4, CoreAssumption DEF CoreCodes, Reports
    <3>2. CASE code = 0
      BY <1>1, <1>4, <1>5, <1>6, <2>4, <3>1, <3>2 DEF Promised!Promise, Promise
    <3>3. CASE code \in 1 .. 3
      BY <1>1, <1>4, <1>5, <1>6, <2>4, <3>1, <3>3 DEF Promised!Promise, Promise
    <3>4. CASE code = 4
      BY <1>1, <1>4, <1>5, <1>6, <2>4, <3>1, <3>4 DEF Promised!Promise, Promise
    <3>5. QED  BY <3>1, <3>2, <3>3, <3>4
  <2>5. QED  BY <2>1, <2>2, <2>3, <2>4
<1>8. QED  BY <1>6, <1>7

(* A call that was let through is promised no caller's panic.              *)
LEMMA AdmittedIsJudged ==
    ASSUME NEW r \in Request, r.ok, Total(r) <= MaxText
    PROVE  Promise(r) # CallerBug
<1>1. r.call \in Calls /\ Core(r).code \in CoreCodes(r)
  BY CoreAssumption, RequestTyped
<1>2. ~(~r.ok \/ Total(r) > MaxText)
  <2>1. Total(r) \in Nat
    BY PoolAssumption, CellAssumption
  <2>2. QED  BY <2>1, MaxTextIsInt
<1>3. CASE r.call \in {"callConstraintsCheck", "packedVersion"}
  BY <1>2, <1>3 DEF Promise, Reports, CodeOf, CallerBug
<1>4. CASE r.call = "callDeclaredDecimal"
  <2>1. Core(r).code \in {0, 8} /\ ~Reports(r)
    BY <1>1, <1>4 DEF CoreCodes, Declares, Reports
  <2>2. QED  BY <1>2, <1>4, <2>1 DEF Promise, CodeOf, Value, CallerBug
<1>5. CASE Reports(r)
  <2>1. r.call # "callDeclaredDecimal" /\ Core(r).code \in 0 .. 4
    BY <1>1, <1>5 DEF Reports, CoreCodes
  <2>2. QED  BY <1>2, <1>5, <2>1 DEF Promise, Value, FaultOf, ViolationOf, CallerBug
<1>6. QED  BY <1>1, <1>3, <1>4, <1>5 DEF Calls, Reports

(* A call of the code is a question, its verdict, refusal or panic the     *)
(* answer, and every other step happens inside a door.                     *)
LEMMA StepIsDoorsStep ==
    ASSUME CallInv, [Next]_vars
    PROVE  [Promised!DoorsNext]_<<[g \in Goroutine |-> IF Idle(g) THEN Nothing ELSE req[g]],
                                  answer>>
<1> DEFINE asked == [g \in Goroutine |-> IF Idle(g) THEN Nothing ELSE req[g]]
<1>1. ASSUME NEW g \in Goroutine, NEW r \in Request, Call(g, r)
      PROVE  Promised!Ask(g, r)
  <2>1. asked[g] = Nothing
    BY <1>1 DEF Call
  <2>2. asked' = [asked EXCEPT ![g] = r]
    BY <1>1, RequestAssumption DEF Call, Idle, CallInv, CallsAreFunctions
  <2>3. QED  BY <1>1, <2>1, <2>2 DEF Promised!Ask, Call
<1>2. ASSUME NEW g \in Goroutine, NEW a, req[g] \in Request, answer[g] = Nothing,
             answer' = [answer EXCEPT ![g] = a], a # Nothing, req' = req,
             a = Promise(req[g]) \/ (a = Trapped /\ Promise(req[g]) # CallerBug)
      PROVE  Promised!Answer(g)
  <2>1. asked[g] = req[g] /\ req[g] # Nothing
    BY <1>2, RequestAssumption DEF Idle
  <2>2. asked' = [asked EXCEPT ![g] = Nothing]
    BY <1>2 DEF Idle, CallInv, CallsAreFunctions
  <2>3. QED  BY <1>2, <2>1, <2>2, SamePromise DEF Promised!Answer
<1>3. ASSUME NEW g \in Goroutine, Refuse(g)
      PROVE  Promised!Answer(g)
  <2>1. Entered(g)
    BY <1>3, StageTold DEF Refuse, CallInv
  <2>2. Promise(req[g]) = CallerBug
    BY <1>3, <2>1, DecisionIs, CellAssumption, PoolAssumption
       DEF Refuse, Entered, Asking, Promise
  <2>3. QED
    BY <1>2, <1>3, <2>1, <2>2, RequestAssumption DEF Refuse, Entered, Asking
<1>4. ASSUME NEW g \in Goroutine, Verdict(g)
      PROVE  Promised!Answer(g)
  <2>1. req[g] \in Request /\ answer[g] = Nothing /\ answer'[g] = Promise(req[g])
    BY <1>4, VerdictAnswers
  <2>2. answer' = [answer EXCEPT ![g] = Promise(req[g])]
    BY <1>4, <2>1 DEF Verdict, CallInv, CallsAreFunctions
  <2>3. QED  BY <1>2, <1>4, <2>1, <2>2, RequestAssumption DEF Verdict
<1>5. ASSUME NEW g \in Goroutine, TrapStep(g)
      PROVE  Promised!Answer(g)
  <2>1. Loading(g)
    BY <1>5, StageTold DEF TrapStep, CallInv
  <2>2. Promise(req[g]) # CallerBug
    <3> DEFINE r == req[g]
    <3>1. r \in Request /\ r.ok /\ Total(r) <= MaxText
      BY <2>1 DEF Loading, Crossing, Admitted, Asking
    <3>2. QED  BY <3>1, AdmittedIsJudged
  <2>3. QED  BY <1>2, <1>5, <2>1, <2>2, RequestAssumption
             DEF TrapStep, Loading, Crossing, Admitted, Asking
<1>6. ASSUME NEW g \in Goroutine,
             \/ Acquire(g) \/ AcquireStep(g) \/ LoadStep(g) \/ CoreStep(g) \/ ResultStep(g)
             \/ CheckStep(g) \/ ReturnStep(g) \/ ReleaseStep(g)
      PROVE  UNCHANGED <<asked, answer>>
  <2>1. UNCHANGED <<req, answer>>
    BY <1>6 DEF Acquire, AcquireStep, LoadStep, CoreStep, ResultStep, CheckStep, ReturnStep,
                ReleaseStep, callVars
  <2>2. QED  BY <2>1 DEF Idle
<1>7. CASE Collect \/ UNCHANGED vars
  <2>1. UNCHANGED <<req, answer>>
    BY <1>7 DEF Collect, callVars, vars
  <2>2. QED  BY <2>1 DEF Idle
<1>8. QED
  BY <1>1, <1>3, <1>4, <1>5, <1>6, <1>7 DEF Next, CallStep, Promised!DoorsNext

(* go/core.go's calls implement the doors' promise: every answer is the    *)
(* core's judgement of the caller's own request, or the panic the caller   *)
(* or the core earned, for any requests, goroutines, sizes and any         *)
(* interleaving of loads, crossings, reads, releases, panics and           *)
(* collections.                                                            *)
THEOREM PromiseKept == Spec => KeepsPromise
<1>1. Init => Promised!DoorsInit
  BY DEF Init, Promised!DoorsInit, Idle
<1>2. CallInv /\ [Next]_vars =>
        [Promised!DoorsNext]_<<[g \in Goroutine |-> IF Idle(g) THEN Nothing ELSE req[g]],
                               answer>>
  BY StepIsDoorsStep
<1>3. QED
  BY <1>1, <1>2, CallInvariant, PTL DEF Spec, KeepsPromise, Promised!DoorsSafety
=============================================================================
