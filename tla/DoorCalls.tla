------------------------------ MODULE DoorCalls ------------------------------
(***************************************************************************)
(* A call, whole: go/core.go's callDetailed and its five siblings on the   *)
(* instances of InstancePool.  Scratch memory is modelled cell by cell at  *)
(* the offsets of ScratchLayout and is never cleared between calls, so     *)
(* every step loads over, reads, or steers clear of what earlier calls     *)
(* left there.  The core is external: it judges what its pointers show it. *)
(***************************************************************************)
EXTENDS InstancePool, DoorRequests

CONSTANTS
    SizeWord           \* RawFaultDetailSize, which the core checks and never writes

(* A region of the header, a RawConstraints and each report of a RawCheck  *)
(* is a cell; the base scratch's text is short of the guest's limit; and a *)
(* call asks the pool for its request's total.                             *)
ASSUME CellAssumption ==
    /\ OutBytes > 0 /\ FaultBytes > 1 /\ FormatBytes > 0
    /\ PeriodsBytes > 0 /\ OptionsBytes > 0
    /\ ConstraintsBytes = 1 /\ CheckBytes = 2
    /\ BaseText <= SliceLimit
    /\ \A r \in Request : Total(r) \in Totals

VARIABLES
    mem,               \* each instance's scratch: offset -> cell
    req,               \* the request of each goroutine's call, its latest when idle
    todo,              \* the steps its call has left on its instance
    res,               \* its result: code, out and fault, copied out of the scratch
    chk,               \* its RawCheck, copied out of the scratch
    answer             \* what its latest call came to, Nothing while it runs

callVars == <<req, todo, res, chk, answer>>
vars == <<poolVars, mem, callVars>>

Zero == Number(0)      \* fresh memory

Unchecked == [keyword |-> Number(0), entry |-> Number(NoEntry)]
NoResult  == [code |-> 0, out |-> Nothing, fault |-> Nothing]

Init ==
    /\ PoolInit
    /\ mem = [i \in Instance |-> <<>>]
    /\ req = [g \in Goroutine |-> Nothing]
    /\ todo = [g \in Goroutine |-> <<>>]
    /\ res = [g \in Goroutine |-> NoResult]
    /\ chk = [g \in Goroutine |-> Unchecked]
    /\ answer = [g \in Goroutine |-> Nothing]

-----------------------------------------------------------------------------
If(present, step) == IF present THEN <<step>> ELSE <<>>

(* Mutant: the size word left to an earlier call.                          *)
ResetFaultNever == <<>>

(* Each call that reports writes the size word the core checks.            *)
ResetFault == <<"resetFault">>

(* The steps of each function, in its order; format, periods, options and  *)
(* vocabulary are loaded when there is one and cross as null otherwise.    *)
Program(r) ==
    LET report == <<"core", "result">>
        text == <<"text">>
        format == If(r.format # Nothing, "format")
    IN  CASE r.call = "callDetailed" ->
               text \o ResetFault \o format \o If(r.periods # Nothing, "periods")
                 \o If(r.options # Nothing, "options") \o If(r.vocab # <<>>, "vocab")
                 \o report
          [] r.call = "callDetailedFromF64" -> ResetFault \o report
          [] r.call = "callChecked" ->
               <<"declaration">> \o text \o ResetFault \o format
                 \o report \o <<"check">>
          [] r.call = "callCheckedFromF64" ->
               <<"declaration">> \o ResetFault \o report \o <<"check">>
          [] r.call = "callConstraintsCheck" -> <<"declaration", "core">>
          [] r.call = "callDeclaredDecimal" -> text \o report
          [] r.call = "packedVersion" -> <<"core">>

(* Mutant: the vocabulary over the text.                                   *)
VocabAtText(n) == TextOffset

(* callDetailed: the month vocabulary starts where the text ends.          *)
VocabAt(n) == TextOffset + n

(* loadDeclaration: the RawConstraints, a RawCheck reset to "no keyword, no *)
(* entry", and the enum list.                                              *)
Declaration(r) == <<r.decl, Unchecked.keyword, Unchecked.entry>> \o r.enum

(* What a load writes, and where: a sequence of cells from an offset on.   *)
Load(step, r) ==
    CASE step = "declaration" ->
           [at |-> DeclarationAt(Len(r.text)), cells |-> Declaration(r)]
      [] step = "text"       -> [at |-> TextOffset,    cells |-> r.text]
      [] step = "resetFault" -> [at |-> FaultOffset,   cells |-> <<SizeWord>>]
      [] step = "format"     -> [at |-> FormatOffset,  cells |-> <<r.format>>]
      [] step = "periods"    -> [at |-> PeriodsOffset, cells |-> <<r.periods>>]
      [] step = "options"    -> [at |-> OptionsOffset, cells |-> <<r.options>>]
      [] step = "vocab"      -> [at |-> VocabAt(Len(r.text)), cells |-> r.vocab]

Loads == {"declaration", "text", "resetFault", "format", "periods", "options", "vocab"}

(* copy() writes what fits and no more.                                    *)
Stored(m, l) ==
    [k \in DOMAIN m |-> IF k \in l.at .. l.at + Len(l.cells) - 1
                        THEN l.cells[k - l.at + 1] ELSE m[k]]

Fetched(m, at, n) == [k \in 1..n |-> m[at + k - 1]]

(* What the core reads through the pointers and lengths r's call hands it. *)
Seen(m, r) ==
    LET n == Len(r.text) IN
    [r EXCEPT
       !.text    = Fetched(m, TextOffset, n),
       !.format  = IF r.format = Nothing  THEN Nothing ELSE m[FormatOffset],
       !.periods = IF r.periods = Nothing THEN Nothing ELSE m[PeriodsOffset],
       !.options = IF r.options = Nothing THEN Nothing ELSE m[OptionsOffset],
       !.vocab   = Fetched(m, VocabAt(n), Len(r.vocab)),
       !.decl    = IF Declares(r) THEN m[DeclarationAt(n)] ELSE Nothing,
       !.enum    = Fetched(m, EnumAt(n), Len(r.enum))]

(* The core (external): its code for what it sees, -1 when the fault's     *)
(* size word is not there; it writes the out-value on success only, the    *)
(* fault on a failure or violation only, and the RawCheck whole on success *)
(* and on a violation: a keyword of 0 or no entry where it has none.       *)
Judged(m, r) ==
    IF Reports(r) /\ m[FaultOffset] # SizeWord
    THEN [code |-> -1, keyword |-> 0, entry |-> NoEntry]
    ELSE Core(Seen(m, r))

Written(m, r) ==
    LET verdict == Judged(m, r)
        hasOut == Reports(r) \/ r.call = "callDeclaredDecimal"
        hasCheck == Declares(r) /\ Reports(r)
    IN  [k \in DOMAIN m |->
           CASE k = OutOffset /\ hasOut /\ verdict.code = 0 -> Seen(m, r)
             [] k = FaultOffset + 1 /\ Reports(r) /\ verdict.code > 0 -> Seen(m, r)
             [] k = CheckAt(Len(r.text)) /\ hasCheck /\ verdict.code \in {0, 4} ->
                  Number(IF verdict.code = 4 THEN verdict.keyword ELSE 0)
             [] k = CheckAt(Len(r.text)) + 1 /\ hasCheck /\ verdict.code \in {0, 4} ->
                  Number(IF verdict.code = 0 THEN verdict.entry ELSE NoEntry)
             [] OTHER -> m[k]]

(* result: the out-value on code 0, the fault on a positive code, else     *)
(* neither; whatever the scratch holds there.                              *)
Result(m, code) ==
    [code |-> code,
     out   |-> IF code = 0 THEN m[OutOffset] ELSE Nothing,
     fault |-> IF code > 0 THEN m[FaultOffset + 1] ELSE Nothing]

(* Mutant: the padding before the declaration forgotten.                   *)
CheckedUnpadded(m, r) ==
    LET at == TextOffset + Len(r.text) + ConstraintsBytes
    IN  [keyword |-> m[at], entry |-> m[at + 1]]

(* check: the RawCheck's two reports (Adjusted travels as entry does).      *)
Checked(m, r) == [keyword |-> m[CheckAt(Len(r.text))], entry |-> m[CheckAt(Len(r.text)) + 1]]

(* The door's answer, made of the call's own copies after it released its  *)
(* instance: failed, rejected, checkedValue, checkedText, declaredDecimal. *)
Answered(r, result, c) ==
    CASE r.call \in {"callConstraintsCheck", "packedVersion"} -> CodeOf(result.code)
      [] r.call = "callDeclaredDecimal" ->
           (CASE result.code = 0 -> Value(result.out, Number(NoEntry))
              [] result.code = 8 -> CodeOf(8)
              [] OTHER -> BindingBug)
      [] Reports(r) /\ result.code = 0 ->
           IF c.entry \notin {Number(e) : e \in {NoEntry} \cup (0 .. Len(r.enum) - 1)} THEN BindingBug
           ELSE Value(result.out, c.entry)
      [] Reports(r) /\ result.code \in 1..3 -> FaultOf(result.fault, result.code)
      [] Reports(r) /\ result.code = 4 /\ Declares(r) ->
           IF c.keyword = Number(0) THEN BindingBug ELSE ViolationOf(result.fault, c.keyword)
      [] OTHER -> BindingBug

-----------------------------------------------------------------------------
Idle(g) == req[g] = Nothing \/ answer[g] # Nothing

(* A goroutine enters a door.                                              *)
Call(g, r) ==
    /\ Idle(g)
    /\ req' = [req EXCEPT ![g] = r]
    /\ todo' = [todo EXCEPT ![g] = <<"acquire">>]
    /\ res' = [res EXCEPT ![g] = NoResult]
    /\ chk' = [chk EXCEPT ![g] = Unchecked]
    /\ answer' = [answer EXCEPT ![g] = Nothing]
    /\ UNCHANGED <<poolVars, mem>>

(* The panics a caller earns: an undefined declaration, which the door     *)
(* judges before it crosses, and a total past MaxText (acquireScratch).    *)
Refuse(g) ==
    /\ todo[g] = <<"acquire">>
    /\ ~req[g].ok \/ Decision(Total(req[g])) = "panic"
    /\ todo' = [todo EXCEPT ![g] = <<>>]
    /\ answer' = [answer EXCEPT ![g] = CallerBug]
    /\ UNCHANGED <<poolVars, mem, req, res, chk>>

Acquire(g) ==
    /\ todo[g] = <<"acquire">> /\ req[g].ok
    /\ AcquireScratch(g, Total(req[g]))
    /\ todo' = [todo EXCEPT ![g] = Program(req[g])]
    /\ UNCHANGED <<mem, req, res, chk, answer>>

(* A new instance's memory is zero; a collected one's is gone.             *)
MemFollowsPages ==
    mem' = [i \in Instance |-> IF pages'[i] = pages[i] THEN mem[i]
                               ELSE [k \in 0 .. pages'[i] * PageSize - 1 |-> Zero]]

AcquireStep(g) == Acquiring(g) /\ MemFollowsPages /\ UNCHANGED callVars

At(g, step) == pc[g] = "inside" /\ todo[g] # <<>> /\ Head(todo[g]) = step

Done(g) == todo' = [todo EXCEPT ![g] = Tail(@)]

LoadStep(g) ==
    \E step \in Loads :
        /\ At(g, step)
        /\ mem' = [mem EXCEPT ![in[g]] = Stored(@, Load(step, req[g]))]
        /\ Done(g)
        /\ UNCHANGED <<poolVars, req, res, chk, answer>>

CoreStep(g) ==
    /\ At(g, "core")
    /\ mem' = [mem EXCEPT ![in[g]] = Written(@, req[g])]
    /\ res' = [res EXCEPT ![g].code = Judged(mem[in[g]], req[g]).code]
    /\ Done(g)
    /\ UNCHANGED <<poolVars, req, chk, answer>>

ResultStep(g) ==
    /\ At(g, "result")
    /\ res' = [res EXCEPT ![g] = Result(mem[in[g]], @.code)]
    /\ Done(g)
    /\ UNCHANGED <<poolVars, mem, req, chk, answer>>

CheckStep(g) ==
    /\ At(g, "check")
    /\ chk' = [chk EXCEPT ![g] = Checked(mem[in[g]], req[g])]
    /\ Done(g)
    /\ UNCHANGED <<poolVars, mem, req, res, answer>>

ReturnStep(g) == todo[g] = <<>> /\ Return(g) /\ UNCHANGED <<mem, callVars>>

(* The instance goes back, and with it the right to look at its scratch.   *)
ReleaseStep(g) ==
    /\ Release(g)
    /\ MemFollowsPages
    /\ todo' = [todo EXCEPT ![g] = <<"verdict">>]
    /\ UNCHANGED <<req, res, chk, answer>>

(* Mutant: the verdict judged, and perhaps a panic, before the release.    *)
VerdictBeforeRelease(g) ==
    /\ todo[g] = <<>> /\ pc[g] = "inside" /\ answer[g] = Nothing
    /\ answer' = [answer EXCEPT ![g] = Answered(req[g], res[g], chk[g])]
    /\ UNCHANGED <<poolVars, mem, req, todo, res, chk>>

Verdict(g) ==
    /\ todo[g] = <<"verdict">>
    /\ answer' = [answer EXCEPT ![g] = Answered(req[g], res[g], chk[g])]
    /\ todo' = [todo EXCEPT ![g] = <<>>]
    /\ UNCHANGED <<poolVars, mem, req, res, chk>>

(* A panic inside the core unwinds the call past its release.              *)
TrapStep(g) ==
    /\ At(g, "core") /\ Trap(g)
    /\ answer' = [answer EXCEPT ![g] = Trapped]
    /\ todo' = [todo EXCEPT ![g] = <<>>]
    /\ UNCHANGED <<mem, req, res, chk>>

Collect == GC /\ MemFollowsPages /\ UNCHANGED callVars

CallStep(g) ==
    \/ Refuse(g) \/ Acquire(g) \/ AcquireStep(g)
    \/ LoadStep(g) \/ CoreStep(g) \/ ResultStep(g) \/ CheckStep(g)
    \/ ReturnStep(g) \/ ReleaseStep(g) \/ Verdict(g)

Next ==
    \/ \E g \in Goroutine :
          \/ \E r \in Request : Call(g, r)
          \/ CallStep(g)
          \/ TrapStep(g)
    \/ Collect

Spec == Init /\ [][Next]_vars

(* The Go scheduler runs every runnable goroutine and the core's exports   *)
(* return; nobody owes a call, a collection or a panic.                    *)
FairSpec == Spec /\ \A g \in Goroutine : WF_vars(CallStep(g))

-----------------------------------------------------------------------------
(* A verdict is judged, and may panic, only once the instance is back: a   *)
(* caller that recovers from the panic of a verdict no door has leaves no  *)
(* instance leaked and no lock taken behind it (callDetailed and its       *)
(* siblings release before they judge).                                    *)
ReleasedBeforeJudged ==
    \A g \in Goroutine :
        todo[g] = <<"verdict">> \/ answer[g] # Nothing => ~Holding(g) /\ pc[g] = "idle"

(* What the core is about to read is this call's request, byte for byte,   *)
(* over whatever earlier calls left in the scratch: the loads cover every  *)
(* region a pointer is passed for, and none of them damages another.       *)
CoreReadsItsCall ==
    \A g \in Goroutine :
        At(g, "core") => /\ Seen(mem[in[g]], req[g]) = req[g]
                         /\ Reports(req[g]) => mem[in[g]][FaultOffset] = SizeWord

(* Between the core's return and the reads of result and check, what they  *)
(* will read is what the core wrote for this call - or, in a fault's       *)
(* RawCheck, loadDeclaration's reset - and never an earlier call's.        *)
ReportIsItsOwn ==
    \A g \in Goroutine :
        /\ At(g, "result") =>
              LET r == req[g] rep == Result(mem[in[g]], res[g].code) IN
              /\ rep.code = Core(r).code
              /\ rep.code = 0 => rep.out = r
              /\ rep.code > 0 /\ Reports(r) => rep.fault = r
        /\ At(g, "check") =>
              LET r == req[g] IN
              Checked(mem[in[g]], r) =
                  [keyword |-> Number(IF Core(r).code = 4 THEN Core(r).keyword ELSE 0),
                   entry   |-> Number(IF Core(r).code = 0 THEN Core(r).entry ELSE NoEntry)]

(* The doors of the abstract specification, seen through this one.         *)
Promised == INSTANCE Doors WITH
    asked  <- [g \in Goroutine |-> IF Idle(g) THEN Nothing ELSE req[g]],
    answer <- answer

(* The doors' promise, kept (callDetailed and its siblings implement       *)
(* Doors): an answer comes from the caller's own request and from nothing  *)
(* an earlier or a concurrent call left behind, and no verdict is a        *)
(* binding bug.                                                            *)
KeepsPromise == Promised!DoorsSafety

(* And every call ends, also after a panic left the primary locked.        *)
KeepsPromiseEnd == Promised!DoorsSpec
=============================================================================
