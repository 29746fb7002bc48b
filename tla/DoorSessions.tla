---------------------------- MODULE DoorSessions -----------------------------
(***************************************************************************)
(* One question asked of the binding through several of its surfaces: the  *)
(* plain door, its detailed twin, the generic Numeric and Scalar, the      *)
(* checked doors, and their Optional forms.  The core answers each         *)
(* crossing it reads once and for all, soundly or not; the surfaces make   *)
(* of its verdict a value, a fault, a violation or a panic (go/cast.go,    *)
(* detailed.go, checked.go, interop.go).                                   *)
(***************************************************************************)
EXTENDS DoorTable, FiniteSets

CONSTANTS
    Params,            \* what callers pass as a precision, an order or an epoch
    Options,           \* the DateOptions they pass
    TextLength,        \* bytes of their text
    Word,              \* 2^32, the size of a span's words
    Entries,           \* texts in a declared enum
    NoEntry,           \* RawCheck.EnumIndex = MaxUint32
    MaxAsked           \* surfaces asked in a session, a bound of the model

ASSUME SessionAssumption ==
    /\ TextLength \in Nat /\ Word \in Nat \ {0} /\ TextLength < Word
    /\ Entries \in Nat /\ MaxAsked \in Nat
    /\ Options \subseteq [shapes : Int, pivot : Int, months : BOOLEAN]

VARIABLES
    question,          \* the session's question, Nothing before it is asked
    judged,            \* the core's verdict on each crossing it has read
    told               \* what each surface asked came to

vars == <<question, judged, told>>

Questions ==
    { q \in [ name : DOMAIN Door, typed : BOOLEAN, param : Params,
              format : {"taken", "refused"}, periods : {"english", "taken", "refused"},
              options : Options, rules : {"zero", "none", "some"} ] :
        /\ q.name \notin {"Unix", "ExcelSerial", "DateOnlyOrdered", "DateTime"} => q.param = 0
        /\ q.name \notin NumericDoors \/ q.typed => q.format = "taken"
        /\ q.name # "DateTime" \/ q.typed => q.periods = "english"
        /\ q.name \notin {"Timestamp", "DateOnly", "DateOnlyOrdered", "DateTime"} \/ q.typed =>
               q.options = ZeroOptions
        /\ q.name \notin NumericDoors \cup {"String"} => q.rules = "none"
        /\ q.typed => q.name \in TypedDoors \cup NumericDoors }

CheckedSurface  == {"check", "checkDetailed"}
DetailedSurface == {"detailed", "numericDetailed", "scalarDetailed", "checkDetailed"}
Surface == {"plain", "with", "numeric", "scalar", "check"} \cup DetailedSurface

(* Which of the exported functions can be asked a question.                *)
Offers(surface, q) ==
    LET type == Returns[q.name]
        untyped == ~q.typed /\ q.rules = "none"
    IN  CASE surface = "plain" ->
               /\ q.rules = "none" /\ q.options = ZeroOptions /\ q.periods = "english"
               /\ q.typed => q.name \in TypedDoors
          [] surface = "with" -> untyped /\ q.name = "DateTime" /\ q.options = ZeroOptions
          [] surface = "detailed" -> q.rules = "none" /\ (q.typed => q.name \in TypedDoors)
          [] surface \in {"numeric", "numericDetailed"} -> untyped /\ type \in Number
          [] surface \in {"scalar", "scalarDetailed"} ->
               /\ untyped /\ type \in ScalarTarget /\ q.options = ZeroOptions
               /\ q.name \notin {"Unix", "ExcelSerial", "DateOnlyOrdered"}
          [] surface \in CheckedSurface ->
               type \in Number \/ (type = "string" /\ ~q.typed)

(* The door a surface goes through.                                        *)
Arm(surface, q) ==
    CASE surface \in {"numeric", "numericDetailed"} -> NumericArm(Returns[q.name])
      [] surface \in {"scalar", "scalarDetailed"}   -> ScalarArm(Returns[q.name])
      [] OTHER -> q.name

(* Its crossing, or the panic its caller earned.                           *)
CrossingOf(surface, q) ==
    IF surface \in CheckedSurface THEN CheckedDoorway(Returns[q.name], q, q.typed)
    ELSE IF q.typed THEN TypedDoorway(q.name, q)
    ELSE IF surface = "plain" THEN Doorway(q.name, [q EXCEPT !.periods = Nothing], Nothing)
    ELSE Doorway(Arm(surface, q), q,
                 IF surface \in {"with", "numeric", "scalar"} THEN Nothing ELSE q.options)

ViewOf(surface, q) ==
    IF surface \in CheckedSurface THEN CheckedView(Returns[q.name])
    ELSE View(Arm(surface, q), q.typed)

-----------------------------------------------------------------------------
(* The core's verdicts on a crossing it takes: the sound ones and those    *)
(* the binding has a panic for.                                            *)
Verdict(code) ==
    [ code |-> code, detail |-> 1, keyword |-> 0, adjusted |-> 0, entry |-> NoEntry,
      offset |-> 0, len |-> TextLength ]

Spans == [offset : 0 .. TextLength + 1, len : (0 .. TextLength) \cup {Word - 1}]

Checks(x) == x.export \in {"checked", "checkedFromF64"}

Verdicts(x) ==
    { Verdict(code) : code \in -2 .. 5 }
    \cup { [Verdict(2) EXCEPT !.detail = 33] }
    \cup (IF x.door # Door.String THEN {}
          ELSE { [Verdict(0) EXCEPT !.offset = span.offset, !.len = span.len] : span \in Spans })
    \cup (IF ~Checks(x) THEN {}
          ELSE {[Verdict(4) EXCEPT !.keyword = 1], [Verdict(0) EXCEPT !.adjusted = 1]})
    \cup (IF ~Checks(x) \/ x.door # Door.String THEN {}
          ELSE { [Verdict(0) EXCEPT !.entry = e] : e \in 0 .. Entries })

(* What a surface can come to.                                             *)
BindingBug == [kind |-> "bindingBug"]   \* a panic on a verdict no door has

(* Mutant: any positive code is a reason.                                  *)
ReasonUnbounded(code) == code >= 1

ReasonFromCode(code) == code \in 1 .. 3

(* failed and failedDetailed.                                              *)
Failed(surface, v) ==
    IF v.code = -1 \/ ~ReasonFromCode(v.code) THEN BindingBug
    ELSE [kind |-> "fault", reason |-> v.code,
          detail |-> IF surface \in DetailedSurface THEN v.detail ELSE Nothing]

(* rejected, rejectedDetailed and violated.                                *)
Rejected(surface, v) ==
    IF v.code # 4 THEN Failed(surface, v)
    ELSE IF v.keyword = 0 THEN BindingBug
    ELSE [kind |-> "violation", keyword |-> v.keyword]

Delivered(surface, q, x, v, text) ==
    [ kind |-> "value", door |-> x.door, view |-> ViewOf(surface, q), text |-> text,
      adjusted |-> IF surface \in CheckedSurface THEN v.adjusted ELSE 0 ]

(* slice: the span's end is a sum of two 32-bit words; Go panics on bounds *)
(* out of order or past the text.                                          *)
Slice(v) == [from |-> v.offset, to |-> (v.offset + v.len) % Word]

Sliceable(s) == s.from <= s.to /\ s.to <= TextLength

(* A door's success: checkedText's declared entry, or a slice of the text, *)
(* or the out-value through its view.                                      *)
Success(surface, q, x, v) ==
    IF surface \in CheckedSurface /\ x.door = Door.String /\ v.entry # NoEntry
    THEN IF v.entry >= Entries THEN BindingBug
         ELSE Delivered(surface, q, x, v, [entry |-> v.entry])
    ELSE IF x.door = Door.String
    THEN IF Sliceable(Slice(v)) THEN Delivered(surface, q, x, v, Slice(v)) ELSE BindingBug
    ELSE Delivered(surface, q, x, v, Nothing)

Answer(surface, q, x, v) ==
    IF v.code = 0 THEN Success(surface, q, x, v)
    ELSE IF surface \in CheckedSurface THEN Rejected(surface, v)
    ELSE Failed(surface, v)

(* Mutant: OptionalChecked takes every rejection for an absence.           *)
OptionalOfAny(answer) == IF answer.kind \in {"fault", "violation"} THEN [kind |-> "absent"] ELSE answer

(* Optional, OptionalDetailed, OptionalChecked, OptionalCheckedDetailed.   *)
Optional(answer) ==
    IF answer.kind = "fault" /\ answer.reason = 1 THEN [kind |-> "absent"] ELSE answer

-----------------------------------------------------------------------------
Init == question = Nothing /\ judged = <<>> /\ told = <<>>

Ask ==
    /\ question = Nothing
    /\ \E q \in Questions : question' = q
    /\ UNCHANGED <<judged, told>>

Asked(surface) ==
    /\ question # Nothing
    /\ surface \notin DOMAIN told /\ Cardinality(DOMAIN told) < MaxAsked
    /\ Offers(surface, question)

(* A record kept under one key more, or under the same ones.               *)
Keep(kept, key, value) ==
    [k \in DOMAIN kept \cup {key} |-> IF k = key THEN value ELSE kept[k]]

Tell(surface, x, v, answer) ==
    told' = Keep(told, surface, [ crossing |-> x, verdict |-> v, answer |-> answer,
                                  optional |-> Optional(answer) ])

(* The door panics on its caller's argument and nothing crosses.           *)
Refuses(surface) ==
    /\ Asked(surface)
    /\ CrossingOf(surface, question) = CallerBug
    /\ Tell(surface, Nothing, Nothing, [kind |-> "callerBug"])
    /\ UNCHANGED <<question, judged>>

Crosses(surface) ==
    /\ Asked(surface)
    /\ CrossingOf(surface, question) # CallerBug
    /\ LET x == CrossingOf(surface, question)
           read == AsRead(x)
       IN  \E v \in IF ~ContractMet(x) THEN {Verdict(-1)}
                    ELSE IF read \in DOMAIN judged THEN {judged[read]} ELSE Verdicts(x) :
             /\ judged' = Keep(judged, read, v)
             /\ Tell(surface, x, v, Answer(surface, question, x, v))
    /\ UNCHANGED question

Next == Ask \/ \E surface \in Surface : Refuses(surface) \/ Crosses(surface)

Spec == Init /\ [][Next]_vars

-----------------------------------------------------------------------------
Crossed == { s \in DOMAIN told : told[s].crossing # Nothing }

(* Whatever a caller declares, no exported function hands the core a       *)
(* crossing its entries call a contract violation: what the binding lets   *)
(* through is inside what the generated code accepts.                      *)
NoContractViolation == \A s \in Crossed : ContractMet(told[s].crossing)

(* Every byte a door reads of the out-value is one the core's own door     *)
(* stored in this call: none is what an earlier call left in the scratch.  *)
ReadsWhatTheCoreWrote ==
    \A s \in Crossed :
        told[s].answer.kind = "value" =>
            Fields(told[s].answer.view) \subseteq Stored(told[s].crossing)

WithoutDetail(answer) ==
    IF answer.kind = "fault" THEN [answer EXCEPT !.detail = Nothing] ELSE answer

(* However a question is asked - a door by name, its detailed twin, by the *)
(* type it returns, with options that declare nothing - the verdict is the *)
(* same but for the detail, present and absent alike, and a checked door's *)
(* value comes from the door its type names everywhere else.               *)
OneStory ==
    \A s, t \in DOMAIN told :
        LET a == told[s].answer b == told[t].answer IN
        IF (s \in CheckedSurface) = (t \in CheckedSurface)
        THEN /\ WithoutDetail(a) = WithoutDetail(b)
             /\ WithoutDetail(told[s].optional) = WithoutDetail(told[t].optional)
        ELSE a.kind = "value" /\ b.kind = "value" => a.door = b.door /\ a.view = b.view

(* A verdict is presented as absent exactly when the core judged the text  *)
(* empty: never a broken rule, another fault, or a panic.                  *)
AbsentMeansEmpty ==
    \A s \in Crossed : (told[s].optional.kind = "absent") <=> told[s].verdict.code = 1

(* What the core may say of a crossing: the contract of its exports.       *)
Sound(x, v) ==
    CASE v.code = 0 -> /\ x.door = Door.String /\ (~Checks(x) \/ v.entry = NoEntry) =>
                              v.offset + v.len <= TextLength
                       /\ v.entry = NoEntry \/ v.entry < Entries
      [] v.code = 4 -> Checks(x) /\ v.keyword # 0
      [] OTHER -> v.code \in 1 .. 3

(* A verdict outside the contract - an unknown code, a violation of no     *)
(* keyword, an entry never declared, a span past the text or wrapping      *)
(* around 2^32 - is a panic and never passes for data; one inside it never *)
(* panics, and a text it delivers is the span it names.                    *)
BrokenCoresPanic ==
    \A s \in Crossed :
        LET x == told[s].crossing v == told[s].verdict a == told[s].answer IN
        /\ (a.kind = "bindingBug") <=> ~Sound(x, v)
        /\ a.kind = "value" /\ x.door = Door.String /\ v.entry = NoEntry =>
               a.text = [from |-> v.offset, to |-> v.offset + v.len]
=============================================================================
