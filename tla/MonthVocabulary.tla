--------------------------- MODULE MonthVocabulary ---------------------------
(***************************************************************************)
(* go/dates.go's month vocabularies: NewMonthNames packs the entries,      *)
(* judgeMonthNames reads the packed bytes back entry by entry and judges   *)
(* each, the core judges the whole again (the generated                    *)
(* internal/core/core.go, fn90), and dateCall hands it to the doors that   *)
(* read one.                                                               *)
(***************************************************************************)
EXTENDS Integers, SequencesExt

CONSTANTS
    MonthCount,        \* December
    MaxMonthNameBytes,
    Byte,              \* the bytes vocabularies are written in, naturals
    NotUTF8,           \* those that make a name invalid UTF-8
    Refused,           \* ASCII digits, '/', '-' and white space
    GoFold,            \* strings.EqualFold: the byte each byte folds to
    CoreFold,          \* the core's case folding, likewise (fn91)
    Hash(_),           \* the hash the core keeps of a folded name (FNV-1a, 32 bits)
    Slots,             \* how many it keeps: 64
    Declarations,      \* the entries callers declare, sequences of [month, name]
    Packings,          \* the packed vocabularies monthNamesFromPacked is given
    Pivots,            \* the pivots callers declare, valid ones and others
    LowPivot, HighPivot, \* 100 and 9999
    Nothing,           \* nil
    Panic              \* a caller-bug panic

ASSUME VocabularyAssumption ==
    /\ MonthCount \in Nat \ {0} /\ MaxMonthNameBytes \in Nat \ {0}
    /\ Byte \subseteq Nat /\ Slots \in Nat

(* Both fold under the same Unicode (dates.go), or the core folds more.    *)
ASSUME SameUnicode ==
    \A b, c \in Byte : GoFold[b] = GoFold[c] => CoreFold[b] = CoreFold[c]

Month == 1 .. MonthCount

DateDoor == {"timestamp", "date", "dateOrdered", "dateTime"}

Shapes == {"none", "common", "undefined"}

(* What callers declare is typed, and Nothing is none of it.               *)
ASSUME CallerAssumption ==
    /\ Declarations \subseteq Seq([month : Int, name : Seq(Byte)])
    /\ Packings \subseteq Seq(Byte)
    /\ Nothing \notin Declarations
    /\ \A shapes \in Shapes, pivot \in Pivots : [shapes |-> shapes, pivot |-> pivot] # Nothing

VARIABLES
    phase,             \* "idle", "judging", "judged"
    declared,          \* the entries, or Nothing for a vocabulary packed already
    packed,            \* the vocabulary's bytes
    at,                \* how many judgeMonthNames has read
    names,             \* the names it has accepted
    seen,              \* the months it has met
    refusal,           \* [rule, entry, month] of the error, or NoError
    held,              \* the MonthNames the caller holds
    crossed            \* what a date door handed the core, Panic, or Nothing

vars == <<phase, declared, packed, at, names, seen, refusal, held, crossed>>

NoError == [rule |-> "none", entry |-> 0, month |-> Nothing]

Init ==
    /\ phase = "idle"
    /\ declared = Nothing /\ packed = <<>> /\ at = 0
    /\ names = <<>> /\ seen = {}
    /\ refusal = NoError
    /\ held = <<>>
    /\ crossed = Nothing

-----------------------------------------------------------------------------
(* An entry's header: the month's byte, 0 for an undefined month, then the *)
(* name's length (le32's four bytes, one cell here: names are shorter than *)
(* the uint32 NewMonthNames narrows a length to).                          *)
Header == 2

PackedEntry(n) ==
    <<IF n.month \in Month THEN n.month ELSE 0, Len(n.name)>> \o n.name

Pack(entries) == FlattenSeq([i \in DOMAIN entries |-> PackedEntry(entries[i])])

Folded(name, fold) == [i \in DOMAIN name |-> fold[name[i]]]

(* judgeMonthNames's loop is at an entry: what of it is in the bytes.      *)
Remaining == Len(packed) - at
Length == packed[at + 2]

Whole == Remaining >= Header /\ Length <= Remaining - Header
EntryMonth == packed[at + 1]
EntryName == SubSeq(packed, at + Header + 1, at + Header + Length)
Entry == Len(names)

(* A refused vocabulary is the zero MonthNames, and Nothing the month of a *)
(* rule that is not about one.                                             *)
Refuse(rule, month) ==
    /\ phase' = "judged"
    /\ refusal' = [rule |-> rule, entry |-> Entry, month |-> month]
    /\ held' = <<>>
    /\ UNCHANGED <<declared, packed, at, names, seen, crossed>>

MayJudge == phase = "judging" /\ at < Len(packed)

EntryCutShort == MayJudge /\ ~Whole /\ Refuse("cutShort", Nothing)

MonthUndefined ==
    /\ MayJudge /\ Whole
    /\ EntryMonth \notin Month
    /\ Refuse("month", IF declared = Nothing THEN EntryMonth ELSE declared[Entry + 1].month)

MonthDefined == MayJudge /\ Whole /\ EntryMonth \in Month

NameNotUTF8 ==
    /\ MonthDefined
    /\ Range(EntryName) \cap NotUTF8 # {}
    /\ Refuse("utf8", Nothing)

NameLength ==
    /\ MonthDefined
    /\ Range(EntryName) \cap NotUTF8 = {}
    /\ EntryName = <<>> \/ Len(EntryName) > MaxMonthNameBytes
    /\ Refuse("length", Nothing)

NameSpelt ==
    /\ MonthDefined
    /\ Range(EntryName) \cap NotUTF8 = {}
    /\ Len(EntryName) \in 1 .. MaxMonthNameBytes

NameCharacters ==
    NameSpelt /\ Range(EntryName) \cap Refused # {} /\ Refuse("characters", Nothing)

(* Mutant: a name is compared with the one before it only.                 *)
FoldsToLast ==
    names # <<>> /\ Folded(Last(names), GoFold) = Folded(EntryName, GoFold)

FoldsToEarlier ==
    \E j \in DOMAIN names : Folded(names[j], GoFold) = Folded(EntryName, GoFold)

NameDuplicate ==
    /\ NameSpelt /\ Range(EntryName) \cap Refused = {}
    /\ FoldsToEarlier
    /\ Refuse("duplicate", Nothing)

TakeEntry ==
    /\ NameSpelt /\ Range(EntryName) \cap Refused = {}
    /\ ~FoldsToEarlier
    /\ at' = at + Header + Length
    /\ names' = Append(names, EntryName)
    /\ seen' = seen \cup {EntryMonth}
    /\ UNCHANGED <<phase, declared, packed, refusal, held, crossed>>

AllRead == phase = "judging" /\ at >= Len(packed)

MonthUnnamed ==
    /\ AllRead /\ ~(Month \subseteq seen)
    /\ Refuse("unnamed", CHOOSE m \in Month \ seen : \A n \in Month \ seen : m <= n)

-----------------------------------------------------------------------------
(* The core's own judgement of a packed vocabulary (fn90): the entries it  *)
(* reads whole, and whether bytes are left of one cut short.               *)
End(bytes, i) == IF i + Header > Len(bytes) THEN Len(bytes) + 1 ELSE i + Header + bytes[i + 2]

EntriesFrom(bytes) ==
    LET read[i \in 0 .. Len(bytes)] ==
          IF End(bytes, i) > Len(bytes) THEN <<>>
          ELSE <<[month |-> bytes[i + 1],
                  name |-> SubSeq(bytes, i + Header + 1, End(bytes, i))]>>
               \o read[End(bytes, i)]
    IN  read

EntriesOf(bytes) == EntriesFrom(bytes)[0]

CutShort(bytes) == Pack(EntriesOf(bytes)) # bytes

Distinct(entries, fold) ==
    \A i, j \in DOMAIN entries :
        Folded(entries[i].name, fold) = Folded(entries[j].name, fold) => i = j

Key(entry) == Hash(Folded(entry.name, CoreFold))

(* Mutant: a name whose hash is in no slot is taken for new.               *)
CoreDuplicateInSlots(earlier, entry) ==
    \E i \in DOMAIN earlier :
        /\ i <= Slots /\ Key(earlier[i]) = Key(entry)
        /\ Folded(earlier[i].name, CoreFold) = Folded(entry.name, CoreFold)

(* The first Slots names keep their hash: a name is compared in full with  *)
(* those of its own hash and, there being more names than slots, with each *)
(* that has none.                                                          *)
CoreDuplicate(earlier, entry) ==
    \E i \in DOMAIN earlier :
        /\ i <= Slots => Key(earlier[i]) = Key(entry)
        /\ Folded(earlier[i].name, CoreFold) = Folded(entry.name, CoreFold)

(* The rules of an entry, in the order the core tries them.                *)
CoreRules == <<"month", "utf8", "length", "characters", "duplicate">>

CoreBreaks(entries, i, rule) ==
    LET name == entries[i].name IN
    \/ rule = "month" /\ entries[i].month \notin Month
    \/ rule = "utf8" /\ Range(name) \cap NotUTF8 # {}
    \/ rule = "length" /\ Len(name) \notin 1 .. MaxMonthNameBytes
    \/ rule = "characters" /\ Range(name) \cap Refused # {}
    \/ rule = "duplicate" /\ CoreDuplicate(SubSeq(entries, 1, i - 1), entries[i])

(* The first rule broken, in reading order, or "accepted".                 *)
CoreJudges(bytes) ==
    LET entries == EntriesOf(bytes)
        faulty == { i \in DOMAIN entries :
                      \E k \in DOMAIN CoreRules : CoreBreaks(entries, i, CoreRules[k]) }
    IN  IF faulty # {}
        THEN CoreRules[Min({ k \in DOMAIN CoreRules :
                               CoreBreaks(entries, Min(faulty), CoreRules[k]) })]
        ELSE IF CutShort(bytes) THEN "cutShort"
        ELSE IF ~(Month \subseteq { entries[i].month : i \in DOMAIN entries }) THEN "unnamed"
        ELSE "accepted"

CoreAccepts(bytes) == CoreJudges(bytes) = "accepted"

(* coreAcceptsVocabulary backs the rules above up.                         *)
CoreRefuses == AllRead /\ Month \subseteq seen /\ ~CoreAccepts(packed) /\ Refuse("core", Nothing)

Accepted ==
    /\ AllRead /\ Month \subseteq seen
    /\ CoreAccepts(packed)
    /\ phase' = "judged"
    /\ held' = packed
    /\ UNCHANGED <<declared, packed, at, names, seen, refusal, crossed>>

NewMonthNames(entries) ==
    /\ phase' = "judging"
    /\ declared' = entries
    /\ packed' = Pack(entries)
    /\ UNCHANGED <<at, names, seen, refusal, held, crossed>>

MonthNamesFromPacked(bytes) ==
    /\ phase' = "judging"
    /\ packed' = bytes
    /\ UNCHANGED <<declared, at, names, seen, refusal, held, crossed>>

-----------------------------------------------------------------------------
(* dateCall under DateOptions of these shapes and pivot and the vocabulary *)
(* held: nil or zero options cross as null, and a vocabulary only to the   *)
(* two doors that read one.                                                *)
OptionsValid(shapes, pivot) ==
    shapes # "undefined" /\ (pivot = 0 \/ pivot \in LowPivot .. HighPivot)

ReadsVocabulary == {"dateOrdered", "dateTime"}

VocabFor(door) == IF door \in ReadsVocabulary THEN held ELSE <<>>

(* Mutant: options of no shapes and no pivot cross as null, the vocabulary *)
(* with them.                                                              *)
ZeroBesideMonths(shapes, pivot) == shapes = "none" /\ pivot = 0

ZeroOptions(shapes, pivot) == shapes = "none" /\ pivot = 0 /\ held = <<>>

DateCall(door, shapes, pivot) ==
    /\ phase = "judged" /\ crossed = Nothing
    /\ crossed' =
         IF ZeroOptions(shapes, pivot)
         THEN [door |-> door, options |-> Nothing, vocab |-> <<>>]
         ELSE IF ~OptionsValid(shapes, pivot) THEN Panic
         ELSE [door |-> door, options |-> [shapes |-> shapes, pivot |-> pivot],
               vocab |-> VocabFor(door)]
    /\ UNCHANGED <<phase, declared, packed, at, names, seen, refusal, held>>

Next ==
    \/ phase = "idle" /\ \E entries \in Declarations : NewMonthNames(entries)
    \/ phase = "idle" /\ \E bytes \in Packings : MonthNamesFromPacked(bytes)
    \/ EntryCutShort \/ MonthUndefined \/ NameNotUTF8 \/ NameLength \/ NameCharacters
    \/ NameDuplicate \/ TakeEntry \/ MonthUnnamed \/ CoreRefuses \/ Accepted
    \/ \E door \in DateDoor, shapes \in Shapes, pivot \in Pivots :
          DateCall(door, shapes, pivot)

Spec == Init /\ [][Next]_vars

-----------------------------------------------------------------------------
(* What the doc of NewMonthNames asks of one entry, read off the entries   *)
(* and not off the bytes.                                                  *)
EntryFaulty(entries, i) ==
    LET name == entries[i].name IN
    \/ entries[i].month \notin Month
    \/ Range(name) \cap (NotUTF8 \cup Refused) # {}
    \/ Len(name) \notin 1 .. MaxMonthNameBytes
    \/ \E j \in 1 .. i - 1 : Folded(entries[j].name, GoFold) = Folded(name, GoFold)

Judged == phase = "judged"
IsAccepted == Judged /\ refusal.rule = "none"

(* judgeMonthNames is "the core's judgement of a packed vocabulary, rule   *)
(* by rule in the core's order" (dates.go): of any bytes, lying lengths    *)
(* and entries cut short included, the two accept the same and name the    *)
(* same first rule, but for a name that only the core folds to another -   *)
(* which is refused too.  The core's slots hide no duplicate.              *)
JudgesAsTheCoreDoes ==
    Judged =>
        LET rule == CoreJudges(packed)
            entries == EntriesOf(packed)
            foldsInCore == \E i, j \in DOMAIN entries :
                /\ Folded(entries[i].name, CoreFold) = Folded(entries[j].name, CoreFold)
                /\ Folded(entries[i].name, GoFold) # Folded(entries[j].name, GoFold)
        IN  /\ refusal.rule = "none" <=> rule = "accepted"
            /\ refusal.rule # "none" => refusal.rule = rule \/ (foldsInCore /\ rule = "duplicate")

(* NewMonthNames names the first entry that breaks a rule, in reading      *)
(* order, and the month as the caller declared it; no entry breaking one,  *)
(* it names the first month left out (judgeMonthNames).                    *)
ErrorNamesTheFirst ==
    Judged /\ declared # Nothing =>
        LET faulty == { i \in DOMAIN declared : EntryFaulty(declared, i) }
            unnamed == Month \ { declared[i].month : i \in DOMAIN declared }
        IN  IF faulty # {}
            THEN /\ refusal.rule \notin {"none", "cutShort", "unnamed", "core"}
                 /\ refusal.entry + 1 \in faulty
                 /\ \A i \in faulty : refusal.entry < i
                 /\ refusal.rule = "month" => refusal.month = declared[refusal.entry + 1].month
                 /\ refusal.rule # "month" => declared[refusal.entry + 1].month \in Month
            ELSE unnamed # {} => /\ refusal.rule = "unnamed"
                                 /\ refusal.month \in unnamed
                                 /\ \A m \in unnamed : refusal.month <= m

(* A declared vocabulary that is accepted holds the entries declared, and  *)
(* declared or packed, every month is named and every name means one       *)
(* month.  The two doors that read a vocabulary get the caller's whole,    *)
(* whatever options go with it, and the others none (dateCall); no door    *)
(* hands the core one it would refuse (judgeMonthNames's "so no door ever  *)
(* sends one").                                                            *)
DoorsSendWhatWasDeclared ==
    /\ IsAccepted =>
          LET entries == EntriesOf(held) IN
          /\ declared # Nothing => entries = declared
          /\ { entries[i].month : i \in DOMAIN entries } = Month
          /\ Distinct(entries, GoFold)
    /\ crossed \notin {Nothing, Panic} =>
          /\ crossed.door \in ReadsVocabulary => crossed.vocab = held
          /\ crossed.door \notin ReadsVocabulary => crossed.vocab = <<>>
          /\ crossed.vocab # <<>> => crossed.options # Nothing /\ CoreAccepts(crossed.vocab)
          /\ crossed.options # Nothing =>
                OptionsValid(crossed.options.shapes, crossed.options.pivot)

=============================================================================
