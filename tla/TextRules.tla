------------------------------ MODULE TextRules ------------------------------
(***************************************************************************)
(* How the core (internal/core/core.go, as translated) judges a text by    *)
(* the rules declared at the text door, and reads its enum list back from  *)
(* the bytes it crossed as.                                                *)
(***************************************************************************)
EXTENDS NumberRules, SequencesExt

CONSTANTS
    White,             \* the code points of Unicode White_Space, as bytes
    Continuation,      \* bytes of a code point after its first
    Invalid,           \* bytes no UTF-8 has
    Folding            \* Unicode's simple case folding, where it changes a byte

(* Folding takes a code point to a code point.                             *)
ASSUME FoldingAssumption ==
    \A byte \in DOMAIN Folding : byte \in Continuation <=> Folding[byte] \in Continuation

Utf8(s) == ToSet(s) \cap Invalid = {}

Fold(s) == [i \in DOMAIN s |-> IF s[i] \in DOMAIN Folding THEN Folding[s[i]] ELSE s[i]]

Ink(s) == { i \in DOMAIN s : s[i] \notin White }

Trimmed(s) == IF Ink(s) = {} THEN <<>> ELSE SubSeq(s, Min(Ink(s)), Max(Ink(s)))

(* Mutant: bytes are counted.                                              *)
CountBytes(s) == Len(s)

CodePoints(s) == Cardinality({ i \in DOMAIN s : s[i] \notin Continuation })

(* The packed list: a length and that many bytes for each entry.           *)
EntriesOf(packed) ==
    LET read[at \in Nat \ {0}] ==
          IF at > Len(packed) THEN <<>>
          ELSE <<SubSeq(packed, at + 1, at + packed[at])>> \o read[at + 1 + packed[at]]
    IN  read[1]

(* The entries that text matches.                                          *)
Matching(c, text) ==
    LET entries == IF "enum" \in c.flags THEN EntriesOf(c.packedText) ELSE <<>>
    IN  { i \in DOMAIN entries : Fold(entries[i]) = Fold(text) }

(* The judgement of a text: the first rule it breaks, in the core's order, *)
(* or the part of it after trimming and the enum entry matched.            *)
JudgeText(c, given) ==
    LET text == IF "trim" \in c.flags THEN Trimmed(given) ELSE given
        points == CodePoints(text)
    IN  IF given = <<>> THEN Faults("Empty")
        ELSE IF ~Utf8(given) THEN Faults("Malformed")
        ELSE IF text = <<>> THEN Faults("Empty")
        ELSE IF "minLength" \in c.flags /\ points < c.minLength THEN Breaks("minLength")
        ELSE IF "maxLength" \in c.flags /\ points > c.maxLength THEN Breaks("maxLength")
        ELSE IF "enum" \in c.flags /\ Matching(c, text) = {} THEN Breaks("enum")
        ELSE Delivers(text, FALSE,
                      IF Matching(c, text) = {} THEN NoEntry ELSE Min(Matching(c, text)))
=============================================================================
