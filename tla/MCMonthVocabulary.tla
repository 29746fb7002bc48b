-------------------------- MODULE MCMonthVocabulary --------------------------
(***************************************************************************)
(* Vocabularies for TLC: two months, names to one byte past the longest,   *)
(* of every kind of byte; packings of every shape to two entries and more. *)
(***************************************************************************)
EXTENDS MonthVocabulary

(* a and A fold alike everywhere; 75 and 107 only as the core folds; 48 is *)
(* a digit, 200 never UTF-8. 0 to 3 are the headers' bytes.               *)
MCByte == {0, 1, 2, 3, 48, 65, 97, 75, 107, 200}
MCGoFold == [b \in MCByte |-> IF b = 65 THEN 97 ELSE b]
MCCoreFold == [b \in MCByte |-> CASE b = 65 -> 97 [] b = 75 -> 107 [] OTHER -> b]

(* Names of one length share a hash.                                       *)
MCHash(name) == Len(name)

Name == { <<>>, <<97>>, <<65>>, <<97, 97>>, <<97, 97, 97>>, <<48>>, <<75>>, <<107>>,
          <<97, 200>> }

MonthNameEntry == [month : {-1, 1, 2, 257}, name : Name]

MCDeclarations == UNION { [1 .. n -> MonthNameEntry] : n \in 0 .. 3 }

Packable == {0, 1, 2, 97, 200}
MCPackings == UNION { [1 .. n -> Packable] : n \in 0 .. 6 }
=============================================================================
