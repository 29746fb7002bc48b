---------------------------- MODULE MCConstraints ----------------------------
(***************************************************************************)
(* The rules for TLC: for each kind, the values at which its door's or its *)
(* core's judgement turns.                                                 *)
(***************************************************************************)
EXTENDS Constraints

CONSTANTS a, A, lead, cont, blank, bad

(* Texts: numerals in tenths, and words.                                   *)
Numeral(n) == [decimal |-> n, bytes |-> <<n>>]
Word(bytes) == [decimal |-> NotADecimal, bytes |-> bytes]

MCFolding == (A :> a)

(* Floats are four tenths apart, a tie going to the even one, up to 52.    *)
MCFloatOf ==
    [n \in -30..60 |->
        LET low == n \div 4
            twice == 2 * (n % 4)
            near == IF twice > 4 \/ (twice = 4 /\ low % 2 = 1) THEN low + 1 ELSE low
        IN  IF 4 * near \in -52..52 THEN 4 * near ELSE Infinite]

Blank == [kind |-> ZeroKind, text |-> Nothing, length |-> 0, rounding |-> 0,
          entries |-> <<>>, numbers |-> FALSE]

BoundRule(kind, n) == [Blank EXCEPT !.kind = kind, !.text = Numeral(n)]
LengthRule(kind, n) == [Blank EXCEPT !.kind = kind, !.length = n]
RoundingRule(mode) == [Blank EXCEPT !.kind = "rounding", !.rounding = mode]
EnumRule(entries, numbers) ==
    [Blank EXCEPT !.kind = "enum", !.entries = entries, !.numbers = numbers]

MCRules ==
    { Blank, [Blank EXCEPT !.kind = "trim"],
      [Blank EXCEPT !.kind = "maximum", !.text = Word(<<a>>)] }
    \cup { BoundRule("minimum", n) : n \in {0, 5, 10} }
    \cup { BoundRule("exclusiveMinimum", 0), BoundRule("maximum", 20),
           BoundRule("maximum", 40), BoundRule("exclusiveMaximum", 5) }
    \cup { BoundRule("multipleOf", n) : n \in {0, 20} }
    \cup { RoundingRule(mode) : mode \in 0..4 }
    \cup { LengthRule("minLength", n) : n \in {-1, 3} }
    \cup { LengthRule("maxLength", n) : n \in {2, MaxUint32, MaxUint32 + 1} }
    \cup { EnumRule(e, FALSE) : e \in { <<>>, <<Word(<<a>>), Word(<<a, lead, cont>>)>>,
                                        <<Word(<<a>>), Word(<<A>>)>>, <<Word(<<a, blank>>)>>,
                                        <<Word(<<>>)>>, <<Word(<<bad>>)>>, <<Numeral(10)>> } }
    \cup { EnumRule(<<Numeral(10), Numeral(20)>>, TRUE) }

MCIntegerRange == 0..30
MCDecimalRange == -30..30

MCNumbers == {-10, 0, 1, 5, 10, 20, 30, 50}

MCTexts == { <<>>, <<blank>>, <<A>>, <<blank, a>>, <<a, lead, cont>>, <<A, lead, cont, blank>>,
             <<a, a, a>>, <<a, bad>> }
=============================================================================
