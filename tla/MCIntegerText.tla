---------------------------- MODULE MCIntegerText ----------------------------
(***************************************************************************)
(* Texts typed piece by piece under a few notations, each with the pieces  *)
(* it is made of, and read after every piece. Three characters of more     *)
(* than one byte: a no-break space, a minus sign and a native digit.       *)
(***************************************************************************)
EXTENDS IntegerText, TLC

MCLeast == -131072
MCWhite == {" ", "nbsp"}
MCWide == {"nbsp", "minus", "two"}
MCNativeDigit == [c \in {"two"} |-> 2]

(* A format that declares nothing but its separators.                      *)
Plain == [ Styles |-> {"grouping", "parentheses", "exponent", "radix", "currency"},
           policy |-> "western", DecimalSep |-> ".", GroupSep |-> ",",
           CurrencyDecimalSep |-> None, CurrencyGroupSep |-> None,
           Currency |-> <<>>, MinusSign |-> <<>>, PlusSign |-> <<>>, native |-> FALSE ]

Notation(format, pieces, room) == [format |-> format, pieces |-> pieces, room |-> room]

One(c) == <<c>>
Hundred == <<"1", "0", "0">>

Detection ==
    Notation([Plain EXCEPT !.Styles = @ \cup {"detect"}, !.Currency = <<"$">>],
             { One("0"), Hundred, One("1"), One(","), One("."), One("-"), One("$") }, 5)

MCDetection == {Detection}

MCNotations == {
    \* accounting, with trailing signs
    Notation([Plain EXCEPT !.Styles = @ \cup {"trailingSign"}, !.Currency = <<"$">>],
             { One("1"), Hundred, One(","), One("$"), One("-"), One("("), One(")") }, 5),
    \* money grouped apart from numbers
    Notation([Plain EXCEPT !.policy = "indian", !.Currency = <<"k", "r">>,
                           !.CurrencyDecimalSep = ",", !.CurrencyGroupSep = "nbsp"],
             { One("1"), <<"2", "3">>, Hundred, One(","), One("nbsp"), One(" "), <<"k", "r">> }, 5),
    \* signs and digits of its own
    Notation([Plain EXCEPT !.Styles = @ \cup {"trailingSign"}, !.MinusSign = <<"minus">>,
                           !.GroupSep = " ", !.native = TRUE],
             { One("1"), One("two"), Hundred, One("nbsp"), One("minus"), One("+"), One("e") }, 5),
    Detection,
    \* bits and exponents
    Notation(Plain, { One("0"), One("1"), Hundred, One("x"), One("e"), One("+"), One(",") }, 5) }
=============================================================================
