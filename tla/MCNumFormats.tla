----------------------------- MODULE MCNumFormats -----------------------------
(***************************************************************************)
(* Symbols for TLC: slots of two, three and three bytes, and symbols of    *)
(* each kind of code point to one past a slot, where a length byte starts  *)
(* over.                                                                   *)
(***************************************************************************)
EXTENDS NumFormats

CONSTANTS letter, dot, comma, digit, space, wide, wideSpace, bad

MCWidth == [p \in {letter, dot, comma, digit, space, wide, wideSpace, bad} |->
              IF p \in {wide, wideSpace} THEN 2 ELSE 1]
MCDot == <<dot>>
MCComma == <<comma>>
MCSymbols == { <<>>, <<dot>>, <<comma>>, <<letter>>, <<digit>>, <<space>>, <<wide>>, <<wideSpace>>,
               <<bad>>, <<letter, wide>>, <<letter, space>>, <<letter, digit>>, <<wide, wide>>,
               <<letter, space, letter>>, <<letter, wideSpace>>, <<letter, letter, letter, letter>> }

(* None, an ASCII zero, the Arabic-Indic zero, the last that shares its    *)
(* prefix with nine more, the first that does not, a surrogate.            *)
MCDigitZeros == {0, 48, 1632, 2038, 2039, 55296}
=============================================================================
