----------------------------- MODULE DecimalText -----------------------------
(***************************************************************************)
(* Decimal.String (go/cast.go): the canonical text, written digit by digit *)
(* from the end of a fixed buffer, the magnitude divided a word at a time. *)
(***************************************************************************)
EXTENDS Integers, Sequences, Powers

CONSTANTS
    Word,              \* 2^64: what the low word holds
    HighWord,          \* 2^32: what the high word holds
    MaxScale,          \* 28
    BufferLength,      \* 40
    Minus, Point,      \* the characters that are not digits
    Unwritten          \* what a place of the buffer holds at first

Digit == 0 .. 9

(* The buffer has room for every magnitude's digits, for a 0 in front of   *)
(* MaxScale of them, and for a sign and a point.                           *)
ASSUME DecimalAssumption ==
    /\ Word \in Nat \ {0} /\ HighWord \in Nat \ {0}
    /\ MaxScale \in Nat /\ BufferLength \in Nat
    /\ MaxScale + 3 <= BufferLength /\ Word * HighWord <= Tens[BufferLength - 2]
    /\ Minus \notin Digit

Magnitude(high, low) == high * Word + low

(* What the core answers with, zero never negative, and the scales that    *)
(* are not minimal, which a caller may write in a literal.                 *)
Decimals ==
    { d \in [Hi : 0 .. HighWord - 1, Lo : 0 .. Word - 1, Scale : 0 .. MaxScale,
             Negative : BOOLEAN] : d.Negative => Magnitude(d.Hi, d.Lo) # 0 }

VARIABLES
    d,                 \* the Decimal
    stage,             \* "digits", "zeros", "point", "sign", "done"
    hi, lo,            \* what is left of its magnitude
    digits,            \* the digits written
    n,                 \* where in the buffer the text begins
    buf                \* the buffer, from 0

vars == <<d, stage, hi, lo, digits, n, buf>>

Init ==
    /\ d \in Decimals
    /\ stage = "digits"
    /\ hi = d.Hi /\ lo = d.Lo
    /\ digits = 0
    /\ n = BufferLength
    /\ buf = [i \in 0 .. BufferLength - 1 |-> Unwritten]

-----------------------------------------------------------------------------
(* bits.Div64(high, low, 10) needs its high word below the divisor.        *)
Div64(high, low) ==
    [quotient |-> Magnitude(high, low) \div 10, remainder |-> Magnitude(high, low) % 10]

(* Mutant: the high half's remainder is not carried down.                  *)
ByTenHalves(high, low) ==
    LET high_ == Div64(0, high)
        low_ == Div64(0, low)
    IN  [hi |-> high_.quotient, lo |-> low_.quotient, digit |-> low_.remainder]

ByTen(high, low) ==
    LET high_ == Div64(0, high)
        low_ == Div64(high_.remainder, low)
    IN  [hi |-> high_.quotient, lo |-> low_.quotient, digit |-> low_.remainder]

Put(character) == n' = n - 1 /\ buf' = [buf EXCEPT ![n - 1] = character]

WriteDigit ==
    /\ stage = "digits" /\ ~(digits # 0 /\ hi = 0 /\ lo = 0)
    /\ LET divided == ByTen(hi, lo) IN
       hi' = divided.hi /\ lo' = divided.lo /\ Put(divided.digit)
    /\ digits' = digits + 1
    /\ UNCHANGED <<d, stage>>

Go(from, to) == stage = from /\ stage' = to

DigitsDone ==
    /\ digits # 0 /\ hi = 0 /\ lo = 0
    /\ Go("digits", "zeros")
    /\ UNCHANGED <<d, hi, lo, digits, n, buf>>

ShortOfPoint == digits <= d.Scale

WriteZero ==
    /\ stage = "zeros" /\ ShortOfPoint
    /\ Put(0)
    /\ digits' = digits + 1
    /\ UNCHANGED <<d, stage, hi, lo>>

ZerosDone ==
    /\ ~ShortOfPoint
    /\ Go("zeros", "point")
    /\ UNCHANGED <<d, hi, lo, digits, n, buf>>

(* The whole digits move one place down to make room for the point.        *)
PlacePoint ==
    /\ Go("point", "sign")
    /\ LET point == BufferLength - d.Scale IN
       IF d.Scale = 0 THEN UNCHANGED <<n, buf>>
       ELSE /\ n' = n - 1
            /\ buf' = [i \in DOMAIN buf |->
                         IF i \in n - 1 .. point - 2 THEN buf[i + 1]
                         ELSE IF i = point - 1 THEN Point ELSE buf[i]]
    /\ UNCHANGED <<d, hi, lo, digits>>

PlaceSign ==
    /\ Go("sign", "done")
    /\ IF d.Negative THEN Put(Minus) ELSE UNCHANGED <<n, buf>>
    /\ UNCHANGED <<d, hi, lo, digits>>

Next == WriteDigit \/ DigitsDone \/ WriteZero \/ ZerosDone \/ PlacePoint \/ PlaceSign

Spec == Init /\ [][Next]_vars

-----------------------------------------------------------------------------
(* What count digits of b, from first on, stand for.                       *)
Number(b, first, count) ==
    LET value[k \in 0 .. count] == IF k = 0 THEN 0 ELSE value[k - 1] * 10 + b[first + k - 1]
    IN  value[count]

(* The text is canonical and reads back as the Decimal: a sign only for a  *)
(* negative one, whole digits without a leading zero but the one before    *)
(* the point, and Scale digits after it (the doc's "1234.5", "-0.025"). It *)
(* starts inside the buffer, whatever the magnitude and the scale.         *)
ReadsBack ==
    stage = "done" => n >= 0 /\
        LET whole == n + (IF d.Negative THEN 1 ELSE 0)
            point == BufferLength - d.Scale
            end == IF d.Scale = 0 THEN BufferLength ELSE point - 1
        IN  /\ d.Negative <=> buf[n] = Minus
            /\ d.Scale # 0 => buf[point - 1] = Point
            /\ whole < end
            /\ \A i \in (whole .. end - 1) \cup (point .. BufferLength - 1) : buf[i] \in Digit
            /\ buf[whole] = 0 => whole = end - 1
            /\ Number(buf, whole, end - whole) * Tens[d.Scale] + Number(buf, point, d.Scale)
                  = Magnitude(d.Hi, d.Lo)
=============================================================================
