-------------------------- MODULE IntegerTextProofs --------------------------
(***************************************************************************)
(* Theorems about the integer doors' grammar.                              *)
(***************************************************************************)
EXTENDS IntegerText, SequenceLemmas, TLAPS

(* Characters.                                                             *)
Ascii == DOMAIN AsciiDigit

LEMMA DigitsAre ==
    /\ \A c \in Ascii : AsciiDigit[c] \in 0 .. 9
    /\ {"-", "+", "(", ")"} \cap Ascii = {}
<1> DEFINE order == <<"0", "1", "2", "3", "4", "5", "6", "7", "8", "9", "a", "b", "c", "d", "e", "f">>
<1>1. HexDigit = [c \in ToSet(order) |-> (CHOOSE i \in DOMAIN order : order[i] = c) - 1]
  BY DEF HexDigit
<1>2. ToSet(order) = { order[i] : i \in DOMAIN order }
  BY DEF ToSet
<1>3. \A i \in DOMAIN order : order[i] \notin {"-", "+", "(", ")"}
  OBVIOUS
<1>4. DOMAIN order \subseteq Nat \ {0}
  OBVIOUS
<1> HIDE DEF order
<1>5. ASSUME NEW c \in Ascii
      PROVE  /\ c \in ToSet(order) /\ HexDigit[c] < 10
             /\ AsciiDigit[c] = HexDigit[c]
  BY <1>1 DEF Ascii, AsciiDigit
<1>6. ASSUME NEW c \in ToSet(order) PROVE HexDigit[c] \in Nat
  <2>1. \E i \in DOMAIN order : order[i] = c  BY <1>2
  <2>2. (CHOOSE i \in DOMAIN order : order[i] = c) \in DOMAIN order  BY <2>1
  <2>3. QED  BY <1>1, <1>4, <2>2
<1>7. \A c \in Ascii : AsciiDigit[c] \in 0 .. 9
  BY <1>5, <1>6
<1>8. QED  BY <1>2, <1>3, <1>5, <1>7

-----------------------------------------------------------------------------
(* Windows.                                                                *)
Inside(w, t) == w = Window(w.lo, w.hi) /\ w.lo \in Nat \ {0} /\ w.hi \in Nat /\ w.hi <= Len(t)

LEMMA WindowIs ==
    ASSUME NEW lo, NEW hi
    PROVE  Window(lo, hi).lo = lo /\ Window(lo, hi).hi = hi
BY DEF Window

(* Trimming moves an edge only past white space.                           *)
LEMMA TrimStartKeeps ==
    ASSUME NEW t, NEW lo \in Nat, NEW hi \in Nat, lo <= hi, t[lo] \notin White
    PROVE  TrimStart(t, Window(lo, hi)) = Window(lo, hi)
<1> DEFINE w == Window(lo, hi)
           S == Ink(t, w)
<1>1. w.lo = lo /\ w.hi = hi  BY DEF Window
<1>2. lo \in S /\ \A i \in S : lo <= i /\ i \in Nat  BY <1>1 DEF Ink
<1> HIDE DEF S
<1>3. Min(S) = lo
  <2>1. S \subseteq Nat /\ S # {}  BY <1>2
  <2>2. Min(S) \in S /\ \A i \in S : Min(S) <= i  BY <2>1, MinIsLeast
  <2>3. Min(S) \in Nat /\ lo <= Min(S) /\ Min(S) <= lo  BY <1>2, <2>2
  <2>4. QED  BY <2>3
<1>4. [w EXCEPT !.lo = lo] = w  BY DEF Window
<1> HIDE DEF w
<1>5. QED  BY <1>2, <1>3, <1>4 DEF TrimStart, S, w

LEMMA TrimEndKeeps ==
    ASSUME NEW t, NEW lo \in Nat, NEW hi \in Nat, lo <= hi, t[hi] \notin White
    PROVE  TrimEnd(t, Window(lo, hi)) = Window(lo, hi)
<1> DEFINE w == Window(lo, hi)
           S == Ink(t, w)
<1>1. w.lo = lo /\ w.hi = hi  BY DEF Window
<1>2. hi \in S /\ \A i \in S : i <= hi /\ i \in Nat  BY <1>1 DEF Ink
<1> HIDE DEF S
<1>3. Max(S) = hi
  <2>1. S \subseteq 0 .. hi /\ S # {}  BY <1>2
  <2>2. Max(S) \in S /\ \A i \in S : i <= Max(S)  BY <2>1, MaxIsGreatest
  <2>3. Max(S) \in Nat /\ hi <= Max(S) /\ Max(S) <= hi  BY <1>2, <2>2
  <2>4. QED  BY <2>3
<1>4. [w EXCEPT !.hi = hi] = w  BY DEF Window
<1> HIDE DEF w
<1>5. QED  BY <1>2, <1>3, <1>4 DEF TrimEnd, S, w

LEMMA TrimKeeps ==
    ASSUME NEW t, NEW lo \in Nat, NEW hi \in Nat, lo <= hi,
           t[lo] \notin White, t[hi] \notin White
    PROVE  Trim(t, Window(lo, hi)) = Window(lo, hi)
BY TrimStartKeeps, TrimEndKeeps DEF Trim

(* What is left of a text, trimmed, lies in it.                            *)
LEMMA TrimInside ==
    ASSUME NEW t \in Seq(STRING)
    PROVE  Inside(Trim(t, Window(1, Len(t))), t)
<1> DEFINE w == Window(1, Len(t))
           S == Ink(t, w)
           v == TrimStart(t, w)
           R == Ink(t, v)
<1>0. Len(t) \in Nat  OBVIOUS
<1>1. w.lo = 1 /\ w.hi = Len(t)  BY DEF Window
<1>2. S \subseteq 1 .. Len(t)  BY <1>1 DEF Ink
<1>3. v = [w EXCEPT !.lo = IF S = {} THEN w.hi + 1 ELSE Min(S)]  BY DEF TrimStart
<1>4. S # {} => Min(S) \in S
  <2>1. S \subseteq Nat  BY <1>0, <1>2
  <2> HIDE DEF S
  <2>2. QED  BY <2>1, MinIsLeast
<1> HIDE DEF S
<1>5. /\ v = Window(v.lo, v.hi) /\ v.lo \in Nat \ {0} /\ v.hi = Len(t)
      /\ v.lo <= Len(t) + 1
  <2>1. v.hi = Len(t) /\ v.lo = (IF S = {} THEN Len(t) + 1 ELSE Min(S)) /\ v = Window(v.lo, v.hi)
    BY <1>1, <1>3 DEF Window
  <2> HIDE DEF v
  <2>2. S # {} => Min(S) \in Nat /\ 1 <= Min(S) /\ Min(S) <= Len(t)
    <3>1. S # {} => Min(S) \in 1 .. Len(t)  BY <1>2, <1>4
    <3>2. QED  BY <1>0, <3>1
  <2>3. v.lo \in Nat \ {0} /\ v.lo <= Len(t) + 1  BY <1>0, <2>1, <2>2
  <2>4. QED  BY <2>1, <2>3
<1> HIDE DEF v
<1>6. R \subseteq v.lo .. Len(t)  BY <1>5 DEF Ink
<1>7. R # {} => Max(R) \in R
  <2>1. R \subseteq 0 .. Len(t)  BY <1>0, <1>5, <1>6
  <2> HIDE DEF R
  <2>2. QED  BY <1>0, <2>1, MaxIsGreatest
<1> DEFINE u == [v EXCEPT !.hi = IF R = {} THEN v.lo - 1 ELSE Max(R)]
<1>8. u = Trim(t, w)  BY DEF Trim, TrimEnd, v
<1> HIDE DEF R
<1>9. /\ u = Window(u.lo, u.hi) /\ u.lo = v.lo
      /\ u.hi = IF R = {} THEN v.lo - 1 ELSE Max(R)
  BY <1>5 DEF Window
<1> HIDE DEF u
<1>10. u.hi \in Nat /\ u.hi <= Len(t)
  <2>1. R # {} => Max(R) \in Nat /\ Max(R) <= Len(t)
    <3>1. R # {} => Max(R) \in v.lo .. Len(t)  BY <1>6, <1>7
    <3>2. QED  BY <1>0, <1>5, <3>1
  <2>2. v.lo - 1 \in Nat /\ v.lo - 1 <= Len(t)  BY <1>0, <1>5
  <2>3. QED  BY <1>9, <2>1, <2>2
<1>11. Inside(u, t)  BY <1>5, <1>9, <1>10 DEF Inside
<1>12. QED  BY <1>8, <1>11

-----------------------------------------------------------------------------
(* What digits stand for, as the scan and the shortcuts count them.        *)
Counts(val, t, lo, hi) ==
    /\ val \in [lo - 1 .. hi -> Nat] /\ val[lo - 1] = 0
    /\ \A i \in lo .. hi : val[i] = IF t[i] \in Ascii THEN Append10(val[i - 1], AsciiDigit[t[i]]) ELSE val[i - 1]

LEMMA AppendIsNat ==
    ASSUME NEW n \in Nat, NEW c \in Ascii
    PROVE  Append10(n, AsciiDigit[c]) \in Nat
BY DigitsAre, IntegerTextAssumption DEF Append10, TooMuch

LEMMA ValueUnfolds ==
    ASSUME NEW t, NEW w, w.lo \in Nat \ {0}, w.hi \in Nat, w.lo <= w.hi
    PROVE  \E val : Counts(val, t, w.lo, w.hi) /\ Value(t, w) = val[w.hi]
<1>0. PICK lo \in Nat \ {0}, hi \in Nat : lo = w.lo /\ hi = w.hi /\ lo <= hi  OBVIOUS
<1> DEFINE Next1(n, i) == IF t[i] \in Ascii THEN Append10(n, AsciiDigit[t[i]]) ELSE n
           step == [k \in Nat |-> [n \in Nat |-> Next1(n, lo + k)]]
           body(g) == [i \in w.lo - 1 .. w.hi |-> IF i < w.lo THEN 0 ELSE Next1(g[i - 1], i)]
           at == CHOOSE g : g = body(g)
<1>1. \A n \in Nat : \A i : Next1(n, i) \in Nat  BY AppendIsNat
<1> HIDE DEF Next1
<1>2. PICK r : Recurs(r, Nat, 0, step)
  <2>1. step \in [Nat -> [Nat -> Nat]] /\ 0 \in Nat  BY <1>1
  <2> HIDE DEF step
  <2>2. QED  BY <2>1, NatRecursion
<1>3. /\ r \in [Nat -> Nat] /\ r[0] = 0
      /\ \A k \in Nat : r[k + 1] = Next1(r[k], lo + k)
  BY <1>2 DEF Recurs
<1> DEFINE val == [i \in lo - 1 .. hi |-> r[i - (lo - 1)]]
<1>4. val \in [lo - 1 .. hi -> Nat] /\ val[lo - 1] = 0
  <2>1. \A i \in lo - 1 .. hi : i - (lo - 1) \in Nat  OBVIOUS
  <2>2. lo - 1 \in lo - 1 .. hi /\ (lo - 1) - (lo - 1) = 0  BY <1>0
  <2>3. QED  BY <1>3, <2>1, <2>2
<1>5. ASSUME NEW i \in lo .. hi PROVE val[i] = Next1(val[i - 1], i)
  <2> DEFINE k == i - lo
  <2>1. k \in Nat /\ i - (lo - 1) = k + 1 /\ (i - 1) - (lo - 1) = k /\ lo + k = i
        /\ i \in lo - 1 .. hi /\ i - 1 \in lo - 1 .. hi
    OBVIOUS
  <2> HIDE DEF k
  <2>2. val[i] = r[k + 1] /\ val[i - 1] = r[k]  BY <2>1
  <2>3. QED  BY <1>3, <2>1, <2>2
<1> HIDE DEF val
<1>6. val = body(val)
  <2>1. \A i \in lo - 1 .. hi : val[i] = IF i < lo THEN 0 ELSE Next1(val[i - 1], i)
    <3>1. ASSUME NEW i \in lo - 1 .. hi, i < lo PROVE val[i] = 0
      <4>1. i = lo - 1  BY <3>1
      <4>2. QED  BY <1>4, <4>1
    <3>2. ASSUME NEW i \in lo - 1 .. hi, ~(i < lo) PROVE i \in lo .. hi
      BY <3>2
    <3>3. QED  BY <1>5, <3>1, <3>2
  <2>2. QED  BY <1>0, <1>4, <2>1
<1>7. at = body(at)
  <2> HIDE DEF body, step
  <2>1. QED  BY <1>6
<1>8. Value(t, w) = at[w.hi]
  BY Zenon DEF Value, Next1, Ascii
<1> HIDE DEF at
<1>13. \A i \in lo - 1 .. hi : at[i] = IF i < lo THEN 0 ELSE Next1(at[i - 1], i)
  BY <1>0, <1>7
<1> HIDE DEF body, step
<1> DEFINE S == { i \in Int : at[i] = val[i] }
<1>9. \A i \in lo - 1 .. hi : at[i] = val[i]
  <2>1. lo - 1 \in S
    <3>1. lo - 1 \in lo - 1 .. hi /\ lo - 1 < lo  BY <1>0
    <3>2. QED  BY <1>4, <1>13, <3>1
  <2>2. ASSUME NEW i \in lo .. hi, i - 1 \in S PROVE i \in S
    <3>1. i \in lo - 1 .. hi /\ ~(i < lo)  BY <1>0
    <3>2. at[i] = Next1(at[i - 1], i) /\ val[i] = Next1(val[i - 1], i)  BY <1>5, <1>13, <3>1
    <3>3. QED  BY <2>2, <3>2
  <2> HIDE DEF S
  <2>3. \A i \in lo - 1 .. hi : i \in S  BY <2>1, <2>2, IntervalInd
  <2>4. QED  BY <2>3 DEF S
<1>10. Counts(val, t, lo, hi)  BY <1>4, <1>5 DEF Counts, Next1
<1>11. hi \in lo - 1 .. hi  BY <1>0
<1>12. Value(t, w) = val[hi]  BY <1>0, <1>8, <1>9, <1>11
<1>14. QED  BY <1>0, <1>10, <1>12

(* A digit more, below the next power of ten, is appended in full.         *)
LEMMA AppendPlain ==
    ASSUME NEW n \in Nat, NEW c \in Ascii, NEW power \in Nat, n < power, 10 * power <= MagnitudeMost
    PROVE  Append10(n, AsciiDigit[c]) \in Nat /\ Append10(n, AsciiDigit[c]) < 10 * power
<1> DEFINE d == AsciiDigit[c]
           room == (MagnitudeMost - d) \div 10
<1>1. d \in Nat /\ d <= 9  BY DigitsAre
<1>2. MagnitudeMost \in Nat  BY IntegerTextAssumption
<1> HIDE DEF d
<1>3. 10 * n + d <= MagnitudeMost /\ 10 * n + d < 10 * power /\ 10 * n + d \in Nat  BY <1>1, <1>2
<1>4. room \in Int /\ MagnitudeMost - d < 10 * room + 10  BY <1>1, <1>2
<1> HIDE DEF room
<1>5. n <= room  BY <1>1, <1>2, <1>3, <1>4
<1>6. Append10(n, d) = 10 * n + d  BY <1>4, <1>5 DEF Append10, room
<1>7. QED  BY <1>3, <1>6 DEF d

LEMMA TensRise ==
    ASSUME NEW j \in Nat, NEW k \in Nat, j <= k
    PROVE  Tens[j] <= Tens[k]
<1>1. Tens[j] \in Nat /\ Tens[k] \in Nat  BY TensAre
<1>2. ~(Tens[k] < Tens[j])  BY TensGrow
<1>3. QED  BY <1>1, <1>2

DigitsUpTo(t, lo, i) == { j \in lo .. i : t[j] \in Ascii }

LEMMA DigitsCounted ==
    ASSUME NEW t, NEW lo \in Nat \ {0}, NEW hi \in Nat, NEW i \in lo - 1 .. hi
    PROVE  /\ Cardinality(DigitsUpTo(t, lo, i)) \in Nat
           /\ Cardinality(DigitsUpTo(t, lo, i)) <= Cardinality(DigitsUpTo(t, lo, hi))
           /\ IsFiniteSet(DigitsUpTo(t, lo, i))
<1>1. IsFiniteSet(lo .. hi)  BY FS_Interval
<1>2. DigitsUpTo(t, lo, hi) \subseteq lo .. hi  BY DEF DigitsUpTo
<1>3. DigitsUpTo(t, lo, i) \subseteq DigitsUpTo(t, lo, hi)  BY DEF DigitsUpTo
<1>4. IsFiniteSet(DigitsUpTo(t, lo, hi))  BY <1>1, <1>2, FS_Subset
<1>5. IsFiniteSet(DigitsUpTo(t, lo, i))  BY <1>3, <1>4, FS_Subset
<1>6. Cardinality(DigitsUpTo(t, lo, i)) <= Cardinality(DigitsUpTo(t, lo, hi))  BY <1>3, <1>4, FS_Subset
<1>7. QED  BY <1>5, <1>6, FS_CardinalityType

LEMMA DigitsGrow ==
    ASSUME NEW t, NEW lo \in Nat \ {0}, NEW hi \in Nat, NEW i \in lo .. hi
    PROVE  Cardinality(DigitsUpTo(t, lo, i))
             = Cardinality(DigitsUpTo(t, lo, i - 1)) + (IF t[i] \in Ascii THEN 1 ELSE 0)
<1> DEFINE before == DigitsUpTo(t, lo, i - 1)
           now == DigitsUpTo(t, lo, i)
<1>1. IsFiniteSet(before) /\ Cardinality(before) \in Nat
  <2>1. i - 1 \in lo - 1 .. hi  OBVIOUS
  <2>2. QED  BY <2>1, DigitsCounted
<1>2. CASE t[i] \in Ascii
  <2>1. now = before \cup {i} /\ i \notin before  BY <1>2 DEF DigitsUpTo
  <2> HIDE DEF before, now
  <2>2. Cardinality(before \cup {i}) = Cardinality(before) + 1  BY <1>1, <2>1, FS_AddElement
  <2>3. QED  BY <1>2, <2>1, <2>2 DEF before, now
<1>3. CASE t[i] \notin Ascii
  <2>1. now = before  BY <1>3 DEF DigitsUpTo
  <2>2. QED  BY <1>1, <1>3, <2>1
<1>4. QED  BY <1>2, <1>3

(* No more digits than a shortcut reads fit the magnitude.                 *)
LEMMA ValueFits ==
    ASSUME NEW t, NEW lo \in Nat \ {0}, NEW hi \in Nat, lo <= hi, NEW val, Counts(val, t, lo, hi),
           Cardinality(DigitsUpTo(t, lo, hi)) <= ShortcutDigits
    PROVE  val[hi] \in Nat /\ val[hi] <= MagnitudeMost
<1> DEFINE count(i) == Cardinality(DigitsUpTo(t, lo, i))
           S == { i \in Int : i <= hi => val[i] < Tens[count(i)] }
<1>0. /\ val \in [lo - 1 .. hi -> Nat] /\ val[lo - 1] = 0
      /\ \A i \in lo .. hi : val[i] = IF t[i] \in Ascii THEN Append10(val[i - 1], AsciiDigit[t[i]]) ELSE val[i - 1]
  BY DEF Counts
<1>1. \A i \in lo - 1 .. hi : count(i) \in Nat /\ count(i) <= count(hi)  BY DigitsCounted
<1>2. ShortcutDigits \in Nat /\ MagnitudeMost \in Nat /\ Tens[ShortcutDigits] <= MagnitudeMost
  BY IntegerTextAssumption
<1>3. \A i \in lo .. hi : count(i) = count(i - 1) + (IF t[i] \in Ascii THEN 1 ELSE 0)  BY DigitsGrow
<1> HIDE DEF count
<1>4. \A i \in lo - 1 .. hi : Tens[count(i)] \in Nat /\ Tens[count(i)] <= MagnitudeMost
  <2>1. ASSUME NEW i \in lo - 1 .. hi PROVE Tens[count(i)] \in Nat /\ Tens[count(i)] <= MagnitudeMost
    <3>1. hi \in lo - 1 .. hi  OBVIOUS
    <3>2. count(i) \in Nat /\ count(i) <= ShortcutDigits  BY <1>1, <1>2, <3>1 DEF count
    <3>3. Tens[count(i)] <= Tens[ShortcutDigits]  BY <1>2, <3>2, TensRise
    <3>4. QED  BY <1>2, <3>2, <3>3, TensAre
  <2>2. QED  BY <2>1
<1>5. lo - 1 \in S
  <2>1. lo - 1 \in lo - 1 .. hi  OBVIOUS
  <2>2. Tens[count(lo - 1)] \in Nat \ {0}  BY <1>1, <2>1, TensAre
  <2>3. QED  BY <1>0, <2>2
<1>6. ASSUME NEW i \in lo .. hi, i - 1 \in S PROVE i \in S
  <2>1. i - 1 \in lo - 1 .. hi /\ i \in lo - 1 .. hi /\ i - 1 <= hi  OBVIOUS
  <2>2. val[i - 1] < Tens[count(i - 1)] /\ val[i - 1] \in Nat  BY <1>0, <1>6, <2>1
  <2>3. CASE t[i] \in Ascii
    <3>1. count(i) = count(i - 1) + 1 /\ count(i - 1) \in Nat  BY <1>1, <1>3, <2>1, <2>3
    <3>2. Tens[count(i)] = 10 * Tens[count(i - 1)] /\ Tens[count(i - 1)] \in Nat  BY <3>1, TensAre
    <3>3. 10 * Tens[count(i - 1)] <= MagnitudeMost  BY <1>4, <2>1, <3>2
    <3>4. Append10(val[i - 1], AsciiDigit[t[i]]) < 10 * Tens[count(i - 1)]
      BY <2>2, <2>3, <3>2, <3>3, AppendPlain
    <3>5. QED  BY <1>0, <2>3, <3>2, <3>4
  <2>4. CASE t[i] \notin Ascii
    <3>1. count(i) = count(i - 1)  BY <1>1, <1>3, <2>1, <2>4
    <3>2. val[i] = val[i - 1]  BY <1>0, <2>4
    <3>3. QED  BY <2>2, <3>1, <3>2
  <2>5. QED  BY <2>3, <2>4
<1> HIDE DEF S
<1>7. \A i \in lo - 1 .. hi : i \in S  BY <1>5, <1>6, IntervalInd
<1>8. hi \in lo - 1 .. hi  OBVIOUS
<1>9. val[hi] < Tens[count(hi)]
  <2>1. hi \in S  BY <1>7, <1>8
  <2>2. QED  BY <2>1 DEF S
<1>10. QED  BY <1>0, <1>2, <1>4, <1>8, <1>9
-----------------------------------------------------------------------------
(* A plain numeral's scan: digits, and group separators between them.      *)
LEMMA DigitOfIs ==
    ASSUME NEW f, NEW c
    PROVE  /\ c \in Ascii => c \in DOMAIN DigitOf(f) /\ DigitOf(f)[c] = AsciiDigit[c]
           /\ c \notin Ascii /\ c \notin Wide => c \notin DOMAIN DigitOf(f)
<1>1. DOMAIN NativeDigit \subseteq Wide  BY NotationsAssumption
<1>2. QED  BY <1>1 DEF DigitOf, Ascii

MarksUpTo(t, lo, i) == { j \in lo .. i : t[j] \notin Ascii }

FromUpTo(t, lo, i) == IF MarksUpTo(t, lo, i) = {} THEN lo ELSE Max(MarksUpTo(t, lo, i))

RunUpTo(t, lo, i) == IF MarksUpTo(t, lo, i) = {} THEN i - lo + 1 ELSE i - Max(MarksUpTo(t, lo, i))

LEMMA MaxMark ==
    ASSUME NEW t, NEW lo \in Nat \ {0}, NEW i \in Nat, MarksUpTo(t, lo, i) # {}
    PROVE  LET m == Max(MarksUpTo(t, lo, i))
           IN  /\ m \in lo .. i /\ t[m] \notin Ascii /\ m \in MarksUpTo(t, lo, i)
               /\ \A j \in MarksUpTo(t, lo, i) : j <= m
<1> DEFINE S == MarksUpTo(t, lo, i)
<1>1. S \subseteq 0 .. i  BY DEF MarksUpTo
<1>2. \A j \in S : j \in lo .. i /\ t[j] \notin Ascii  BY DEF MarksUpTo
<1> HIDE DEF S
<1>3. S # {}  BY DEF S
<1>4. Max(S) \in S /\ \A j \in S : j <= Max(S)  BY <1>1, <1>3, MaxIsGreatest
<1>5. QED  BY <1>2, <1>4 DEF S

(* Past a digit the run grows by one.                                      *)
LEMMA RunGrows ==
    ASSUME NEW t, NEW lo \in Nat \ {0}, NEW hi \in Nat, NEW i \in lo .. hi, t[i] \in Ascii
    PROVE  /\ MarksUpTo(t, lo, i) = MarksUpTo(t, lo, i - 1)
           /\ FromUpTo(t, lo, i) = FromUpTo(t, lo, i - 1)
           /\ RunUpTo(t, lo, i) = RunUpTo(t, lo, i - 1) + 1
<1>1. MarksUpTo(t, lo, i) = MarksUpTo(t, lo, i - 1)  BY DEF MarksUpTo
<1>2. i - 1 \in Nat  OBVIOUS
<1>3. MarksUpTo(t, lo, i - 1) # {} => Max(MarksUpTo(t, lo, i - 1)) \in Int
  BY <1>2, MaxMark
<1>4. QED  BY <1>1, <1>3 DEF FromUpTo, RunUpTo

(* Past a group separator the run starts anew.                             *)
LEMMA RunRestarts ==
    ASSUME NEW t, NEW lo \in Nat \ {0}, NEW hi \in Nat, NEW i \in lo .. hi, t[i] \notin Ascii
    PROVE  /\ MarksUpTo(t, lo, i) # {}
           /\ FromUpTo(t, lo, i) = i /\ RunUpTo(t, lo, i) = 0
<1>1. i \in MarksUpTo(t, lo, i)  BY DEF MarksUpTo
<1>2. i \in Nat  OBVIOUS
<1> DEFINE m == Max(MarksUpTo(t, lo, i))
<1>3. m \in lo .. i /\ i <= m  BY <1>1, <1>2, MaxMark
<1> HIDE DEF m
<1>4. m = i  BY <1>3
<1>5. QED  BY <1>1, <1>4 DEF FromUpTo, RunUpTo, m

(* What a plain numeral is: digits, each separator between two of them.    *)
PlainSpan(f, t, lo, hi, amount) ==
    /\ lo <= hi /\ Cardinality(DigitsUpTo(t, lo, hi)) <= ShortcutDigits
    /\ \A i \in MarksUpTo(t, lo, hi) :
          /\ t[i] = GroupOf(f, amount) /\ t[i] # DecimalOf(f, amount) /\ "grouping" \in f.Styles
          /\ i - 1 \in lo .. hi /\ i + 1 \in lo .. hi
          /\ t[i - 1] \in Ascii /\ t[i + 1] \in Ascii

LEMMA PlainNumeralIs ==
    ASSUME NEW f, NEW t, NEW lo \in Nat \ {0}, NEW hi \in Nat, NEW amount,
           PlainNumeral(f, t, Window(lo, hi), amount)
    PROVE  /\ PlainSpan(f, t, lo, hi, amount)
           /\ Strict(f) => Conforms(f, t, Window(lo, hi), GroupOf(f, amount))
<1> DEFINE n == Window(lo, hi)
           marks == { i \in lo .. hi : t[i] \notin Ascii }
           group == GroupOf(f, amount)
<1>1. n.lo = lo /\ n.hi = hi  BY WindowIs
<1>2. /\ lo <= hi /\ hi - lo + 1 - Cardinality(marks) <= ShortcutDigits
      /\ marks # {} => "grouping" \in f.Styles /\ group # DecimalOf(f, amount)
      /\ \A i \in marks : /\ t[i] = group /\ {i - 1, i + 1} \subseteq lo .. hi
                          /\ {i - 1, i + 1} \cap marks = {}
      /\ Strict(f) => Conforms(f, t, n, group)
  BY <1>1 DEF PlainNumeral, Blank, Ascii
<1>3. marks = MarksUpTo(t, lo, hi)  BY DEF MarksUpTo
<1>4. Cardinality(DigitsUpTo(t, lo, hi)) = hi - lo + 1 - Cardinality(marks)
  <2> DEFINE all == lo .. hi
             digits == DigitsUpTo(t, lo, hi)
  <2>1. digits = all \ marks /\ all \cap marks = marks  BY DEF DigitsUpTo
  <2>2. IsFiniteSet(all) /\ Cardinality(all) = hi - lo + 1  BY <1>2, FS_Interval
  <2> HIDE DEF all, digits, marks
  <2>3. Cardinality(all \ marks) = Cardinality(all) - Cardinality(all \cap marks)
    BY <2>2, FS_Difference
  <2>4. Cardinality(marks) \in Nat
    <3>1. IsFiniteSet(marks)  BY <2>1, <2>2, FS_Intersection
    <3>2. QED  BY <3>1, FS_CardinalityType
  <2>5. Cardinality(digits) = hi - lo + 1 - Cardinality(marks)  BY <2>1, <2>2, <2>3, <2>4
  <2>6. QED  BY <2>5 DEF digits
<1>5. ASSUME NEW i \in marks
      PROVE  /\ t[i] = group /\ t[i] # DecimalOf(f, amount) /\ "grouping" \in f.Styles
             /\ i - 1 \in lo .. hi /\ i + 1 \in lo .. hi
             /\ t[i - 1] \in Ascii /\ t[i + 1] \in Ascii
  <2>1. i - 1 \in lo .. hi /\ i + 1 \in lo .. hi /\ i - 1 \notin marks /\ i + 1 \notin marks  BY <1>2
  <2>2. t[i - 1] \in Ascii /\ t[i + 1] \in Ascii  BY <2>1
  <2>3. t[i] = group /\ t[i] # DecimalOf(f, amount) /\ "grouping" \in f.Styles  BY <1>2
  <2>4. QED  BY <2>1, <2>2, <2>3
<1> HIDE DEF marks
<1>6. QED  BY <1>2, <1>3, <1>4, <1>5 DEF PlainSpan

(* Groups as a strict policy has them, as the scan sees their runs.        *)
RunsFit(f, t, lo, hi) ==
    /\ \A i \in MarksUpTo(t, lo, hi) :
          IF MarksUpTo(t, lo, i - 1) = {} THEN RunUpTo(t, lo, i - 1) <= GroupDigits(f)
          ELSE RunUpTo(t, lo, i - 1) = GroupDigits(f)
    /\ MarksUpTo(t, lo, hi) # {} => RunUpTo(t, lo, hi) = 3

LEMMA RunsConform ==
    ASSUME NEW f, NEW t, NEW lo \in Nat \ {0}, NEW hi \in Nat, NEW amount,
           PlainSpan(f, t, lo, hi, amount), Conforms(f, t, Window(lo, hi), GroupOf(f, amount))
    PROVE  RunsFit(f, t, lo, hi)
<1> DEFINE marks == MarksUpTo(t, lo, hi)
           n == Window(lo, hi)
           group == GroupOf(f, amount)
           next(i) == Min({ j \in marks : j > i })
           run(i) == (IF i = Max(marks) THEN hi + 1 ELSE next(i)) - i - 1
<1>1. CASE marks = {}
  BY <1>1 DEF RunsFit
<1>2. CASE marks # {}
  <2>1. n.lo = lo /\ n.hi = hi  BY WindowIs
  <2>2. marks = { i \in lo .. hi : t[i] = group }
    <3>1. \A i \in marks : i \in lo .. hi /\ t[i] = group /\ t[i] \notin Ascii  BY DEF PlainSpan, MarksUpTo
    <3>2. group \notin Ascii  BY <1>2, <3>1
    <3>3. QED  BY <3>1, <3>2 DEF MarksUpTo
  <2>3. /\ Min(marks) - lo <= GroupDigits(f)
        /\ \A i \in marks : run(i) = IF i = Max(marks) THEN 3 ELSE GroupDigits(f)
    BY <1>2, <2>1, <2>2 DEF Conforms
  <2>4. marks \subseteq Nat /\ marks \subseteq lo .. hi  BY DEF MarksUpTo
  <2>5. GroupDigits(f) \in Nat  BY DEF GroupDigits
  <2>6. Min(marks) \in marks /\ \A j \in marks : Min(marks) <= j  BY <1>2, <2>4, MinIsLeast
  <2>7. Max(marks) \in marks /\ \A j \in marks : j <= Max(marks)  BY <1>2, MaxMark
  <2>8. ASSUME NEW i \in marks, MarksUpTo(t, lo, i - 1) = {}
        PROVE  RunUpTo(t, lo, i - 1) <= GroupDigits(f)
    <3>1. Min(marks) \in lo .. hi /\ Min(marks) <= i /\ i \in Nat  BY <2>4, <2>6
    <3>2. ~(Min(marks) <= i - 1)
      <4>1. Min(marks) <= i - 1 => Min(marks) \in MarksUpTo(t, lo, i - 1)
        BY <2>6, <3>1 DEF MarksUpTo
      <4>2. QED  BY <2>8, <4>1
    <3>3. Min(marks) = i  BY <3>1, <3>2
    <3>4. RunUpTo(t, lo, i - 1) = (i - 1) - lo + 1  BY <2>8 DEF RunUpTo
    <3>5. QED  BY <2>3, <2>5, <3>1, <3>3, <3>4
  <2>9. ASSUME NEW i \in marks, MarksUpTo(t, lo, i - 1) # {}
        PROVE  RunUpTo(t, lo, i - 1) = GroupDigits(f)
    <3> DEFINE m == Max(MarksUpTo(t, lo, i - 1))
               later == { j \in marks : j > m }
    <3>1. i \in lo .. hi /\ i - 1 \in Nat /\ i \in Nat  BY <2>4
    <3>2. /\ m \in lo .. i - 1 /\ m \in MarksUpTo(t, lo, i - 1)
          /\ \A j \in MarksUpTo(t, lo, i - 1) : j <= m
      BY <2>9, <3>1, MaxMark
    <3> HIDE DEF m
    <3>3. m \in marks /\ m < i /\ m \in Nat  BY <3>1, <3>2 DEF MarksUpTo
    <3>4. i \in later /\ later \subseteq Nat  BY <2>4, <3>3
    <3>5. \A j \in later : i <= j
      <4>1. ASSUME NEW j \in later, j < i PROVE FALSE
        <5>1. j \in MarksUpTo(t, lo, i - 1)  BY <2>4, <3>1, <4>1 DEF MarksUpTo
        <5>2. j <= m /\ j > m /\ j \in Nat  BY <2>4, <3>2, <5>1
        <5>3. QED  BY <3>3, <5>2
      <4>2. QED  BY <3>1, <3>4, <4>1
    <3>6. Min(later) = i
      <4>1. Min(later) \in later /\ \A j \in later : Min(later) <= j  BY <3>4, MinIsLeast
      <4> HIDE DEF later
      <4>2. Min(later) \in Nat /\ Min(later) <= i /\ i <= Min(later)  BY <3>4, <3>5, <4>1
      <4>3. QED  BY <3>1, <4>2
    <3>7. m # Max(marks)
      <4>1. i <= Max(marks)  BY <2>7
      <4>2. QED  BY <3>1, <3>3, <4>1
    <3>8. run(m) = GroupDigits(f)  BY <2>3, <3>3, <3>7
    <3>9. run(m) = i - m - 1  BY <3>6, <3>7
    <3>10. RunUpTo(t, lo, i - 1) = (i - 1) - m  BY <2>9 DEF RunUpTo, m
    <3>11. QED  BY <3>1, <3>3, <3>8, <3>9, <3>10
  <2>10. RunUpTo(t, lo, hi) = 3
    <3>1. run(Max(marks)) = 3  BY <2>3, <2>7
    <3>2. RunUpTo(t, lo, hi) = hi - Max(marks)  BY <1>2 DEF RunUpTo
    <3>3. Max(marks) \in Nat  BY <2>4, <2>7
    <3>4. run(Max(marks)) = (hi + 1) - Max(marks) - 1  OBVIOUS
    <3>5. QED  BY <3>1, <3>2, <3>3, <3>4
  <2>11. QED  BY <2>8, <2>9, <2>10 DEF RunsFit
<1>3. QED  BY <1>1, <1>2

State(value, run, from, grouped, fault, mark) ==
    [value |-> value, run |-> run, from |-> from, grouped |-> grouped, fault |-> fault, mark |-> mark]

PastDigit(s, value, run) == [s EXCEPT !.value = value, !.run = run]

PastMark(s, fault, i, grouped) == [s EXCEPT !.fault = fault, !.run = 0, !.from = i, !.grouped = grouped]

LEMMA PastDigitIs ==
    ASSUME NEW value, NEW run, NEW from, NEW grouped, NEW fault, NEW mark, NEW a, NEW b
    PROVE  PastDigit(State(value, run, from, grouped, fault, mark), a, b)
             = State(a, b, from, grouped, fault, mark)
<1> DEFINE s == State(value, run, from, grouped, fault, mark)
           s1 == State(a, run, from, grouped, fault, mark)
<1>1. [s EXCEPT !.value = a] = s1  BY DEF State
<1>2. [s1 EXCEPT !.run = b] = State(a, b, from, grouped, fault, mark)  BY DEF State
<1> HIDE DEF s, s1
<1>3. [s EXCEPT !.value = a, !.run = b] = [[s EXCEPT !.value = a] EXCEPT !.run = b]  OBVIOUS
<1>4. QED  BY <1>1, <1>2, <1>3 DEF s, PastDigit

LEMMA PastMarkIs ==
    ASSUME NEW value, NEW run, NEW from, NEW grouped, NEW fault, NEW mark, NEW a, NEW i, NEW b
    PROVE  PastMark(State(value, run, from, grouped, fault, mark), a, i, b)
             = State(value, 0, i, b, a, mark)
<1> DEFINE s == State(value, run, from, grouped, fault, mark)
           s1 == State(value, run, from, grouped, a, mark)
           s2 == State(value, 0, from, grouped, a, mark)
           s3 == State(value, 0, i, grouped, a, mark)
<1>1. [s EXCEPT !.fault = a] = s1  BY DEF State
<1>2. [s1 EXCEPT !.run = 0] = s2  BY DEF State
<1>3. [s2 EXCEPT !.from = i] = s3  BY DEF State
<1>4. [s3 EXCEPT !.grouped = b] = State(value, 0, i, b, a, mark)  BY DEF State
<1> HIDE DEF s, s1, s2, s3
<1>5. [s EXCEPT !.fault = a, !.run = 0, !.from = i, !.grouped = b]
        = [[[[s EXCEPT !.fault = a] EXCEPT !.run = 0] EXCEPT !.from = i] EXCEPT !.grouped = b]
  OBVIOUS
<1>6. QED  BY <1>1, <1>2, <1>3, <1>4, <1>5 DEF s, PastMark

(* A separator has passed.                                                 *)
MarkedUpTo(t, lo, i) == MarksUpTo(t, lo, i) # {}

(* The scan's state past position i of a plain numeral.                    *)
PlainState(val, t, lo, i) ==
    State(val[i], RunUpTo(t, lo, i), FromUpTo(t, lo, i), MarkedUpTo(t, lo, i), None, None)

LEMMA PlainStep ==
    ASSUME NEW f, NEW t, NEW lo \in Nat \ {0}, NEW hi \in Nat, NEW amount, NEW val,
           PlainSpan(f, t, lo, hi, amount), Strict(f) => RunsFit(f, t, lo, hi),
           MarksUpTo(t, lo, hi) # {} => GroupOf(f, amount) \notin Wide, Counts(val, t, lo, hi), NEW i \in lo .. hi
    PROVE  ScanStep(f, t, Window(lo, hi), amount, PlainState(val, t, lo, i - 1), i)
             = PlainState(val, t, lo, i)
<1> DEFINE n == Window(lo, hi)
           s == PlainState(val, t, lo, i - 1)
<1>1. n.lo = lo /\ n.hi = hi  BY WindowIs
<1>2. /\ s.value = val[i - 1] /\ s.run = RunUpTo(t, lo, i - 1) /\ s.from = FromUpTo(t, lo, i - 1)
      /\ s.grouped = MarkedUpTo(t, lo, i - 1) /\ s.fault = None /\ s.mark = None
  BY Zenon DEF PlainState, State
<1>7. PICK value, run, from, grouped : /\ s = State(value, run, from, grouped, None, None)
                                      /\ value = val[i - 1] /\ from = FromUpTo(t, lo, i - 1)
                                      /\ grouped = MarkedUpTo(t, lo, i - 1)
  BY Zenon DEF PlainState
<1>3. val[i] = IF t[i] \in Ascii THEN Append10(val[i - 1], AsciiDigit[t[i]]) ELSE val[i - 1]
  BY DEF Counts
<1>4. i <= hi /\ i \in Nat /\ i - 1 \in Nat  OBVIOUS
<1> HIDE DEF n
<1>5. CASE t[i] \in Ascii
  <2>1. Digit(f, t, i, n.hi) /\ DigitOf(f)[t[i]] = AsciiDigit[t[i]]
    BY <1>1, <1>4, <1>5, DigitOfIs DEF Digit
  <2>2. ScanStep(f, t, n, amount, s, i) = PastDigit(s, Append10(s.value, DigitOf(f)[t[i]]), s.run + 1)
    BY <1>2, <2>1, Zenon DEF ScanStep, PastDigit
  <2> HIDE DEF s
  <2>3. PastDigit(s, Append10(s.value, DigitOf(f)[t[i]]), s.run + 1)
          = State(Append10(s.value, DigitOf(f)[t[i]]), s.run + 1, from, grouped, None, None)
    BY <1>7, PastDigitIs
  <2>4. Append10(s.value, DigitOf(f)[t[i]]) = val[i]  BY <1>2, <1>3, <1>5, <2>1, Zenon
  <2>5. s.run + 1 = RunUpTo(t, lo, i)  BY <1>2, <1>5, RunGrows
  <2>6. FromUpTo(t, lo, i) = FromUpTo(t, lo, i - 1) /\ MarkedUpTo(t, lo, i) = MarkedUpTo(t, lo, i - 1)
    BY <1>5, RunGrows DEF MarkedUpTo
  <2>7. QED  BY <1>7, <2>2, <2>3, <2>4, <2>5, <2>6, Zenon DEF PlainState, n, s
<1>6. CASE t[i] \notin Ascii
  <2>0. i \in MarksUpTo(t, lo, hi)  BY <1>6 DEF MarksUpTo
  <2>1. /\ t[i] = GroupOf(f, amount) /\ t[i] # DecimalOf(f, amount) /\ "grouping" \in f.Styles
        /\ i - 1 \in lo .. hi /\ i + 1 \in lo .. hi
        /\ t[i - 1] \in Ascii /\ t[i + 1] \in Ascii
    BY <2>0 DEF PlainSpan
  <2>2. ~Digit(f, t, i, n.hi)  BY <1>6, <2>0, <2>1, DigitOfIs DEF Digit
  <2>3. Alike(t[i], GroupOf(f, amount))  BY <2>1 DEF Alike
  <2>4. Grouped(f, t, n, s, i) = None
    <3>1. s.run # 0
      <4>1. i - 1 \in MarksUpTo(t, lo, i - 1) => FALSE  BY <2>1 DEF MarksUpTo
      <4>2. CASE MarksUpTo(t, lo, i - 1) = {}
        <5>1. s.run = (i - 1) - lo + 1  BY <1>2, <4>2 DEF RunUpTo
        <5>2. QED  BY <2>1, <5>1
      <4>3. CASE MarksUpTo(t, lo, i - 1) # {}
        <5> DEFINE m == Max(MarksUpTo(t, lo, i - 1))
        <5>1. m \in lo .. i - 1 /\ m \in MarksUpTo(t, lo, i - 1)  BY <1>4, <4>3, MaxMark
        <5>2. s.run = (i - 1) - m  BY <1>2, <4>3 DEF RunUpTo
        <5> HIDE DEF m
        <5>3. m # i - 1  BY <4>1, <5>1
        <5>4. QED  BY <1>4, <5>1, <5>2, <5>3
      <4>4. QED  BY <4>2, <4>3
    <3>2. ~Strict(f) \/ s.run = GroupDigits(f) \/ (~s.grouped /\ s.run < GroupDigits(f))
      <4>1. CASE Strict(f)
        <5>1. IF MarksUpTo(t, lo, i - 1) = {} THEN s.run <= GroupDigits(f) ELSE s.run = GroupDigits(f)
          BY <1>2, <2>0, <4>1 DEF RunsFit
        <5>2. GroupDigits(f) \in Nat  BY DEF GroupDigits
        <5>3. MarksUpTo(t, lo, i - 1) = {} => s.run \in Int
          BY <1>2, <1>4 DEF RunUpTo
        <5>4. CASE MarksUpTo(t, lo, i - 1) = {}
          <6>1. s.run <= GroupDigits(f) /\ s.run \in Int  BY <5>1, <5>3, <5>4
          <6>2. s.run = GroupDigits(f) \/ s.run < GroupDigits(f)  BY <5>2, <6>1
          <6>3. ~s.grouped  BY <1>2, <5>4, Zenon DEF MarkedUpTo
          <6>4. QED  BY <6>2, <6>3
        <5>5. CASE MarksUpTo(t, lo, i - 1) # {}
          BY <5>1, <5>5
        <5>6. QED  BY <5>4, <5>5
      <4>2. QED  BY <4>1
    <3>3. Digit(f, t, i + 1, n.hi)
      <4>1. i + 1 <= hi  BY <2>1
      <4>2. QED  BY <1>1, <2>1, <4>1, DigitOfIs DEF Digit
    <3>4. QED  BY <3>1, <3>2, <3>3, Zenon DEF Grouped
  <2>5. ScanStep(f, t, n, amount, s, i) = PastMark(s, Grouped(f, t, n, s, i), i, TRUE)
    BY <1>2, <2>1, <2>2, <2>3, Zenon DEF ScanStep, PastMark
  <2> HIDE DEF s
  <2>6. PastMark(s, None, i, TRUE) = State(value, 0, i, TRUE, None, None)
    <3>1. \A yes : PastMark(s, None, i, yes) = State(value, 0, i, yes, None, None)
      BY <1>7, PastMarkIs
    <3>2. QED  BY <3>1, Zenon
  <2>7. val[i - 1] = val[i] /\ RunUpTo(t, lo, i) = 0 /\ FromUpTo(t, lo, i) = i
    BY <1>3, <1>6, RunRestarts
  <2>8. MarkedUpTo(t, lo, i) = TRUE  BY <1>6, RunRestarts DEF MarkedUpTo
  <2>9. ScanStep(f, t, n, amount, s, i) = State(value, 0, i, TRUE, None, None)
    BY <2>4, <2>5, <2>6, Zenon
  <2>10. QED  BY <1>7, <2>7, <2>8, <2>9, Zenon DEF PlainState, n, s
<1>8. QED  BY <1>5, <1>6

LEMMA PlainScan ==
    ASSUME NEW f, NEW t, NEW n, n.lo \in Nat \ {0}, n.hi \in Nat, NEW amount, NEW val,
           PlainSpan(f, t, n.lo, n.hi, amount), Strict(f) => RunsFit(f, t, n.lo, n.hi),
           MarksUpTo(t, n.lo, n.hi) # {} => GroupOf(f, amount) \notin Wide, Counts(val, t, n.lo, n.hi), n = Window(n.lo, n.hi)
    PROVE  Scanned(f, t, n, amount) = PlainState(val, t, n.lo, n.hi)
<1>0. PICK lo \in Nat \ {0}, hi \in Nat : lo = n.lo /\ hi = n.hi /\ lo <= hi  BY DEF PlainSpan
<1> DEFINE start == [value |-> 0, run |-> 0, from |-> n.lo, grouped |-> FALSE, fault |-> None, mark |-> None]
           Next1(s, i) == ScanStep(f, t, n, amount, s, i)
           body(g) == [i \in n.lo - 1 .. n.hi |-> IF i < n.lo THEN start ELSE Next1(g[i - 1], i)]
           at == CHOOSE g : g = body(g)
           plain(i) == PlainState(val, t, lo, i)
           st == [i \in lo - 1 .. hi |-> plain(i)]
<1>1. start = plain(lo - 1)
  <2>1. MarksUpTo(t, lo, lo - 1) = {}  BY DEF MarksUpTo
  <2>2. RunUpTo(t, lo, lo - 1) = 0 /\ FromUpTo(t, lo, lo - 1) = lo  BY <2>1 DEF RunUpTo, FromUpTo
  <2>3. MarkedUpTo(t, lo, lo - 1) = FALSE  BY <2>1 DEF MarkedUpTo
  <2>4. val[lo - 1] = 0  BY <1>0 DEF Counts
  <2>5. QED  BY <1>0, <2>2, <2>3, <2>4, Zenon DEF PlainState, State
<1>2. ASSUME NEW i \in lo .. hi PROVE Next1(plain(i - 1), i) = plain(i)
  BY <1>0, PlainStep
<1>3. Scanned(f, t, n, amount) = at[n.hi]
  BY Zenon DEF Scanned
<1> HIDE DEF start, Next1, plain
<1>4. st = body(st)
  <2>1. ASSUME NEW i \in lo - 1 .. hi PROVE st[i] = IF i < lo THEN start ELSE Next1(st[i - 1], i)
    <3>1. CASE i < lo
      <4>1. i = lo - 1  BY <3>1
      <4>2. QED  BY <1>1, <3>1, <4>1
    <3>2. CASE ~(i < lo)
      <4>1. i \in lo .. hi /\ i - 1 \in lo - 1 .. hi  BY <3>2
      <4>2. st[i - 1] = plain(i - 1) /\ st[i] = plain(i)  BY <4>1
      <4>3. QED  BY <1>2, <3>2, <4>1, <4>2
    <3>3. QED  BY <3>1, <3>2
  <2>2. QED  BY <1>0, <2>1
<1>5. at = body(at)
  <2> HIDE DEF body, st
  <2>1. QED  BY <1>4
<1> HIDE DEF at, st
<1>6. \A i \in lo - 1 .. hi : at[i] = IF i < lo THEN start ELSE Next1(at[i - 1], i)
  BY <1>0, <1>5
<1> HIDE DEF body
<1> DEFINE S == { i \in Int : at[i] = plain(i) }
<1>7. lo - 1 \in S
  <2>1. lo - 1 \in lo - 1 .. hi /\ lo - 1 < lo  BY <1>0
  <2>2. QED  BY <1>1, <1>6, <2>1
<1>8. ASSUME NEW i \in lo .. hi, i - 1 \in S PROVE i \in S
  <2>1. i \in lo - 1 .. hi /\ ~(i < lo)  OBVIOUS
  <2>2. at[i] = Next1(plain(i - 1), i)  BY <1>6, <1>8, <2>1
  <2>3. QED  BY <1>2, <2>2
<1> HIDE DEF S
<1>9. \A i \in lo - 1 .. hi : i \in S  BY <1>7, <1>8, IntervalInd
<1>10. hi \in lo - 1 .. hi  BY <1>0
<1>11. at[hi] = plain(hi)  BY <1>9, <1>10 DEF S
<1>12. QED  BY <1>0, <1>3, <1>11 DEF plain

LEMMA ScaledByNone ==
    ASSUME NEW value
    PROVE  Scaled(value, 0) = value
<1> DEFINE body(g) == [e \in 0 .. 0 |-> IF e = 0 THEN value ELSE Append10(g[e - 1], 0)]
           at == CHOOSE g : g = body(g)
           one == [e \in 0 .. 0 |-> value]
<1>1. Scaled(value, 0) = at[0]  BY Zenon DEF Scaled
<1>2. one = body(one)
  <2>1. \A e \in 0 .. 0 : e = 0  OBVIOUS
  <2>2. QED  BY <2>1
<1>3. at = body(at)
  <2> HIDE DEF body, one
  <2>1. QED  BY <1>2
<1> HIDE DEF at
<1>4. at[0] = value  BY <1>3
<1>5. QED  BY <1>1, <1>4

(* The long way's verdict on a plain numeral is its value.                 *)
IsWindow(n) == n = Window(n.lo, n.hi) /\ n.lo \in Nat \ {0} /\ n.hi \in Nat

LEMMA PlainVerdict ==
    ASSUME NEW f, NEW t, NEW n, IsWindow(n), NEW amount,
           PlainSpan(f, t, n.lo, n.hi, amount), Strict(f) => RunsFit(f, t, n.lo, n.hi),
           MarksUpTo(t, n.lo, n.hi) # {} => GroupOf(f, amount) \notin Wide, NEW w, NEW negative
    PROVE  Scan(f, t, w, Bare(n, negative, amount)) = InRange(Signed(negative, Value(t, n)), w)
<1>0. PICK lo \in Nat \ {0}, hi \in Nat : lo = n.lo /\ hi = n.hi /\ lo <= hi  BY DEF PlainSpan, IsWindow
<1>1. PICK val : Counts(val, t, n.lo, n.hi) /\ Value(t, n) = val[n.hi]
  BY <1>0, ValueUnfolds
<1> DEFINE s == Scanned(f, t, n, amount)
           bare == Bare(n, negative, amount)
<1>2. s = PlainState(val, t, n.lo, n.hi)  BY <1>1, PlainScan DEF IsWindow
<1> HIDE DEF s
<1>3. /\ s.value = val[n.hi] /\ s.run = RunUpTo(t, n.lo, n.hi)
      /\ s.grouped = MarkedUpTo(t, n.lo, n.hi) /\ s.fault = None /\ s.mark = None
  BY <1>2, Zenon DEF PlainState, State
<1>4. /\ bare.status = "bare" /\ bare.numeral = n /\ bare.negative = negative /\ bare.amount = amount
  BY DEF Bare
<1> HIDE DEF bare
<1>5. ~BadLastGroup(f, s)
  <2>1. CASE Strict(f) /\ MarkedUpTo(t, n.lo, n.hi)
    <3>1. RunUpTo(t, n.lo, n.hi) = 3  BY <2>1 DEF RunsFit, MarkedUpTo
    <3>2. QED  BY <1>3, <3>1 DEF BadLastGroup
  <2>2. CASE ~(Strict(f) /\ MarkedUpTo(t, n.lo, n.hi))
    BY <1>3, <2>2, Zenon DEF BadLastGroup
  <2>3. QED  BY <2>1, <2>2
<1>6. FaultAtEnd(f, t, n, amount, s) = None  BY <1>3, <1>5, Zenon DEF FaultAtEnd
<1>7. ExponentOf(f, t, n, s) = 0  BY <1>3, Zenon DEF ExponentOf
<1>8. val[n.hi] # TooMuch
  <2>1. Cardinality(DigitsUpTo(t, n.lo, n.hi)) <= ShortcutDigits  BY DEF PlainSpan
  <2>2. val[hi] \in Nat /\ val[hi] <= MagnitudeMost  BY <1>0, <1>1, <2>1, ValueFits
  <2>3. QED  BY <1>0, <2>2, IntegerTextAssumption DEF TooMuch
<1>9. ScanEnd(f, t, w, bare, s, None) = InRange(Signed(negative, val[n.hi]), w)
  <2>1. ScanEnd(f, t, w, bare, s, None) = Judged(negative, Scaled(val[n.hi], 0), w)
    BY <1>3, <1>4, <1>7, Zenon DEF ScanEnd
  <2>2. Scaled(val[n.hi], 0) = val[n.hi]  BY ScaledByNone
  <2>3. QED  BY <1>8, <2>1, <2>2, Zenon DEF Judged
<1>10. ~Blank(n)  BY <1>0 DEF Blank
<1>11. Scan(f, t, w, bare) = ScanOf(f, t, w, bare, s)
  BY <1>4, <1>10, Zenon DEF Scan, s
<1>12. ScanOf(f, t, w, bare, s) = ScanEnd(f, t, w, bare, s, None)
  BY <1>4, <1>6, Zenon DEF ScanOf
<1>13. QED  BY <1>1, <1>9, <1>11, <1>12, Zenon DEF bare
-----------------------------------------------------------------------------
(* What stands at a window's edges.                                        *)
SignSymbol(f, k) == Signs(f)[k].symbol

(* What a format's symbols are.                                            *)
Declares(f) ==
    /\ {f.Currency, f.MinusSign, f.PlusSign} \subseteq Symbols
    /\ f.Currency # <<>> => {Head(f.Currency), Last(f.Currency)} \cap White = {}

(* Characters that are no digits, the ASCII signs among them.              *)
Spelt == Seq((STRING \cup {"-", "+"}) \ Ascii)

LEMMA SymbolsAreSpelt ==
    Symbols \subseteq Spelt
<1>1. STRING \ Ascii \subseteq (STRING \cup {"-", "+"}) \ Ascii  OBVIOUS
<1>2. \A A, B : A \subseteq B => Seq(A) \subseteq Seq(B)  OBVIOUS
<1>3. QED  BY <1>1, <1>2, Zenon DEF Symbols, Spelt, Ascii

LEMMA SignsAre ==
    ASSUME NEW f, Declares(f)
    PROVE  /\ \A k \in 1 .. 4 : SignSymbol(f, k) \in Spelt /\ Signs(f)[k].symbol = SignSymbol(f, k)
           /\ SignSymbol(f, 1) = <<"-">> /\ SignSymbol(f, 2) = <<"+">>
           /\ SignSymbol(f, 3) = f.MinusSign /\ SignSymbol(f, 4) = f.PlusSign
           /\ Signs(f)[1].negative = TRUE /\ Signs(f)[2].negative = FALSE
           /\ Signs(f)[1].symbol = <<"-">> /\ Signs(f)[2].symbol = <<"+">>
<1>1. <<"-">> \in Spelt /\ <<"+">> \in Spelt
  <2>1. {"-", "+"} \subseteq (STRING \cup {"-", "+"}) \ Ascii  BY DigitsAre
  <2>2. \A S : \A c \in S : <<c>> \in Seq(S)  OBVIOUS
  <2>3. QED  BY <2>1, <2>2 DEF Spelt
<1>2. f.MinusSign \in Spelt /\ f.PlusSign \in Spelt  BY SymbolsAreSpelt DEF Declares
<1>3. /\ SignSymbol(f, 1) = <<"-">> /\ SignSymbol(f, 2) = <<"+">>
      /\ SignSymbol(f, 3) = f.MinusSign /\ SignSymbol(f, 4) = f.PlusSign
  BY DEF SignSymbol, Signs
<1>4. Signs(f)[1].negative = TRUE /\ Signs(f)[2].negative = FALSE
  BY DEF Signs
<1>5. \A k \in 1 .. 4 : SignSymbol(f, k) \in Spelt
  BY <1>1, <1>2, <1>3
<1>6. QED  BY <1>3, <1>4, <1>5, Zenon DEF SignSymbol

LEMMA SymbolIs ==
    ASSUME NEW symbol \in Spelt
    PROVE  /\ Len(symbol) \in Nat /\ DOMAIN symbol = 1 .. Len(symbol)
           /\ symbol # <<>> => Len(symbol) > 0
           /\ \A i \in 1 .. Len(symbol) : symbol[i] \notin Ascii
<1>1. symbol \in Seq((STRING \cup {"-", "+"}) \ Ascii)  BY DEF Spelt
<1>2. QED  BY <1>1

(* A symbol that stands somewhere stands there character by character.     *)
LEMMA ExactReads ==
    ASSUME NEW t \in Seq(STRING), NEW symbol \in Spelt, NEW lo \in Nat \ {0}, NEW w,
           w.hi \in Nat, w.hi <= Len(t), ExactAt(t, w, symbol, lo)
    PROVE  /\ symbol # <<>> /\ lo + Len(symbol) - 1 <= w.hi
           /\ t[lo] = symbol[1] /\ t[lo + Len(symbol) - 1] = symbol[Len(symbol)]
<1> DEFINE k == Len(symbol)
           part == SubSeq(t, lo, lo + k - 1)
<1>1. part = symbol /\ symbol # <<>> /\ lo + k - 1 <= w.hi  BY DEF ExactAt, LooseAt
<1>2. k \in Nat /\ k > 0  BY <1>1, SymbolIs
<1>3. w.hi \in Nat /\ w.hi <= Len(t) /\ Len(t) \in Nat  OBVIOUS
<1>4. \A i \in 1 .. k : part[i] = t[lo + i - 1]
  <2> HIDE DEF k
  <2>1. lo + k - 1 <= Len(t)  BY <1>1, <1>2, <1>3
  <2>2. \A i \in 1 .. k : i \in 1 .. (lo + k - 1) - lo + 1  BY <1>2
  <2>3. QED  BY <1>2, <2>1, <2>2
<1> HIDE DEF part, k
<1>5. part[1] = t[lo] /\ part[k] = t[lo + k - 1]
  <2>1. 1 \in 1 .. k /\ k \in 1 .. k  BY <1>2
  <2>2. lo + 1 - 1 = lo  OBVIOUS
  <2>3. QED  BY <1>4, <2>1, <2>2
<1>6. QED  BY <1>1, <1>5 DEF k

(* No spelling of a sign starts, or ends, with this character.             *)
NoneStarts(f, c) == \A k \in 1 .. 4 : SignSymbol(f, k) # <<>> => SignSymbol(f, k)[1] # c
NoneEnds(f, c) == \A k \in 1 .. 4 : SignSymbol(f, k) # <<>> => SignSymbol(f, k)[Len(SignSymbol(f, k))] # c

LEMMA NoSignAt ==
    ASSUME NEW f, Declares(f), NEW t \in Seq(STRING), NEW w, w.lo \in Nat \ {0}, w.hi \in Nat,
           w.hi <= Len(t), NoneStarts(f, t[w.lo])
    PROVE  SignAt(f, t, w) = None
<1> DEFINE found == { k \in 1 .. 4 : ExactAt(t, w, Signs(f)[k].symbol, w.lo) }
<1>1. ASSUME NEW k \in 1 .. 4, ExactAt(t, w, Signs(f)[k].symbol, w.lo) PROVE FALSE
  <2>1. SignSymbol(f, k) \in Spelt /\ ExactAt(t, w, SignSymbol(f, k), w.lo)
    BY <1>1, SignsAre
  <2>2. SignSymbol(f, k) # <<>> /\ t[w.lo] = SignSymbol(f, k)[1]  BY <2>1, ExactReads
  <2>3. QED  BY <2>2, Zenon DEF NoneStarts
<1>2. found = {}  BY <1>1, Zenon
<1>3. QED  BY <1>2, Zenon DEF SignAt, FirstSign

LEMMA NoSignEnding ==
    ASSUME NEW f, Declares(f), NEW t \in Seq(STRING), NEW w, w.lo \in Nat \ {0}, w.hi \in Nat,
           w.hi <= Len(t), NoneEnds(f, t[w.hi])
    PROVE  SignEnding(f, t, w) = None
<1> DEFINE start(k) == w.hi - Len(Signs(f)[k].symbol) + 1
           found == { k \in 1 .. 4 : ExactAt(t, w, Signs(f)[k].symbol, start(k)) }
<1>1. ASSUME NEW k \in 1 .. 4, ExactAt(t, w, Signs(f)[k].symbol, start(k)) PROVE FALSE
  <2> DEFINE symbol == SignSymbol(f, k)
             lo == w.hi - Len(symbol) + 1
  <2>1. symbol \in Spelt /\ Len(symbol) \in Nat /\ ExactAt(t, w, symbol, lo)
    BY <1>1, SignsAre, SymbolIs
  <2>2. lo >= w.lo  BY <2>1 DEF ExactAt, LooseAt
  <2>3. lo \in Nat \ {0} /\ lo + Len(symbol) - 1 = w.hi  BY <2>1, <2>2
  <2> HIDE DEF symbol, lo
  <2>4. symbol # <<>> /\ t[w.hi] = symbol[Len(symbol)]  BY <2>1, <2>3, ExactReads
  <2>5. QED  BY <2>4, Zenon DEF NoneEnds, symbol
<1>2. found = {}  BY <1>1, Zenon
<1>3. QED  BY <1>2, Zenon DEF SignEnding, FirstSign

(* A digit is no sign, and no edge of a currency symbol.                   *)
LEMMA DigitsAreNoSigns ==
    ASSUME NEW f, Declares(f), NEW c \in Ascii
    PROVE  NoneStarts(f, c) /\ NoneEnds(f, c)
<1>1. ASSUME NEW k \in 1 .. 4, SignSymbol(f, k) # <<>>
      PROVE  SignSymbol(f, k)[1] # c /\ SignSymbol(f, k)[Len(SignSymbol(f, k))] # c
  <2> DEFINE symbol == SignSymbol(f, k)
  <2>1. symbol \in Spelt  BY SignsAre
  <2> HIDE DEF symbol
  <2>2. Len(symbol) \in Nat /\ Len(symbol) > 0 /\ \A i \in 1 .. Len(symbol) : symbol[i] \notin Ascii
    BY <1>1, <2>1, SymbolIs DEF symbol
  <2>3. 1 \in 1 .. Len(symbol) /\ Len(symbol) \in 1 .. Len(symbol)  BY <2>2
  <2>4. QED  BY <2>2, <2>3 DEF symbol
<1>2. QED  BY <1>1, Zenon DEF NoneStarts, NoneEnds

LEMMA OneCharacter ==
    ASSUME NEW t \in Seq(STRING), NEW lo \in Nat \ {0}, lo <= Len(t)
    PROVE  SubSeq(t, lo, lo) = <<t[lo]>>
<1> DEFINE part == SubSeq(t, lo, lo)
<1>1. PICK k \in Nat : k = 1  OBVIOUS
<1>2. part = SubSeq(t, lo, lo + k - 1) /\ lo + k - 1 <= Len(t)  BY <1>1
<1>3. Len(part) = k /\ part \in Seq(STRING)
  <2> HIDE DEF part
  <2>1. \A i \in lo .. lo + k - 1 : i \in 1 .. Len(t)  BY <1>2
  <2>2. QED  BY <1>1, <1>2, <2>1
<1>4. part[1] = t[lo]
  <2>1. \A i \in 1 .. k : part[i] = t[lo + i - 1]  BY <1>1, <1>2
  <2>2. lo + 1 - 1 = lo /\ 1 \in 1 .. k  BY <1>1
  <2>3. QED  BY <2>1, <2>2
<1> HIDE DEF part
<1>5. part = <<part[1]>>  BY <1>1, <1>3
<1>6. QED  BY <1>4, <1>5 DEF part

LEMMA AsciiSignAt ==
    ASSUME NEW f, Declares(f), NEW t \in Seq(STRING), NEW w, w.lo \in Nat \ {0}, w.hi \in Nat,
           w.hi <= Len(t), w.lo <= w.hi, t[w.lo] \in {"-", "+"}
    PROVE  /\ SignAt(f, t, w) = [width |-> 1, negative |-> t[w.lo] = "-"]
           /\ SignAt(f, t, w) # None
<1> DEFINE found == { k \in 1 .. 4 : ExactAt(t, w, Signs(f)[k].symbol, w.lo) }
<1>1. PICK lo \in Nat \ {0}, hi \in Nat : lo = w.lo /\ hi = w.hi /\ lo <= hi /\ hi <= Len(t)  OBVIOUS
<1>2. ASSUME NEW c, t[w.lo] = c PROVE ExactAt(t, w, <<c>>, w.lo)
  <2>1. SubSeq(t, lo, lo) = <<c>>  BY <1>1, <1>2, OneCharacter
  <2>2. \A i \in 1 .. 1 : Alike(t[lo + i - 1], <<c>>[i])
    <3>1. t[lo + 1 - 1] = c /\ <<c>>[1] = c  BY <1>1, <1>2
    <3>2. QED  BY <3>1 DEF Alike
  <2>3. /\ <<c>> # <<>> /\ lo + Len(<<c>>) - 1 = lo /\ DOMAIN <<c>> = 1 .. 1  OBVIOUS
  <2>4. LooseAt(t, w, <<c>>, w.lo)  BY <1>1, <2>2, <2>3 DEF LooseAt
  <2>5. QED  BY <1>1, <2>1, <2>3, <2>4 DEF ExactAt
<1>3. ASSUME NEW c, t[w.lo] # c PROVE ~ExactAt(t, w, <<c>>, w.lo)
  <2>1. SubSeq(t, lo, lo) # <<c>>
    <3>1. SubSeq(t, lo, lo) = <<t[lo]>>  BY <1>1, OneCharacter
    <3>2. <<t[lo]>>[1] = t[lo] /\ <<c>>[1] = c  OBVIOUS
    <3>3. QED  BY <1>1, <1>3, <3>1, <3>2, Zenon
  <2>2. lo + Len(<<c>>) - 1 = lo  OBVIOUS
  <2>3. QED  BY <1>1, <2>1, <2>2 DEF ExactAt
<1>4. found \subseteq 1 .. 4 /\ \A k \in 1 .. 4 : k \in found <=> ExactAt(t, w, SignSymbol(f, k), w.lo)
  BY SignsAre
<1>9. (1 \in found <=> ExactAt(t, w, <<"-">>, w.lo)) /\ (2 \in found <=> ExactAt(t, w, <<"+">>, w.lo))
  <2>1. 1 \in 1 .. 4 /\ 2 \in 1 .. 4  OBVIOUS
  <2>2. Signs(f)[1].symbol = <<"-">> /\ Signs(f)[2].symbol = <<"+">>  BY SignsAre
  <2>3. QED  BY <2>1, <2>2, Zenon
<1> HIDE DEF found
<1>5. \A m \in Nat : m \in found /\ (\A k \in found : m <= k) => Min(found) = m
  <2> SUFFICES ASSUME NEW m \in Nat, m \in found, \A k \in found : m <= k PROVE Min(found) = m
    OBVIOUS
  <2>1. found \subseteq Nat /\ found # {}  BY <1>4
  <2>2. Min(found) \in found /\ \A k \in found : Min(found) <= k  BY <2>1, MinIsLeast
  <2>3. Min(found) \in Nat /\ m <= Min(found) /\ Min(found) <= m  BY <2>1, <2>2
  <2>4. QED  BY <2>3
<1>6. CASE t[w.lo] = "-"
  <2>1. 1 \in found  BY <1>2, <1>9, <1>6
  <2>2. Min(found) = 1 /\ found # {}
    <3>1. \A k \in found : 1 <= k  BY <1>4
    <3>2. QED  BY <1>5, <2>1, <3>1
  <2>3. SignAt(f, t, w) = [width |-> Len(Signs(f)[1].symbol), negative |-> Signs(f)[1].negative]
    BY <2>2, Zenon DEF SignAt, FirstSign, found
  <2>4. Len(Signs(f)[1].symbol) = 1
    <3>1. Signs(f)[1].symbol = <<"-">>  BY SignsAre
    <3>2. Len(<<"-">>) = 1  OBVIOUS
    <3>3. QED  BY <3>1, <3>2, Zenon
  <2>5. \A yes : Signs(f)[1].negative = yes
                   => SignAt(f, t, w) = [width |-> 1, negative |-> yes]
    BY <2>3, <2>4, Zenon
  <2>6. Signs(f)[1].negative = TRUE  BY SignsAre
  <2>7. (t[w.lo] = "-") = TRUE  BY <1>6
  <2>8. SignAt(f, t, w) = [width |-> 1, negative |-> t[w.lo] = "-"]  BY <2>5, <2>6, <2>7, Zenon
  <2>9. [width |-> 1, negative |-> t[w.lo] = "-"] \in [width : Nat, negative : BOOLEAN]  BY <2>7
  <2>10. QED  BY <2>8, <2>9, NotationsAssumption
<1>7. CASE t[w.lo] = "+"
  <2>1. 2 \in found /\ 1 \notin found
    <3>1. t[w.lo] # "-"  BY <1>7
    <3>2. QED  BY <1>2, <1>3, <1>9, <1>7, <3>1
  <2>2. Min(found) = 2 /\ found # {}
    <3>1. \A k \in found : 2 <= k  BY <1>4, <2>1
    <3>2. QED  BY <1>5, <2>1, <3>1
  <2>3. SignAt(f, t, w) = [width |-> Len(Signs(f)[2].symbol), negative |-> Signs(f)[2].negative]
    BY <2>2, Zenon DEF SignAt, FirstSign, found
  <2>4. Len(Signs(f)[2].symbol) = 1
    <3>1. Signs(f)[2].symbol = <<"+">>  BY SignsAre
    <3>2. Len(<<"+">>) = 1  OBVIOUS
    <3>3. QED  BY <3>1, <3>2, Zenon
  <2>5. \A yes : Signs(f)[2].negative = yes
                   => SignAt(f, t, w) = [width |-> 1, negative |-> yes]
    BY <2>3, <2>4, Zenon
  <2>6. Signs(f)[2].negative = FALSE  BY SignsAre
  <2>7. (t[w.lo] = "-") = FALSE  BY <1>7
  <2>8. SignAt(f, t, w) = [width |-> 1, negative |-> t[w.lo] = "-"]  BY <2>5, <2>6, <2>7, Zenon
  <2>9. [width |-> 1, negative |-> t[w.lo] = "-"] \in [width : Nat, negative : BOOLEAN]  BY <2>7
  <2>10. QED  BY <2>8, <2>9, NotationsAssumption
<1>8. QED  BY <1>6, <1>7

(* A currency symbol stands neither at a digit nor behind one.             *)
LEMMA NoSymbolAtDigit ==
    ASSUME NEW f, Declares(f), NEW t \in Seq(STRING), NEW w, w.lo \in Nat \ {0}, w.hi \in Nat,
           NEW lo \in Nat, LooseAt(t, w, f.Currency, lo)
    PROVE  t[lo] \notin Ascii /\ t[lo + Len(f.Currency) - 1] \notin Ascii
<1> DEFINE symbol == f.Currency
<1>1. symbol \in Spelt  BY SymbolsAreSpelt DEF Declares
<1> HIDE DEF symbol
<1>2. symbol # <<>> /\ \A i \in DOMAIN symbol : Alike(t[lo + i - 1], symbol[i])  BY DEF LooseAt, symbol
<1>3. /\ Len(symbol) \in Nat /\ Len(symbol) > 0 /\ DOMAIN symbol = 1 .. Len(symbol)
      /\ \A i \in 1 .. Len(symbol) : symbol[i] \notin Ascii
  BY <1>1, <1>2, SymbolIs
<1>4. \A i \in 1 .. Len(symbol) : t[lo + i - 1] \notin Ascii
  <2>1. SpaceLike \cap Ascii = {}  BY IntegerTextAssumption, NotationsAssumption DEF Ascii
  <2>2. QED  BY <1>2, <1>3, <2>1 DEF Alike
<1>5. 1 \in 1 .. Len(symbol) /\ Len(symbol) \in 1 .. Len(symbol) /\ lo + 1 - 1 = lo  BY <1>3
<1>6. t[lo] \notin Ascii  BY <1>4, <1>5
<1>7. t[lo + Len(symbol) - 1] \notin Ascii  BY <1>4, <1>5
<1>8. QED  BY <1>6, <1>7 DEF symbol
-----------------------------------------------------------------------------
(* Dress.                                                                  *)
DigitEdges(t, n) ==
    /\ n = Window(n.lo, n.hi) /\ n.lo \in Nat \ {0} /\ n.hi \in Nat /\ n.hi <= Len(t) /\ n.lo <= n.hi
    /\ t[n.lo] \in Ascii /\ t[n.hi] \in Ascii

LEMMA NotWhite ==
    ASSUME NEW c, c \in Ascii \/ c \in {"-", "+"}
    PROVE  c \notin White
BY NotationsAssumption DEF Ascii

LEMMA NoSymbolAtEnd ==
    ASSUME NEW f, Declares(f), NEW t \in Seq(STRING), NEW w, w.lo \in Nat \ {0}, w.hi \in Nat,
           w.hi <= Len(t), t[w.hi] \in Ascii
    PROVE  ~LooseAt(t, w, f.Currency, w.hi - Len(f.Currency) + 1)
<1> DEFINE lo == w.hi - Len(f.Currency) + 1
<1> SUFFICES ASSUME LooseAt(t, w, f.Currency, lo) PROVE FALSE
  OBVIOUS
<1>1. Len(f.Currency) \in Nat  BY SymbolsAreSpelt, SymbolIs DEF Declares
<1>2. lo >= w.lo  BY DEF LooseAt
<1>3. lo \in Nat /\ lo + Len(f.Currency) - 1 = w.hi  BY <1>1, <1>2
<1> HIDE DEF lo
<1>4. t[w.hi] \notin Ascii  BY <1>3, NoSymbolAtDigit
<1>5. QED  BY <1>4

LEMMA NoSymbolAtStart ==
    ASSUME NEW f, Declares(f), NEW t \in Seq(STRING), NEW w, w.lo \in Nat \ {0}, w.hi \in Nat,
           w.hi <= Len(t), t[w.lo] \in Ascii
    PROVE  ~LooseAt(t, w, f.Currency, w.lo)
BY NoSymbolAtDigit

(* Digits alone stay as they are; behind a sign, they are what is left.    *)
LEMMA BareNumeral ==
    ASSUME NEW f, Declares(f), NEW t \in Seq(STRING), NEW n, DigitEdges(t, n), NEW body, NEW parens, NEW amount
    PROVE  Unsigned(f, t, body, n, parens, None, None, amount) = Bare(n, parens, amount)
<1>1. SignAt(f, t, n) = None  BY NoSignAt, DigitsAreNoSigns DEF DigitEdges
<1>2. SignEnding(f, t, n) = None  BY NoSignEnding, DigitsAreNoSigns DEF DigitEdges
<1>3. QED  BY <1>1, <1>2, Zenon DEF Unsigned

LEMMA BareBehindSign ==
    ASSUME NEW f, Declares(f), NEW t \in Seq(STRING), NEW n, DigitEdges(t, n), NEW body, NEW parens, ~parens,
           NEW before, before # None, NEW amount
    PROVE  Unsigned(f, t, body, n, parens, before, None, amount) = Bare(n, before.negative, amount)
<1>1. SignAt(f, t, n) = None  BY NoSignAt, DigitsAreNoSigns DEF DigitEdges
<1>2. SignEnding(f, t, n) = None  BY NoSignEnding, DigitsAreNoSigns DEF DigitEdges
<1>3. QED  BY <1>1, <1>2, Zenon DEF Unsigned

(* A body that starts with an ASCII sign, and what stands behind it.       *)
SignedFront(t, body) ==
    /\ body = Window(body.lo, body.hi) /\ body.lo \in Nat \ {0} /\ body.hi \in Nat /\ body.hi <= Len(t)
    /\ body.lo < body.hi /\ t[body.lo] \in {"-", "+"}

Minus(c) == c = "-"

LEMMA BareSigned ==
    ASSUME NEW f, Declares(f), NEW t \in Seq(STRING), NEW n, DigitEdges(t, n), NEW rest, SignedFront(t, rest),
           n.lo = rest.lo + 1, n.hi = rest.hi, NEW body, NEW amount, NEW parens, ~parens
    PROVE  Unsigned(f, t, body, rest, parens, None, None, amount) = Bare(n, Minus(t[rest.lo]), amount)
<1> DEFINE sign == SignAt(f, t, rest)
           minus == t[rest.lo] = "-"
<1>1. sign = [width |-> 1, negative |-> minus] /\ sign # None
  BY AsciiSignAt DEF SignedFront
<1> HIDE DEF sign, minus
<1>2. sign.width = 1 /\ sign.negative = minus  BY <1>1, Zenon
<1>3. TrimStart(t, Window(rest.lo + sign.width, rest.hi)) = n
  <2>1. rest.lo + sign.width = n.lo /\ rest.hi = n.hi  BY <1>2
  <2>2. TrimStart(t, Window(n.lo, n.hi)) = Window(n.lo, n.hi)
    BY TrimStartKeeps, NotWhite DEF DigitEdges
  <2>3. QED  BY <2>1, <2>2, Zenon DEF DigitEdges
<1>4. SignEnding(f, t, n) = None  BY NoSignEnding, DigitsAreNoSigns DEF DigitEdges
<1>5. Unsigned(f, t, body, rest, parens, None, None, amount) = Bare(n, sign.negative, amount)
  BY <1>1, <1>3, <1>4, Zenon DEF Unsigned, sign
<1>6. QED  BY <1>2, <1>5, Zenon DEF minus, Minus

(* The body behind its leading sign.                                       *)
BehindLead(f, t, body) ==
    LET lead == SignAt(f, t, body)
    IN  IF lead = None THEN body ELSE TrimStart(t, Window(body.lo + lead.width, body.hi))

LEMMA BehindLeadIs ==
    ASSUME NEW f, Declares(f), NEW t \in Seq(STRING), NEW body, body.lo \in Nat \ {0}, body.hi \in Nat,
           body.hi <= Len(t), body.lo < body.hi, t[body.lo] \in {"-", "+"}, t[body.lo + 1] \notin White
    PROVE  BehindLead(f, t, body) = Window(body.lo + 1, body.hi)
<1>1. SignAt(f, t, body) # None /\ SignAt(f, t, body).width = 1  BY AsciiSignAt
<1>2. TrimStart(t, Window(body.lo + 1, body.hi)) = Window(body.lo + 1, body.hi)
  BY TrimStartKeeps
<1>3. QED  BY <1>1, <1>2, Zenon DEF BehindLead

LEMMA NoCurrency ==
    ASSUME NEW f, NEW t, NEW body, NEW parens, SignEnding(f, t, body) = None,
           ~LooseAt(t, BehindLead(f, t, body), f.Currency, BehindLead(f, t, body).lo),
           ~LooseAt(t, body, f.Currency, body.hi - Len(f.Currency) + 1)
    PROVE  WithoutCurrency(f, t, body, parens) = Unsigned(f, t, body, body, parens, None, None, FALSE)
BY Zenon DEF WithoutCurrency, BehindLead

LEMMA CurrencyInFront ==
    ASSUME NEW f, NEW t, NEW body, NEW parens, NEW rest, HasCurrency(f), NEW front, front = BehindLead(f, t, body),
           LooseAt(t, front, f.Currency, front.lo),
           Trim(t, Window(front.lo + Len(f.Currency), front.hi)) = rest, ~Blank(rest)
    PROVE  WithoutCurrency(f, t, body, parens)
             = Unsigned(f, t, body, rest, parens, SignAt(f, t, body), None, TRUE)
BY Zenon DEF WithoutCurrency, BehindLead

LEMMA CurrencyBehind ==
    ASSUME NEW f, NEW t, NEW body, NEW parens, NEW rest, HasCurrency(f),
           "trailingSign" \in f.Styles => SignEnding(f, t, body) = None,
           ~LooseAt(t, BehindLead(f, t, body), f.Currency, BehindLead(f, t, body).lo),
           LooseAt(t, body, f.Currency, body.hi - Len(f.Currency) + 1),
           Trim(t, Window(body.lo, body.hi - Len(f.Currency))) = rest, ~Blank(rest)
    PROVE  WithoutCurrency(f, t, body, parens) = Unsigned(f, t, body, rest, parens, None, None, TRUE)
BY Zenon DEF WithoutCurrency, BehindLead

BareAmount(n, negative) == Bare(n, negative, TRUE)
Unwrapped(f, t, body) == WithoutCurrency(f, t, body, FALSE)

LEMMA DigitsBody ==
    ASSUME NEW f, Declares(f), NEW t \in Seq(STRING), NEW n, DigitEdges(t, n), NEW parens
    PROVE  WithoutCurrency(f, t, n, parens) = Bare(n, parens, FALSE)
<1>1. SignAt(f, t, n) = None  BY NoSignAt, DigitsAreNoSigns DEF DigitEdges
<1>2. BehindLead(f, t, n) = n  BY <1>1, Zenon DEF BehindLead
<1>3. SignEnding(f, t, n) = None  BY NoSignEnding, DigitsAreNoSigns DEF DigitEdges
<1>4. ~LooseAt(t, n, f.Currency, n.lo)  BY NoSymbolAtStart DEF DigitEdges
<1>5. ~LooseAt(t, n, f.Currency, n.hi - Len(f.Currency) + 1)  BY NoSymbolAtEnd DEF DigitEdges
<1>6. WithoutCurrency(f, t, n, parens) = Unsigned(f, t, n, n, parens, None, None, FALSE)
  BY <1>2, <1>3, <1>4, <1>5, NoCurrency
<1>7. \A no : Unsigned(f, t, n, n, parens, None, None, no) = Bare(n, parens, no)
  BY BareNumeral
<1>8. QED  BY <1>6, <1>7, Zenon

LEMMA SignedBody ==
    ASSUME NEW f, Declares(f), NEW t \in Seq(STRING), NEW n, DigitEdges(t, n), NEW body,
           n.lo = body.lo + 1, n.hi = body.hi, SignedFront(t, body)
    PROVE  WithoutCurrency(f, t, body, FALSE) = Bare(n, Minus(t[body.lo]), FALSE)
<1>1. body.lo = n.lo - 1 /\ body.hi = n.hi /\ body.lo + 1 = n.lo  BY DEF DigitEdges, SignedFront
<1>2. BehindLead(f, t, body) = n
  <2>1. t[body.lo + 1] \notin White  BY <1>1, NotWhite DEF DigitEdges
  <2>2. BehindLead(f, t, body) = Window(body.lo + 1, body.hi)
    BY <2>1, BehindLeadIs DEF SignedFront
  <2>3. QED  BY <1>1, <2>2 DEF DigitEdges
<1>3. SignEnding(f, t, body) = None
  BY <1>1, NoSignEnding, DigitsAreNoSigns DEF DigitEdges, SignedFront
<1>4. ~LooseAt(t, n, f.Currency, n.lo)  BY NoSymbolAtStart DEF DigitEdges
<1>5. ~LooseAt(t, body, f.Currency, body.hi - Len(f.Currency) + 1)
  BY <1>1, NoSymbolAtEnd DEF DigitEdges, SignedFront
<1>6. WithoutCurrency(f, t, body, FALSE) = Unsigned(f, t, body, body, FALSE, None, None, FALSE)
  BY <1>2, <1>3, <1>4, <1>5, NoCurrency
<1>7. \A parens, no : ~parens => Unsigned(f, t, body, body, parens, None, None, no)
                                    = Bare(n, Minus(t[body.lo]), no)
  BY BareSigned
<1>8. Unsigned(f, t, body, body, FALSE, None, None, FALSE) = Bare(n, Minus(t[body.lo]), FALSE)
  BY <1>7, Zenon
<1>9. QED  BY <1>6, <1>8, Zenon

LEMMA ExactIsLoose ==
    ASSUME NEW t, NEW w, NEW symbol, NEW lo, ExactAt(t, w, symbol, lo)
    PROVE  LooseAt(t, w, symbol, lo)
BY DEF ExactAt

(* A window that starts and ends in ink is its own trim.                   *)
LEMMA EdgesKeep ==
    ASSUME NEW t, NEW n, DigitEdges(t, n)
    PROVE  Trim(t, n) = n /\ ~Blank(n)
<1>1. Trim(t, Window(n.lo, n.hi)) = Window(n.lo, n.hi)  BY TrimKeeps, NotWhite DEF DigitEdges
<1>2. QED  BY <1>1 DEF Blank, DigitEdges

LEMMA SignedEdgesKeep ==
    ASSUME NEW t, NEW n, DigitEdges(t, n), n.lo - 1 \in Nat \ {0}, t[n.lo - 1] \in {"-", "+"}
    PROVE  /\ Trim(t, Window(n.lo - 1, n.hi)) = Window(n.lo - 1, n.hi)
           /\ ~Blank(Window(n.lo - 1, n.hi))
<1>1. t[n.lo - 1] \notin White /\ t[n.hi] \notin White  BY NotWhite DEF DigitEdges
<1>2. Trim(t, Window(n.lo - 1, n.hi)) = Window(n.lo - 1, n.hi)  BY <1>1, TrimKeeps DEF DigitEdges
<1>3. QED  BY <1>2, WindowIs DEF Blank, DigitEdges

LEMMA PrefixedBody ==
    ASSUME NEW f, Declares(f), NEW t \in Seq(STRING), NEW n, DigitEdges(t, n), NEW body, NEW parens,
           HasCurrency(f), body.lo \in Nat \ {0}, ExactAt(t, body, f.Currency, body.lo),
           n.lo = body.lo + Len(f.Currency), n.hi = body.hi, NoneStarts(f, t[body.lo])
    PROVE  WithoutCurrency(f, t, body, parens) = BareAmount(n, parens)
<1>1. body.hi \in Nat /\ body.hi <= Len(t) /\ n = Window(body.lo + Len(f.Currency), body.hi)
  BY DEF DigitEdges
<1>2. SignAt(f, t, body) = None  BY <1>1, NoSignAt
<1>3. body = BehindLead(f, t, body)  BY <1>2, Zenon DEF BehindLead
<1>4. Trim(t, n) = n /\ ~Blank(n)  BY EdgesKeep
<1>5. LooseAt(t, body, f.Currency, body.lo)  BY ExactIsLoose
<1>6. WithoutCurrency(f, t, body, parens) = Unsigned(f, t, body, n, parens, SignAt(f, t, body), None, TRUE)
  BY <1>1, <1>3, <1>4, <1>5, CurrencyInFront
<1>7. \A yes : Unsigned(f, t, body, n, parens, None, None, yes) = Bare(n, parens, yes)
  BY BareNumeral
<1>8. QED  BY <1>2, <1>6, <1>7, Zenon DEF BareAmount

LEMMA PrefixedSignedBody ==
    ASSUME NEW f, Declares(f), NEW t \in Seq(STRING), NEW n, DigitEdges(t, n), NEW body, NEW rest,
           HasCurrency(f), body.lo \in Nat \ {0}, ExactAt(t, body, f.Currency, body.lo),
           rest.lo = body.lo + Len(f.Currency), rest.hi = body.hi, NoneStarts(f, t[body.lo]),
           SignedFront(t, rest), n.lo = rest.lo + 1, n.hi = rest.hi
    PROVE  Unwrapped(f, t, body) = BareAmount(n, Minus(t[rest.lo]))
<1>0. rest.lo \in Nat \ {0} /\ rest.hi \in Nat  BY DEF SignedFront
<1>1. /\ body.hi \in Nat /\ body.hi <= Len(t)
      /\ rest = Window(body.lo + Len(f.Currency), body.hi)
  BY DEF SignedFront
<1>2. SignAt(f, t, body) = None  BY <1>1, NoSignAt
<1>3. body = BehindLead(f, t, body)  BY <1>2, Zenon DEF BehindLead
<1>4. Trim(t, rest) = rest /\ ~Blank(rest)
  <2>1. n.lo - 1 = rest.lo  BY <1>0
  <2>2. Trim(t, Window(n.lo - 1, n.hi)) = Window(n.lo - 1, n.hi) /\ ~Blank(Window(n.lo - 1, n.hi))
    BY <2>1, SignedEdgesKeep DEF SignedFront
  <2>3. QED  BY <2>1, <2>2, Zenon DEF SignedFront
<1>5. LooseAt(t, body, f.Currency, body.lo)  BY ExactIsLoose
<1>6. WithoutCurrency(f, t, body, FALSE) = Unsigned(f, t, body, rest, FALSE, SignAt(f, t, body), None, TRUE)
  BY <1>1, <1>3, <1>4, <1>5, CurrencyInFront
<1>7. \A parens, yes : ~parens => Unsigned(f, t, body, rest, parens, None, None, yes)
                                     = Bare(n, Minus(t[rest.lo]), yes)
  BY <1>0, BareSigned
<1>8. Unsigned(f, t, body, rest, FALSE, None, None, TRUE) = Bare(n, Minus(t[rest.lo]), TRUE)
  BY <1>7, Zenon
<1>9. QED  BY <1>2, <1>6, <1>8, Zenon DEF BareAmount, Unwrapped

LEMMA SignedPrefixedBody ==
    ASSUME NEW f, Declares(f), NEW t \in Seq(STRING), NEW n, DigitEdges(t, n), NEW body, NEW front,
           HasCurrency(f), SignedFront(t, body), front = Window(body.lo + 1, body.hi),
           ExactAt(t, front, f.Currency, front.lo), n.lo = front.lo + Len(f.Currency), n.hi = front.hi
    PROVE  Unwrapped(f, t, body) = BareAmount(n, Minus(t[body.lo]))
<1>1. /\ front.hi \in Nat /\ front.hi <= Len(t) /\ front.lo = body.lo + 1 /\ front.lo \in Nat \ {0}
      /\ front.hi = body.hi /\ n = Window(front.lo + Len(f.Currency), front.hi)
  BY WindowIs DEF DigitEdges, SignedFront
<1>2. t[front.lo] \notin White
  <2>1. f.Currency # <<>> /\ t[front.lo] = f.Currency[1]
    BY <1>1, ExactReads, SymbolsAreSpelt DEF Declares
  <2>2. Head(f.Currency) \notin White /\ Head(f.Currency) = f.Currency[1]  BY <2>1 DEF Declares
  <2>3. QED  BY <2>1, <2>2
<1>3. front = BehindLead(f, t, body)  BY <1>1, <1>2, BehindLeadIs DEF SignedFront
<1>4. Trim(t, n) = n /\ ~Blank(n)  BY EdgesKeep
<1>5. LooseAt(t, front, f.Currency, front.lo)  BY ExactIsLoose
<1> DEFINE lead == SignAt(f, t, body)
           minus == t[body.lo] = "-"
<1>6. WithoutCurrency(f, t, body, FALSE) = Unsigned(f, t, body, n, FALSE, lead, None, TRUE)
  BY <1>1, <1>3, <1>4, <1>5, CurrencyInFront
<1>7. lead = [width |-> 1, negative |-> minus] /\ lead # None  BY AsciiSignAt DEF SignedFront
<1> HIDE DEF lead, minus
<1>8. \A no, yes : ~no => Unsigned(f, t, body, n, no, lead, None, yes) = Bare(n, lead.negative, yes)
  BY <1>7, BareBehindSign
<1>9. lead.negative = minus  BY <1>7, Zenon
<1>10. Unsigned(f, t, body, n, FALSE, lead, None, TRUE) = Bare(n, lead.negative, TRUE)
  BY <1>8, Zenon
<1>11. QED  BY <1>6, <1>9, <1>10, Zenon DEF minus, Minus, BareAmount, Unwrapped

(* Where a symbol that ends a window starts, and what its edges are.       *)
LEMMA EndingReads ==
    ASSUME NEW f, Declares(f), NEW t \in Seq(STRING), NEW w, w.lo \in Nat \ {0}, w.hi \in Nat, w.hi <= Len(t),
           ExactAt(t, w, f.Currency, w.hi - Len(f.Currency) + 1)
    PROVE  /\ f.Currency # <<>> /\ t[w.hi] = Last(f.Currency) /\ t[w.hi] \notin White
           /\ Len(f.Currency) \in Nat /\ w.hi - Len(f.Currency) + 1 >= w.lo
<1> DEFINE symbol == f.Currency
           lo == w.hi - Len(symbol) + 1
<1>1. symbol \in Spelt /\ Len(symbol) \in Nat  BY SymbolsAreSpelt, SymbolIs DEF Declares
<1>2. ExactAt(t, w, symbol, lo) /\ lo >= w.lo  BY DEF ExactAt, LooseAt
<1>3. lo \in Nat \ {0} /\ lo + Len(symbol) - 1 = w.hi  BY <1>1, <1>2
<1>4. Last(symbol) = symbol[Len(symbol)]  BY DEF Last
<1>5. symbol # <<>> => Last(symbol) \notin White  BY DEF Declares
<1> HIDE DEF symbol, lo
<1>6. symbol # <<>> /\ t[w.hi] = symbol[Len(symbol)]  BY <1>1, <1>2, <1>3, ExactReads
<1>7. QED  BY <1>1, <1>2, <1>4, <1>5, <1>6 DEF symbol, lo

LEMMA SuffixedBody ==
    ASSUME NEW f, Declares(f), NEW t \in Seq(STRING), NEW n, DigitEdges(t, n), NEW body, NEW parens,
           HasCurrency(f), body.lo \in Nat \ {0}, body.hi \in Nat, body.hi <= Len(t),
           ExactAt(t, body, f.Currency, body.hi - Len(f.Currency) + 1),
           n.lo = body.lo, n.hi = body.hi - Len(f.Currency),
           "trailingSign" \in f.Styles => NoneEnds(f, t[body.hi])
    PROVE  WithoutCurrency(f, t, body, parens) = BareAmount(n, parens)
<1>1. n = Window(body.lo, body.hi - Len(f.Currency))  BY DEF DigitEdges
<1>2. t[body.lo] \in Ascii  BY DEF DigitEdges
<1>3. SignAt(f, t, body) = None  BY <1>2, NoSignAt, DigitsAreNoSigns
<1>4. BehindLead(f, t, body) = body  BY <1>3, Zenon DEF BehindLead
<1>5. ~LooseAt(t, body, f.Currency, body.lo)  BY <1>2, NoSymbolAtStart
<1>6. "trailingSign" \in f.Styles => SignEnding(f, t, body) = None  BY NoSignEnding
<1>7. LooseAt(t, body, f.Currency, body.hi - Len(f.Currency) + 1)  BY ExactIsLoose
<1>8. Trim(t, n) = n /\ ~Blank(n)  BY EdgesKeep
<1>9. WithoutCurrency(f, t, body, parens) = Unsigned(f, t, body, n, parens, None, None, TRUE)
  BY <1>1, <1>4, <1>5, <1>6, <1>7, <1>8, CurrencyBehind
<1>10. \A yes : Unsigned(f, t, body, n, parens, None, None, yes) = Bare(n, parens, yes)
  BY BareNumeral
<1>11. QED  BY <1>9, <1>10, Zenon DEF BareAmount, Unwrapped

LEMMA SignedSuffixedBody ==
    ASSUME NEW f, Declares(f), NEW t \in Seq(STRING), NEW n, DigitEdges(t, n), NEW body, NEW rest,
           HasCurrency(f), SignedFront(t, body),
           ExactAt(t, body, f.Currency, body.hi - Len(f.Currency) + 1),
           rest = Window(body.lo, body.hi - Len(f.Currency)), n.lo = body.lo + 1, n.hi = rest.hi,
           "trailingSign" \in f.Styles => NoneEnds(f, t[body.hi])
    PROVE  Unwrapped(f, t, body) = BareAmount(n, Minus(t[body.lo]))
<1>1. rest.lo = body.lo /\ rest.hi = body.hi - Len(f.Currency)  BY WindowIs
<1>0. body.lo \in Nat \ {0} /\ body.hi \in Nat /\ body.hi <= Len(t) /\ body.lo < body.hi
  BY DEF SignedFront
<1>2. SignedFront(t, rest)
  <2>1. rest.hi \in Nat /\ rest.hi <= Len(t) /\ rest.lo < rest.hi  BY <1>0, <1>1 DEF DigitEdges
  <2>2. QED  BY <1>1, <2>1, Zenon DEF SignedFront
<1>3. BehindLead(f, t, body) = Window(body.lo + 1, body.hi)
  <2>1. t[body.lo + 1] \notin White  BY NotWhite DEF DigitEdges
  <2>2. QED  BY <2>1, BehindLeadIs DEF SignedFront
<1>5. ~LooseAt(t, BehindLead(f, t, body), f.Currency, BehindLead(f, t, body).lo)
  <2> DEFINE front == Window(body.lo + 1, body.hi)
  <2>1. front.lo = n.lo /\ front.hi = body.hi  BY WindowIs
  <2>2. front.lo \in Nat \ {0} /\ t[front.lo] \in Ascii  BY <2>1 DEF DigitEdges
  <2> HIDE DEF front
  <2>3. ~LooseAt(t, front, f.Currency, front.lo)  BY <1>0, <2>1, <2>2, NoSymbolAtStart
  <2>4. QED  BY <1>3, <2>3, Zenon DEF front
<1>6. "trailingSign" \in f.Styles => SignEnding(f, t, body) = None  BY <1>0, NoSignEnding
<1>7. LooseAt(t, body, f.Currency, body.hi - Len(f.Currency) + 1)  BY ExactIsLoose
<1>8. Trim(t, rest) = rest /\ ~Blank(rest)
  <2>1. n.lo - 1 = rest.lo  BY <1>0, <1>1
  <2>2. Trim(t, Window(n.lo - 1, n.hi)) = Window(n.lo - 1, n.hi) /\ ~Blank(Window(n.lo - 1, n.hi))
    BY <1>2, <2>1, SignedEdgesKeep DEF SignedFront
  <2>3. QED  BY <1>2, <2>1, <2>2, Zenon DEF SignedFront
<1>9. WithoutCurrency(f, t, body, FALSE) = Unsigned(f, t, body, rest, FALSE, None, None, TRUE)
  BY <1>5, <1>6, <1>7, <1>8, CurrencyBehind
<1>10. \A parens, yes : ~parens => Unsigned(f, t, body, rest, parens, None, None, yes)
                                      = Bare(n, Minus(t[rest.lo]), yes)
  BY <1>1, <1>2, BareSigned
<1>11. Unsigned(f, t, body, rest, FALSE, None, None, TRUE) = Bare(n, Minus(t[rest.lo]), TRUE)
  BY <1>10, Zenon
<1>12. QED  BY <1>1, <1>9, <1>11, Zenon DEF BareAmount, Unwrapped
-----------------------------------------------------------------------------
(* What PlainlyDressed sees in a body, parentheses off.                    *)
Prefixed(f, t, body) ==
    HasCurrency(f) /\ ExactAt(t, BehindSign(t, body), f.Currency, BehindSign(t, body).lo)

Suffixed(f, t, body) ==
    HasCurrency(f) /\ ~Prefixed(f, t, body) /\ ExactAt(t, body, f.Currency, body.hi - Len(f.Currency) + 1)

Amount(f, t, body) == Prefixed(f, t, body) \/ Suffixed(f, t, body)

BehindSymbol(f, t, body) == Window(BehindSign(t, body).lo + Len(f.Currency), BehindSign(t, body).hi)

NumeralOf(f, t, body) ==
    IF Prefixed(f, t, body) THEN BehindSign(t, BehindSymbol(f, t, body))
    ELSE IF Suffixed(f, t, body) THEN Window(BehindSign(t, body).lo, BehindSign(t, body).hi - Len(f.Currency))
    ELSE BehindSign(t, body)

Again(f, t, body) == Prefixed(f, t, body) /\ PlainSign(t, BehindSymbol(f, t, body))

NegativeOf(f, t, body, parens) ==
    IF Again(f, t, body) THEN t[BehindSymbol(f, t, body).lo] = "-"
    ELSE IF PlainSign(t, body) THEN t[body.lo] = "-" ELSE parens

(* No spelling of a sign starts as the currency symbol does, nor, where a  *)
(* sign may end a number, ends as it does.                                 *)
SymbolsApart(f) ==
    HasCurrency(f) =>
        /\ \A k \in {3, 4} : Signs(f)[k].symbol # <<>> => Head(Signs(f)[k].symbol) # Head(f.Currency)
        /\ "trailingSign" \in f.Styles =>
              \A k \in 1 .. 4 : Signs(f)[k].symbol # <<>> => Last(Signs(f)[k].symbol) # Last(f.Currency)

LEMMA ApartStarts ==
    ASSUME NEW f, Declares(f), SymbolsApart(f), HasCurrency(f), NEW c, c = Head(f.Currency), c \notin {"-", "+"}
    PROVE  NoneStarts(f, c)
<1>1. ASSUME NEW k \in 1 .. 4, SignSymbol(f, k) # <<>> PROVE SignSymbol(f, k)[1] # c
  <2>1. CASE k \in {3, 4}
    <3>1. Signs(f)[k].symbol # <<>> => Head(Signs(f)[k].symbol) # c  BY <2>1 DEF SymbolsApart
    <3>2. Head(SignSymbol(f, k)) # c  BY <1>1, <3>1, Zenon DEF SignSymbol
    <3>3. QED  BY <3>2
  <2>2. CASE k \in {1, 2}
    <3>1. SignSymbol(f, k) \in {<<"-">>, <<"+">>}  BY <2>2, SignsAre
    <3>2. QED  BY <3>1
  <2>3. QED  BY <2>1, <2>2
<1>2. QED  BY <1>1, Zenon DEF NoneStarts

LEMMA ApartEnds ==
    ASSUME NEW f, Declares(f), SymbolsApart(f), HasCurrency(f), NEW c, c = Last(f.Currency),
           "trailingSign" \in f.Styles
    PROVE  NoneEnds(f, c)
<1>1. ASSUME NEW k \in 1 .. 4, SignSymbol(f, k) # <<>>
      PROVE  SignSymbol(f, k)[Len(SignSymbol(f, k))] # c
  <2>1. Signs(f)[k].symbol # <<>> => Last(Signs(f)[k].symbol) # c  BY DEF SymbolsApart
  <2>2. Last(SignSymbol(f, k)) # c  BY <1>1, <2>1, Zenon DEF SignSymbol
  <2>3. QED  BY <2>2, Zenon DEF Last
<1>2. QED  BY <1>1, Zenon DEF NoneEnds

(* A plain numeral starts and ends with a digit.                           *)
LEMMA NumeralEdges ==
    ASSUME NEW f, NEW t, NEW n, n = Window(n.lo, n.hi), n.lo \in Nat \ {0}, n.hi \in Int, Len(t) \in Nat,
           n.hi <= Len(t), NEW amount, PlainNumeral(f, t, n, amount)
    PROVE  DigitEdges(t, n) /\ PlainSpan(f, t, n.lo, n.hi, amount)
<1>1. ~Blank(n)  BY DEF PlainNumeral
<1>2. n.lo <= n.hi /\ n.hi \in Nat  BY <1>1 DEF Blank
<1>3. PlainNumeral(f, t, Window(n.lo, n.hi), amount)  BY Zenon
<1>4. PlainSpan(f, t, n.lo, n.hi, amount)  BY <1>2, <1>3, PlainNumeralIs
<1>5. PICK lo \in Nat \ {0}, hi \in Nat : lo = n.lo /\ hi = n.hi /\ lo <= hi  BY <1>2
<1>6. \A i \in MarksUpTo(t, lo, hi) : i - 1 \in lo .. hi /\ i + 1 \in lo .. hi
  BY <1>4, <1>5 DEF PlainSpan
<1>7. ~(lo - 1 \in lo .. hi) /\ ~(hi + 1 \in lo .. hi)  BY <1>5
<1>8. lo \notin MarksUpTo(t, lo, hi) /\ hi \notin MarksUpTo(t, lo, hi)  BY <1>6, <1>7
<1>9. t[lo] \in Ascii /\ t[hi] \in Ascii  BY <1>5, <1>8 DEF MarksUpTo
<1>10. QED  BY <1>2, <1>4, <1>5, <1>9 DEF DigitEdges

LEMMA BehindSignIs ==
    ASSUME NEW t, NEW w, Inside(w, t)
    PROVE  /\ PlainSign(t, w) => /\ BehindSign(t, w) = Window(w.lo + 1, w.hi)
                                 /\ w.lo <= w.hi /\ t[w.lo] \in {"-", "+"}
           /\ ~PlainSign(t, w) => BehindSign(t, w) = w /\ (w.lo <= w.hi => t[w.lo] \notin {"-", "+"})
<1>1. ~Blank(w) <=> w.lo <= w.hi  BY DEF Blank, Inside
<1>2. QED  BY <1>1 DEF BehindSign, PlainSign

(* What the shortcut takes for the numeral, its sign and an amount is what *)
(* undressing the body finds.                                              *)
FoundBare(f, t, body, parens) ==
    /\ WithoutCurrency(f, t, body, parens)
         = Bare(NumeralOf(f, t, body), NegativeOf(f, t, body, parens), Amount(f, t, body))
    /\ DigitEdges(t, NumeralOf(f, t, body))
    /\ body.lo <= body.hi
    /\ ~PlainSign(t, body) => t[body.lo] \notin White /\ t[body.hi] \notin White

LEMMA NakedFound ==
    ASSUME NEW f, Declares(f), NEW t \in Seq(STRING), NEW body, Inside(body, t), NEW parens,
           PlainNumeral(f, t, NumeralOf(f, t, body), Amount(f, t, body)), ~Amount(f, t, body),
           parens = FALSE \/ ~PlainSign(t, body)
    PROVE  FoundBare(f, t, body, parens)
<1> DEFINE n == NumeralOf(f, t, body)
<1>1. Amount(f, t, body) = FALSE /\ ~Prefixed(f, t, body) /\ ~Suffixed(f, t, body) /\ ~Again(f, t, body)
  BY Zenon DEF Amount, Again
<1>2. n = BehindSign(t, body)  BY <1>1, Zenon DEF NumeralOf
<1>3. Len(t) \in Nat  OBVIOUS
<1> HIDE DEF n
<1>4. PlainNumeral(f, t, n, Amount(f, t, body))  BY DEF n
<1>5. CASE ~PlainSign(t, body)
  <2>1. n = body  BY <1>2, <1>5, BehindSignIs
  <2>2. DigitEdges(t, n)  BY <1>3, <1>4, <2>1, NumeralEdges DEF Inside
  <2>3. WithoutCurrency(f, t, body, parens) = Bare(n, parens, FALSE)  BY <2>1, <2>2, DigitsBody
  <2>4. NegativeOf(f, t, body, parens) = parens  BY <1>1, <1>5, Zenon DEF NegativeOf
  <2>5. body.lo <= body.hi /\ t[body.lo] \notin White /\ t[body.hi] \notin White
    BY <2>1, <2>2, NotWhite DEF DigitEdges
  <2>6. QED  BY <1>1, <2>2, <2>3, <2>4, <2>5, Zenon DEF FoundBare, n
<1>6. CASE PlainSign(t, body)
  <2>1. n = Window(body.lo + 1, body.hi) /\ t[body.lo] \in {"-", "+"}  BY <1>2, <1>6, BehindSignIs
  <2>2. n.lo = body.lo + 1 /\ n.hi = body.hi /\ body.lo \in Nat \ {0} /\ body.hi \in Nat /\ body.hi <= Len(t)
    BY <2>1, WindowIs DEF Inside
  <2>3. DigitEdges(t, n)
    <3>1. n = Window(n.lo, n.hi)  BY <2>1, <2>2
    <3>2. n.lo \in Nat \ {0} /\ n.hi \in Int  BY <2>2
    <3>3. QED  BY <1>3, <1>4, <2>2, <3>1, <3>2, NumeralEdges
  <2>4. SignedFront(t, body)
    <3>1. body.lo < body.hi  BY <2>2, <2>3 DEF DigitEdges
    <3>2. QED  BY <2>1, <2>2, <3>1 DEF SignedFront, Inside
  <2>5. WithoutCurrency(f, t, body, FALSE) = Bare(n, Minus(t[body.lo]), FALSE)
    BY <2>2, <2>3, <2>4, SignedBody
  <2>6. NegativeOf(f, t, body, parens) = (t[body.lo] = "-")  BY <1>1, <1>6, Zenon DEF NegativeOf
  <2>7. body.lo <= body.hi  BY <2>4 DEF SignedFront
  <2>8. parens = FALSE  BY <1>6
  <2>9. QED  BY <1>1, <1>6, <2>3, <2>5, <2>6, <2>7, <2>8, Zenon DEF FoundBare, Minus, n
<1>7. QED  BY <1>5, <1>6

LEMMA StartingReads ==
    ASSUME NEW f, Declares(f), NEW t \in Seq(STRING), NEW w, w.lo \in Nat \ {0}, w.hi \in Nat, w.hi <= Len(t),
           ExactAt(t, w, f.Currency, w.lo)
    PROVE  /\ f.Currency # <<>> /\ t[w.lo] = Head(f.Currency) /\ t[w.lo] \notin White
           /\ Len(f.Currency) > 0 /\ w.lo + Len(f.Currency) - 1 <= w.hi
<1> DEFINE symbol == f.Currency
<1>1. symbol \in Spelt /\ ExactAt(t, w, symbol, w.lo)  BY SymbolsAreSpelt DEF Declares
<1>2. symbol # <<>> => Head(symbol) \notin White  BY DEF Declares
<1> HIDE DEF symbol
<1>3. symbol # <<>> /\ w.lo + Len(symbol) - 1 <= w.hi /\ t[w.lo] = symbol[1]  BY <1>1, ExactReads
<1>4. Len(symbol) > 0  BY <1>1, <1>3, SymbolIs
<1>5. Head(symbol) = symbol[1]  OBVIOUS
<1>6. QED  BY <1>2, <1>3, <1>4, <1>5 DEF symbol

LEMMA PrefixedFound ==
    ASSUME NEW f, Declares(f), SymbolsApart(f), NEW t \in Seq(STRING), NEW body, Inside(body, t), NEW parens,
           PlainNumeral(f, t, NumeralOf(f, t, body), Amount(f, t, body)), Prefixed(f, t, body),
           parens = FALSE \/ ~PlainSign(t, body),
           Again(f, t, body) => parens = FALSE /\ ~PlainSign(t, body)
    PROVE  FoundBare(f, t, body, parens)
<1>0. PICK width \in Nat : width = Len(f.Currency)
  <2>1. Len(f.Currency) \in Nat  BY SymbolsAreSpelt, SymbolIs DEF Declares
  <2>2. QED  BY <2>1
<1>1. PICK front, behind, n :
          /\ front = BehindSign(t, body) /\ behind = BehindSymbol(f, t, body)
          /\ n = NumeralOf(f, t, body)
  OBVIOUS
<1>2. Amount(f, t, body) = TRUE  BY Zenon DEF Amount
<1>3. n = BehindSign(t, behind) /\ PlainNumeral(f, t, n, Amount(f, t, body))
  BY <1>1, Zenon DEF NumeralOf
<1>4. HasCurrency(f) /\ ExactAt(t, front, f.Currency, front.lo)  BY <1>1 DEF Prefixed
<1>5. behind = Window(front.lo + width, front.hi)  BY <1>0, <1>1 DEF BehindSymbol
<1>6. /\ body = Window(body.lo, body.hi) /\ body.lo \in Nat \ {0} /\ body.hi \in Nat
      /\ body.hi <= Len(t) /\ Len(t) \in Nat
  BY DEF Inside
<1>7. /\ front.lo \in Nat \ {0} /\ front.hi = body.hi /\ front = Window(front.lo, front.hi)
      /\ PlainSign(t, body) => front.lo = body.lo + 1 /\ body.lo <= body.hi /\ t[body.lo] \in {"-", "+"}
      /\ ~PlainSign(t, body) => front = body /\ (body.lo <= body.hi => t[body.lo] \notin {"-", "+"})
  <2>1. CASE PlainSign(t, body)
    <3>1. front = Window(body.lo + 1, body.hi) /\ body.lo <= body.hi /\ t[body.lo] \in {"-", "+"}
      BY <1>1, <2>1, BehindSignIs
    <3>2. front.lo = body.lo + 1 /\ front.hi = body.hi  BY <3>1, WindowIs
    <3>3. QED  BY <1>6, <2>1, <3>1, <3>2
  <2>2. CASE ~PlainSign(t, body)
    BY <1>1, <1>6, <2>2, BehindSignIs
  <2>3. QED  BY <2>1, <2>2
<1>8. /\ f.Currency # <<>> /\ width > 0 /\ front.lo + width - 1 <= body.hi
      /\ t[front.lo] = Head(f.Currency) /\ t[front.lo] \notin White
  <2>1. front.hi \in Nat /\ front.hi <= Len(t)  BY <1>6, <1>7
  <2>2. /\ f.Currency # <<>> /\ t[front.lo] = Head(f.Currency) /\ t[front.lo] \notin White
        /\ Len(f.Currency) > 0 /\ front.lo + Len(f.Currency) - 1 <= front.hi
    BY <1>4, <1>7, <2>1, StartingReads
  <2>3. QED  BY <1>0, <1>7, <2>2
<1>9. behind.lo = front.lo + width /\ behind.hi = body.hi /\ Inside(behind, t)
  <2>1. behind.lo = front.lo + width /\ behind.hi = front.hi  BY <1>5, WindowIs
  <2>2. behind = Window(behind.lo, behind.hi)  BY <1>5, <2>1
  <2>3. behind.lo \in Nat \ {0}  BY <1>7, <2>1
  <2>4. QED  BY <1>6, <1>7, <2>1, <2>2, <2>3 DEF Inside
<1>10. Again(f, t, body) <=> PlainSign(t, behind)  BY <1>1, Zenon DEF Again
<1>11. /\ PlainSign(t, behind) => /\ n.lo = behind.lo + 1 /\ behind.lo <= behind.hi
                                  /\ t[behind.lo] \in {"-", "+"}
       /\ ~PlainSign(t, behind) => n.lo = behind.lo
       /\ n.hi = body.hi /\ n = Window(n.lo, n.hi)
  <2>1. CASE PlainSign(t, behind)
    <3>1. n = Window(behind.lo + 1, behind.hi) /\ behind.lo <= behind.hi /\ t[behind.lo] \in {"-", "+"}
      BY <1>3, <1>9, <2>1, BehindSignIs
    <3>2. n.lo = behind.lo + 1 /\ n.hi = body.hi  BY <1>9, <3>1, WindowIs
    <3>3. QED  BY <1>9, <2>1, <3>1, <3>2
  <2>2. CASE ~PlainSign(t, behind)
    <3>1. n = behind  BY <1>3, <1>9, <2>2, BehindSignIs
    <3>2. QED  BY <1>9, <2>2, <3>1 DEF Inside
  <2>3. QED  BY <2>1, <2>2
<1>12. DigitEdges(t, n)
  <2>1. n.lo \in Nat \ {0} /\ n.hi \in Int /\ n.hi <= Len(t)  BY <1>6, <1>7, <1>9, <1>11
  <2>2. QED  BY <1>3, <1>6, <1>11, <2>1, NumeralEdges
<1>13. body.lo <= body.hi /\ n.lo <= body.hi /\ front.lo <= body.hi
  <2>1. n.lo <= body.hi  BY <1>11, <1>12 DEF DigitEdges
  <2>2. QED  BY <1>6, <1>7, <1>8, <2>1
<1>14. ~PlainSign(t, body) => t[body.lo] \notin White /\ t[body.hi] \notin White
  BY <1>7, <1>8, <1>11, <1>12, NotWhite DEF DigitEdges
<1>15. CASE PlainSign(t, body)
  <2>1. SignedFront(t, body)
    <3>1. body.lo < body.hi  BY <1>6, <1>7, <1>13, <1>15
    <3>2. QED  BY <1>6, <1>7, <1>15, <3>1 DEF SignedFront
  <2>2. n.lo = front.lo + width /\ n.hi = front.hi /\ front = Window(body.lo + 1, body.hi)
    BY <1>7, <1>9, <1>10, <1>11, <1>15
  <2>3. Unwrapped(f, t, body) = BareAmount(n, Minus(t[body.lo]))
    BY <1>0, <1>4, <1>12, <2>1, <2>2, SignedPrefixedBody
  <2>4. NegativeOf(f, t, body, parens) = Minus(t[body.lo]) /\ parens = FALSE
    BY <1>15, Zenon DEF NegativeOf, Minus
  <2>5. QED  BY <1>1, <1>2, <1>12, <1>13, <1>15, <2>3, <2>4, Zenon DEF FoundBare, BareAmount, Unwrapped
<1>16. CASE ~PlainSign(t, body)
  <2>1. front = body /\ t[body.lo] \notin {"-", "+"}  BY <1>7, <1>13, <1>16
  <2>2. NoneStarts(f, t[body.lo])  BY <1>4, <1>8, <2>1, ApartStarts
  <2>6. ExactAt(t, body, f.Currency, body.lo)  BY <1>4, <2>1, Zenon
  <2>7. HasCurrency(f) /\ body.lo \in Nat \ {0}  BY <1>4, <1>6
  <2>3. CASE PlainSign(t, behind)
    <3>1. SignedFront(t, behind)
      <4>1. behind.lo < behind.hi  BY <1>6, <1>7, <1>9, <1>11, <1>13, <2>3
      <4>2. QED  BY <1>9, <1>11, <2>3, <4>1 DEF SignedFront, Inside
    <3>2. behind.lo = body.lo + Len(f.Currency) /\ behind.hi = body.hi
      BY <1>0, <1>9, <2>1
    <3>3. n.lo = behind.lo + 1 /\ n.hi = behind.hi  BY <1>9, <1>11, <2>3
    <3>4. Unwrapped(f, t, body) = BareAmount(n, Minus(t[behind.lo]))
      BY <1>12, <2>2, <2>6, <2>7, <3>1, <3>2, <3>3, PrefixedSignedBody
    <3>5. NegativeOf(f, t, body, parens) = Minus(t[behind.lo]) /\ parens = FALSE
      BY <1>1, <1>10, <2>3, Zenon DEF NegativeOf, Minus
    <3>6. QED  BY <1>1, <1>2, <1>12, <1>13, <1>14, <3>4, <3>5, Zenon DEF FoundBare, BareAmount, Unwrapped
  <2>4. CASE ~PlainSign(t, behind)
    <3>1. n.lo = body.lo + Len(f.Currency) /\ n.hi = body.hi  BY <1>0, <1>9, <1>11, <2>1, <2>4
    <3>2. WithoutCurrency(f, t, body, parens) = BareAmount(n, parens)
      BY <1>12, <2>2, <2>6, <2>7, <3>1, PrefixedBody
    <3>3. NegativeOf(f, t, body, parens) = parens
      BY <1>10, <1>16, <2>4, Zenon DEF NegativeOf
    <3>4. QED  BY <1>1, <1>2, <1>12, <1>13, <1>14, <3>2, <3>3, Zenon DEF FoundBare, BareAmount, Unwrapped
  <2>5. QED  BY <2>3, <2>4
<1>17. QED  BY <1>15, <1>16

LEMMA SuffixedFound ==
    ASSUME NEW f, Declares(f), SymbolsApart(f), NEW t \in Seq(STRING), NEW body, Inside(body, t), NEW parens,
           PlainNumeral(f, t, NumeralOf(f, t, body), Amount(f, t, body)), Suffixed(f, t, body),
           parens = FALSE \/ ~PlainSign(t, body)
    PROVE  FoundBare(f, t, body, parens)
<1>0. PICK width \in Nat : width = Len(f.Currency)
  <2>1. Len(f.Currency) \in Nat  BY SymbolsAreSpelt, SymbolIs DEF Declares
  <2>2. QED  BY <2>1
<1>1. PICK front, n : front = BehindSign(t, body) /\ n = NumeralOf(f, t, body)
  OBVIOUS
<1>2. Amount(f, t, body) = TRUE /\ ~Prefixed(f, t, body) /\ ~Again(f, t, body)
  BY Zenon DEF Amount, Suffixed, Again
<1>3. n = Window(front.lo, front.hi - width) /\ PlainNumeral(f, t, n, Amount(f, t, body))
  BY <1>0, <1>1, <1>2, Zenon DEF NumeralOf
<1>4. HasCurrency(f) /\ ExactAt(t, body, f.Currency, body.hi - Len(f.Currency) + 1)  BY DEF Suffixed
<1>6. /\ body = Window(body.lo, body.hi) /\ body.lo \in Nat \ {0} /\ body.hi \in Nat
      /\ body.hi <= Len(t) /\ Len(t) \in Nat
  BY DEF Inside
<1>7. /\ front.lo \in Nat \ {0} /\ front.hi = body.hi
      /\ PlainSign(t, body) => front.lo = body.lo + 1 /\ body.lo <= body.hi /\ t[body.lo] \in {"-", "+"}
      /\ ~PlainSign(t, body) => front = body
  <2>1. CASE PlainSign(t, body)
    <3>1. front = Window(body.lo + 1, body.hi) /\ body.lo <= body.hi /\ t[body.lo] \in {"-", "+"}
      BY <1>1, <2>1, BehindSignIs
    <3>2. front.lo = body.lo + 1 /\ front.hi = body.hi  BY <3>1, WindowIs
    <3>3. QED  BY <1>6, <2>1, <3>1, <3>2
  <2>2. CASE ~PlainSign(t, body)
    BY <1>1, <1>6, <2>2, BehindSignIs
  <2>3. QED  BY <2>1, <2>2
<1>8. /\ t[body.hi] = Last(f.Currency) /\ t[body.hi] \notin White
      /\ body.hi - width + 1 >= body.lo
  BY <1>0, <1>4, <1>6, EndingReads
<1>9. n.lo = front.lo /\ n.hi = body.hi - width  BY <1>3, <1>7, WindowIs
<1>10. DigitEdges(t, n)
  <2>1. n.lo \in Nat \ {0} /\ n.hi \in Int /\ n.hi <= Len(t)  BY <1>6, <1>7, <1>9
  <2>2. n = Window(n.lo, n.hi)  BY <1>3, <1>7, <1>9
  <2>3. QED  BY <1>3, <1>6, <2>1, <2>2, NumeralEdges
<1>11. "trailingSign" \in f.Styles => NoneEnds(f, t[body.hi])  BY <1>4, <1>8, ApartEnds
<1>12. n.lo <= n.hi  BY <1>10 DEF DigitEdges
<1>13. CASE PlainSign(t, body)
  <2>1. body.lo < body.hi /\ n.lo = body.lo + 1  BY <1>6, <1>7, <1>9, <1>12, <1>13
  <2>2. SignedFront(t, body)  BY <1>6, <1>7, <1>13, <2>1 DEF SignedFront
  <2>3. PICK rest : rest = Window(body.lo, body.hi - Len(f.Currency))  OBVIOUS
  <2>4. n.hi = rest.hi  BY <1>0, <1>9, <2>3, WindowIs
  <2>5. Unwrapped(f, t, body) = BareAmount(n, Minus(t[body.lo]))
    BY <1>4, <1>10, <1>11, <2>1, <2>2, <2>3, <2>4, SignedSuffixedBody
  <2>6. NegativeOf(f, t, body, parens) = Minus(t[body.lo]) /\ parens = FALSE
    BY <1>2, <1>13, Zenon DEF NegativeOf, Minus
  <2>7. body.lo <= body.hi  BY <1>6, <2>1
  <2>8. QED  BY <1>1, <1>2, <1>10, <1>13, <2>5, <2>6, <2>7, Zenon DEF FoundBare, BareAmount, Unwrapped
<1>14. CASE ~PlainSign(t, body)
  <2>1. n.lo = body.lo /\ n.hi = body.hi - Len(f.Currency)  BY <1>0, <1>7, <1>9, <1>14
  <2>2. WithoutCurrency(f, t, body, parens) = BareAmount(n, parens)
    BY <1>4, <1>6, <1>10, <1>11, <2>1, SuffixedBody
  <2>3. NegativeOf(f, t, body, parens) = parens  BY <1>2, <1>14, Zenon DEF NegativeOf
  <2>4. body.lo <= body.hi  BY <1>0, <1>6, <1>9, <1>12, <2>1
  <2>5. t[body.lo] \notin White /\ t[body.hi] \notin White
    BY <1>8, <1>10, <2>1, NotWhite DEF DigitEdges
  <2>6. QED  BY <1>1, <1>2, <1>10, <2>2, <2>3, <2>4, <2>5, Zenon DEF FoundBare, BareAmount
<1>15. QED  BY <1>13, <1>14

LEMMA BodyFound ==
    ASSUME NEW f, Declares(f), SymbolsApart(f), NEW t \in Seq(STRING), NEW body, Inside(body, t), NEW parens,
           PlainNumeral(f, t, NumeralOf(f, t, body), Amount(f, t, body)),
           parens = FALSE \/ ~PlainSign(t, body),
           Again(f, t, body) => parens = FALSE /\ ~PlainSign(t, body)
    PROVE  FoundBare(f, t, body, parens)
<1>1. CASE Prefixed(f, t, body)  BY <1>1, PrefixedFound
<1>2. CASE Suffixed(f, t, body)  BY <1>2, SuffixedFound
<1>3. CASE ~Amount(f, t, body)  BY <1>3, NakedFound
<1>4. QED  BY <1>1, <1>2, <1>3 DEF Amount

Wrapped(f, t, w) == "parentheses" \in f.Styles /\ t[w.lo] = "("

BodyOf(f, t, w) == IF Wrapped(f, t, w) THEN Window(w.lo + 1, w.hi - 1) ELSE w

(* When the shortcut for dressed numerals answers, and what.               *)
DressFits(f, t, w, body, parens) ==
    /\ {f.DecimalSep, f.GroupSep, DecimalOf(f, Amount(f, t, body)), GroupOf(f, Amount(f, t, body))} \cap Wide = {}
    /\ parens => w.lo < w.hi /\ t[w.hi] = ")" /\ ~PlainSign(t, body)
    /\ Again(f, t, body) => ~parens /\ ~PlainSign(t, body)
    /\ PlainNumeral(f, t, NumeralOf(f, t, body), Amount(f, t, body))

LEMMA DressedIs ==
    ASSUME NEW f, NEW t, NEW w, NEW body, body = BodyOf(f, t, w)
    PROVE  PlainlyDressed(f, t, w)
             = IF DressFits(f, t, w, body, Wrapped(f, t, w))
               THEN InRange(Signed(NegativeOf(f, t, body, Wrapped(f, t, w)), Value(t, NumeralOf(f, t, body))), w)
               ELSE None
BY Zenon DEF PlainlyDressed, DressFits, NegativeOf, NumeralOf, Amount, Again, Prefixed, Suffixed,
             BehindSymbol, Wrapped, BodyOf

LEMMA UndressedIs ==
    ASSUME NEW f, Declares(f), SymbolsApart(f), NEW t \in Seq(STRING), NEW w, Inside(w, t),
           NEW body, body = BodyOf(f, t, w), DressFits(f, t, w, body, Wrapped(f, t, w))
    PROVE  /\ Undress(f, t, w) = Bare(NumeralOf(f, t, body), NegativeOf(f, t, body, Wrapped(f, t, w)),
                                      Amount(f, t, body))
           /\ DigitEdges(t, NumeralOf(f, t, body))
<1>1. PICK parens : parens = Wrapped(f, t, w)  OBVIOUS
<1>2. /\ PlainNumeral(f, t, NumeralOf(f, t, body), Amount(f, t, body))
      /\ parens => w.lo < w.hi /\ t[w.hi] = ")" /\ ~PlainSign(t, body)
      /\ Again(f, t, body) => ~parens /\ ~PlainSign(t, body)
  BY <1>1, Zenon DEF DressFits
<1>3. CASE ~Wrapped(f, t, w)
  <2>1. body = w /\ parens = FALSE  BY <1>1, <1>3 DEF BodyOf
  <2>2. FoundBare(f, t, body, parens)  BY <1>2, <2>1, BodyFound
  <2>3. Undress(f, t, w) = WithoutCurrency(f, t, body, parens)
    BY <1>3, <2>1, Zenon DEF Undress, Wrapped
  <2>4. QED  BY <1>1, <2>2, <2>3, Zenon DEF FoundBare
<1>4. CASE Wrapped(f, t, w)
  <2>1. body = Window(w.lo + 1, w.hi - 1) /\ parens = TRUE  BY <1>1, <1>4 DEF BodyOf, Wrapped
  <2>2. w.lo \in Nat \ {0} /\ w.hi \in Nat /\ w.hi <= Len(t) /\ Len(t) \in Nat /\ w.lo < w.hi
    BY <1>2, <2>1 DEF Inside
  <2>3. body.lo = w.lo + 1 /\ body.hi = w.hi - 1  BY <2>1, WindowIs
  <2>4. Inside(body, t)  BY <2>1, <2>2, <2>3 DEF Inside
  <2>5. ~PlainSign(t, body) /\ ~Again(f, t, body)  BY <1>2, <2>1
  <2>6. FoundBare(f, t, body, parens)  BY <1>2, <2>4, <2>5, BodyFound
  <2>7. body.lo <= body.hi /\ t[body.lo] \notin White /\ t[body.hi] \notin White
    BY <2>5, <2>6, Zenon DEF FoundBare
  <2>8. Trim(t, body) = body /\ ~Blank(body)
    <3>1. body = Window(body.lo, body.hi) /\ body.lo \in Nat /\ body.hi \in Nat  BY <2>4 DEF Inside
    <3>2. Trim(t, Window(body.lo, body.hi)) = Window(body.lo, body.hi)  BY <2>7, <3>1, TrimKeeps
    <3>3. QED  BY <2>7, <3>1, <3>2 DEF Blank
  <2>9. w.lo # w.hi /\ t[w.hi] = ")"  BY <1>2, <2>1, <2>2
  <2>10. Undress(f, t, w) = WithoutCurrency(f, t, body, parens)
    BY <1>4, <2>1, <2>8, <2>9, Zenon DEF Undress, Wrapped
  <2>11. QED  BY <1>1, <2>6, <2>10, Zenon DEF FoundBare
<1>5. QED  BY <1>3, <1>4

(* The shortcut for dressed numerals answers as the long way.              *)
LEMMA DressedAgrees ==
    ASSUME NEW f, Declares(f), SymbolsApart(f), NEW t \in Seq(STRING), NEW w, Inside(w, t),
           PlainlyDressed(f, t, w) # None
    PROVE  PlainlyDressed(f, t, w) = LongWay(f, t, w)
<1>1. PICK body : body = BodyOf(f, t, w)  OBVIOUS
<1>2. PICK n, parens, negative, amount :
         /\ n = NumeralOf(f, t, body) /\ parens = Wrapped(f, t, w)
         /\ negative = NegativeOf(f, t, body, parens) /\ amount = Amount(f, t, body)
  OBVIOUS
<1>3. DressFits(f, t, w, body, Wrapped(f, t, w))  BY <1>1, DressedIs, Zenon
<1>4. PlainlyDressed(f, t, w) = InRange(Signed(negative, Value(t, n)), w)
  BY <1>1, <1>2, <1>3, DressedIs, Zenon
<1>5. Undress(f, t, w) = Bare(n, negative, amount) /\ DigitEdges(t, n)
  BY <1>1, <1>2, <1>3, UndressedIs, Zenon
<1>6. PlainNumeral(f, t, n, amount) /\ GroupOf(f, amount) \notin Wide
  <2>1. PlainNumeral(f, t, n, amount)  BY <1>2, <1>3, Zenon DEF DressFits
  <2>2. {f.DecimalSep, f.GroupSep, DecimalOf(f, amount), GroupOf(f, amount)} \cap Wide = {}
    BY <1>2, <1>3, Zenon DEF DressFits
  <2>3. QED  BY <2>1, <2>2
<1>7. n = Window(n.lo, n.hi) /\ n.lo \in Nat \ {0} /\ n.hi \in Nat  BY <1>5 DEF DigitEdges
<1>8. PlainNumeral(f, t, Window(n.lo, n.hi), amount)  BY <1>6, <1>7, Zenon
<1>9. /\ PlainSpan(f, t, n.lo, n.hi, amount)
      /\ Strict(f) => Conforms(f, t, Window(n.lo, n.hi), GroupOf(f, amount))
  BY <1>7, <1>8, PlainNumeralIs
<1>13. IsWindow(n)  BY <1>7, Zenon DEF IsWindow
<1>10. Strict(f) => RunsFit(f, t, n.lo, n.hi)  BY <1>7, <1>9, RunsConform
<1>11. Scan(f, t, w, Bare(n, negative, amount)) = InRange(Signed(negative, Value(t, n)), w)
  <2>1. PlainSpan(f, t, n.lo, n.hi, amount)  BY <1>9
  <2>2. MarksUpTo(t, n.lo, n.hi) # {} => GroupOf(f, amount) \notin Wide  BY <1>6
  <2>3. QED  BY <1>10, <1>13, <2>1, <2>2, PlainVerdict
<1>12. QED  BY <1>4, <1>5, <1>11, Zenon DEF LongWay

(* So does the one for digits alone.                                       *)
LEMMA DigitsAloneAgree ==
    ASSUME NEW f, Declares(f), NEW t \in Seq(STRING), NEW w, Inside(w, t), DigitsAlone(t, w) # None
    PROVE  DigitsAlone(t, w) = LongWay(f, t, w)
<1>1. PICK n, no, minus, parens :
         n = BehindSign(t, w) /\ no = FALSE /\ minus = Minus(t[w.lo]) /\ parens = Wrapped(f, t, w)
  OBVIOUS
<1>2. ~(Blank(n) \/ n.hi - n.lo >= ShortcutDigits \/ ~AsciiDigits(t, n.lo, n.hi))
  BY <1>1, Zenon DEF DigitsAlone
<1>3. DigitsAlone(t, w) = InRange(Signed(minus, Value(t, n)), w)
  BY <1>1, <1>2, Zenon DEF DigitsAlone, Minus
<1>4. w.lo \in Nat \ {0} /\ w.hi \in Nat /\ w.hi <= Len(t) /\ w = Window(w.lo, w.hi)
  BY DEF Inside
<1>5. /\ n = Window(n.lo, n.hi) /\ n.lo \in Nat \ {0} /\ n.hi = w.hi /\ n.hi \in Nat
      /\ PlainSign(t, w) => n.lo = w.lo + 1 /\ t[w.lo] \in {"-", "+"}
      /\ ~PlainSign(t, w) => n = w
  <2>1. CASE PlainSign(t, w)
    <3>1. n = Window(w.lo + 1, w.hi) /\ t[w.lo] \in {"-", "+"}  BY <1>1, <2>1, BehindSignIs
    <3>2. n.lo = w.lo + 1 /\ n.hi = w.hi  BY <3>1, WindowIs
    <3>3. QED  BY <1>4, <2>1, <3>1, <3>2
  <2>2. CASE ~PlainSign(t, w)
    <3>1. n = w  BY <1>1, <2>2, BehindSignIs
    <3>2. QED  BY <1>4, <2>2, <3>1
  <2>3. QED  BY <2>1, <2>2
<1>6. PICK lo \in Nat \ {0}, hi \in Nat : lo = n.lo /\ hi = n.hi /\ lo <= hi /\ hi - lo < ShortcutDigits
  <2>1. ~Blank(n) /\ ~(n.hi - n.lo >= ShortcutDigits)  BY <1>2
  <2>2. n.lo <= n.hi /\ n.hi - n.lo < ShortcutDigits
    BY <1>5, <2>1, IntegerTextAssumption DEF Blank
  <2>3. QED  BY <1>5, <2>2
<1>7. \A i \in lo .. hi : t[i] \in Ascii  BY <1>2, <1>6 DEF AsciiDigits, Ascii
<1>8. MarksUpTo(t, lo, hi) = {} /\ DigitsUpTo(t, lo, hi) = lo .. hi  BY <1>7 DEF MarksUpTo, DigitsUpTo
<1>9. PlainSpan(f, t, n.lo, n.hi, no)
  <2> DEFINE all == lo .. hi
  <2>0. lo \in Int /\ hi \in Int /\ lo <= hi  BY <1>6
  <2>1. Cardinality(all) = hi - lo + 1  BY <2>0, FS_Interval
  <2>2. Cardinality(DigitsUpTo(t, lo, hi)) <= ShortcutDigits
    BY <1>6, <1>8, <2>1, IntegerTextAssumption
  <2>3. QED  BY <1>6, <1>8, <2>2, Zenon DEF PlainSpan
<1>10. RunsFit(f, t, n.lo, n.hi)  BY <1>6, <1>8, Zenon DEF RunsFit
<1>11. IsWindow(n)  BY <1>5, Zenon DEF IsWindow
<1>12. Scan(f, t, w, Bare(n, minus, no)) = InRange(Signed(minus, Value(t, n)), w)
  <2>1. MarksUpTo(t, n.lo, n.hi) # {} => GroupOf(f, no) \notin Wide  BY <1>6, <1>8
  <2>2. Strict(f) => RunsFit(f, t, n.lo, n.hi)  BY <1>10
  <2>3. QED  BY <1>9, <1>11, <2>1, <2>2, PlainVerdict
<1>13. DigitEdges(t, n)
  <2>1. lo \in lo .. hi /\ hi \in lo .. hi  BY <1>6
  <2>2. t[n.lo] \in Ascii /\ t[n.hi] \in Ascii  BY <1>6, <1>7, <2>1
  <2>3. n.lo <= n.hi /\ n.hi <= Len(t)  BY <1>4, <1>5, <1>6
  <2>4. QED  BY <1>5, <2>2, <2>3, Zenon DEF DigitEdges
<1>14. ~Wrapped(f, t, w)
  <2>1. t[w.lo] \in Ascii \/ t[w.lo] \in {"-", "+"}  BY <1>5, <1>13 DEF DigitEdges
  <2>2. t[w.lo] # "("  BY <2>1, DigitsAre
  <2>3. QED  BY <2>2 DEF Wrapped
<1>15. Undress(f, t, w) = Unwrapped(f, t, w)  BY <1>14, Zenon DEF Undress, Wrapped, Unwrapped
<1>16. Unwrapped(f, t, w) = Bare(n, minus, no)
  <2>1. CASE PlainSign(t, w)
    <3>1. n.lo = w.lo + 1 /\ n.hi = w.hi /\ t[w.lo] \in {"-", "+"}  BY <1>5, <2>1
    <3>2. SignedFront(t, w)
      <4>1. w.lo < w.hi  BY <1>4, <1>6, <3>1
      <4>2. QED  BY <1>4, <3>1, <4>1, Zenon DEF SignedFront
    <3>3. WithoutCurrency(f, t, w, FALSE) = Bare(n, Minus(t[w.lo]), FALSE)
      BY <1>13, <3>1, <3>2, SignedBody
    <3>4. QED  BY <1>1, <3>3, Zenon DEF Unwrapped
  <2>2. CASE ~PlainSign(t, w)
    <3>1. n = w  BY <1>5, <2>2
    <3>2. \A shut : WithoutCurrency(f, t, n, shut) = Bare(n, shut, FALSE)  BY <1>13, DigitsBody
    <3>3. minus = FALSE
      <4>1. t[w.lo] \in Ascii  BY <1>13, <3>1 DEF DigitEdges
      <4>2. t[w.lo] # "-"  BY <4>1, DigitsAre
      <4>3. QED  BY <1>1, <4>2, Zenon DEF Minus
    <3>4. QED  BY <1>1, <3>1, <3>2, <3>3, Zenon DEF Unwrapped
  <2>3. QED  BY <2>1, <2>2
<1>17. QED  BY <1>3, <1>12, <1>15, <1>16, Zenon DEF LongWay
-----------------------------------------------------------------------------
(* The separators a text shows change none of a format's symbols.          *)
SameSymbols(g, f) ==
    /\ g.Currency = f.Currency /\ g.MinusSign = f.MinusSign /\ g.PlusSign = f.PlusSign
    /\ "currency" \in g.Styles <=> "currency" \in f.Styles
    /\ "trailingSign" \in g.Styles <=> "trailingSign" \in f.Styles

LEMMA SameSymbolsApart ==
    ASSUME NEW f, NEW g, SameSymbols(g, f), Declares(f), SymbolsApart(f)
    PROVE  Declares(g) /\ SymbolsApart(g)
<1>1. Declares(g)  BY Zenon DEF SameSymbols, Declares
<1>2. Signs(g) = Signs(f)  BY Zenon DEF SameSymbols, Signs
<1>3. (HasCurrency(g) <=> HasCurrency(f)) /\ g.Currency = f.Currency  BY Zenon DEF SameSymbols, HasCurrency
<1>4. SymbolsApart(g)  BY <1>2, <1>3, Zenon DEF SymbolsApart, SameSymbols
<1>5. QED  BY <1>1, <1>4

LEMMA SeparatorsKeep ==
    ASSUME NEW f \in Formats, NEW S, "currency" \in S <=> "currency" \in f.Styles,
           "trailingSign" \in S <=> "trailingSign" \in f.Styles, NEW d, NEW g, NEW c, NEW e
    PROVE  SameSymbols([f EXCEPT !.Styles = S, !.DecimalSep = d, !.GroupSep = g,
                                 !.CurrencyDecimalSep = c, !.CurrencyGroupSep = e], f)
BY DEF Formats, SameSymbols

LEMMA DetectedKeeps ==
    ASSUME NEW f \in Formats, NEW t, NEW w
    PROVE  LET found == Detected(f, t, w)
           IN  IsFault(found) \/ SameSymbols(found, f)
<1>1. SameSymbols(f, f)  BY DEF SameSymbols
<1>2. \A detail, lo, hi : IsFault(Malformed(detail, lo, hi))
  BY DEF IsFault, Malformed, Fault
<1>3. ("currency" \in f.Styles \ {"detect"} <=> "currency" \in f.Styles)
      /\ ("trailingSign" \in f.Styles \ {"detect"} <=> "trailingSign" \in f.Styles)
  OBVIOUS
<1>4. QED  BY <1>1, <1>2, <1>3, SeparatorsKeep, Zenon DEF Detected

LEMMA FormatsDeclare ==
    ASSUME NEW f \in Formats
    PROVE  Declares(f)
BY DEF Formats, Declares

(* What a caller has typed is a text, and its format is one of those the   *)
(* program lets cross.                                                     *)
Typed == notation \in Notations /\ text \in Seq(STRING)

LEMMA TypedAlways == Spec => []Typed
<1>1. Init => Typed  BY DEF Init, Typed
<1>2. Typed /\ [Type]_vars => Typed'
  <2>1. ASSUME Typed, Type PROVE Typed'
    <3>1. PICK piece \in notation.pieces : text' = text \o piece  BY <2>1 DEF Type
    <3>2. piece \in Seq(STRING)  BY <2>1, NotationsAssumption DEF Typed
    <3>3. text' \in Seq(STRING)  BY <2>1, <3>1, <3>2 DEF Typed
    <3>4. QED  BY <2>1, <3>3 DEF Typed, Type
  <2>2. ASSUME Typed, UNCHANGED vars PROVE Typed'
    BY <2>2 DEF Typed, vars
  <2>3. QED  BY <2>1, <2>2
<1>3. QED  BY <1>1, <1>2, PTL DEF Spec

LEMMA TypedRoutesAgree ==
    ASSUME Typed, SymbolsApart(Format)
    PROVE  RoutesAgree
<1>1. PICK w, t, found : w = Whole /\ t = text /\ found = Detected(Format, text, Whole)  OBVIOUS
<1>2. PICK g : g = IF IsFault(found) THEN Format ELSE found  OBVIOUS
<1>3. Format \in Formats /\ t \in Seq(STRING)  BY <1>1, NotationsAssumption DEF Typed, Format
<1>4. Declares(g) /\ SymbolsApart(g)
  <2>1. Declares(Format) /\ SymbolsApart(Format)  BY <1>3, FormatsDeclare
  <2>2. IsFault(found) \/ SameSymbols(found, Format)  BY <1>1, <1>3, DetectedKeeps
  <2>3. CASE IsFault(found)  BY <1>2, <2>1, <2>3
  <2>4. CASE ~IsFault(found)
    <3>1. g = found  BY <1>2, <2>4
    <3>2. QED  BY <2>1, <2>2, <2>4, <3>1, SameSymbolsApart
  <2>5. QED  BY <2>3, <2>4
<1>5. Inside(w, t)  BY <1>1, <1>3, TrimInside DEF Whole
<1>6. RoutesAgreeUnder(g, LongWay(g, t, w))
  <2>1. DigitsAlone(t, w) # None => DigitsAlone(t, w) = LongWay(g, t, w)
    BY <1>3, <1>4, <1>5, DigitsAloneAgree
  <2>2. PlainlyDressed(g, t, w) # None => PlainlyDressed(g, t, w) = LongWay(g, t, w)
    BY <1>3, <1>4, <1>5, DressedAgrees
  <2>3. QED  BY <1>1, <2>1, <2>2 DEF RoutesAgreeUnder
<1>7. QED  BY <1>1, <1>2, <1>6, Zenon DEF RoutesAgree

(* A shortcut that answers gives the very verdict of the long way it       *)
(* spares, for every text however long, every format, range and number of  *)
(* digits a shortcut reads, as long as the currency symbol starts as no    *)
(* sign's spelling and, where a sign may end a number, ends as none.       *)
THEOREM ShortcutsAnswerAsTheLongWay ==
    Spec => [](SymbolsApart(Format) => RoutesAgree)
<1>1. Typed => (SymbolsApart(Format) => RoutesAgree)  BY TypedRoutesAgree
<1>2. QED  BY <1>1, TypedAlways, PTL

=============================================================================
