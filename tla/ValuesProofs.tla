----------------------------- MODULE ValuesProofs -----------------------------
(***************************************************************************)
(* Proofs about the values a caller holds, for every size of the words,    *)
(* the buffer and the integer: Decimal.String's digits read back as the    *)
(* magnitude, a duration that fits converts exactly and one that does not  *)
(* is in the last second of its sign, the serials of the workbook follow   *)
(* the calendar, and a double reads as the time with the fewest digits     *)
(* that it stores.                                                         *)
(***************************************************************************)
EXTENDS MCValues, SequenceLemmas

(* g holds what the first k digits stand for, for every k up to count.     *)
CountsUp(g, b, first, count) ==
    /\ g \in [Nat -> Nat] /\ g[0] = 0
    /\ \A k \in 0 .. count - 1 : g[k + 1] = g[k] * 10 + b[first + k]
    /\ \A c \in 0 .. count : Number(b, first, c) = g[c]

(* Number's recursion unfolds.                                             *)
LEMMA NumberUnfolds ==
    ASSUME NEW b, NEW first \in Int, NEW count \in Nat,
           \A i \in first .. first + count - 1 : b[i] \in Nat
    PROVE  \E g : CountsUp(g, b, first, count)
<1> DEFINE next(k, x) == IF k < count THEN x * 10 + b[first + k] ELSE 0
           step == [k \in Nat |-> [x \in Nat |-> next(k, x)]]
           body(g, c) == [k \in 0 .. c |-> IF k = 0 THEN 0 ELSE g[k - 1] * 10 + b[first + k - 1]]
<1>1. \A k \in Nat, x \in Nat : next(k, x) \in Nat
  <2>1. ASSUME NEW k \in Nat, NEW x \in Nat, k < count PROVE x * 10 + b[first + k] \in Nat
    <3>1. first + k \in first .. first + count - 1  BY <2>1
    <3>2. b[first + k] \in Nat  BY <3>1
    <3>3. QED  BY <3>2
  <2>2. QED  BY <2>1
<1>2. PICK g : g \in [Nat -> Nat] /\ g[0] = 0 /\ \A k \in Nat : g[k + 1] = step[k][g[k]]
  <2> HIDE DEF next
  <2>1. step \in [Nat -> [Nat -> Nat]] /\ 0 \in Nat  BY <1>1
  <2> HIDE DEF step
  <2>2. \E g : Recurs(g, Nat, 0, step)  BY <2>1, NatRecursion
  <2>3. QED  BY <2>2 DEF Recurs
<1>3. \A k \in 0 .. count - 1 : g[k + 1] = g[k] * 10 + b[first + k]
  <2>1. ASSUME NEW k \in 0 .. count - 1 PROVE g[k + 1] = g[k] * 10 + b[first + k]
    <3>1. k \in Nat /\ k < count /\ g[k] \in Nat  BY <1>2
    <3>2. g[k + 1] = step[k][g[k]]  BY <1>2, <3>1
    <3>3. step[k][g[k]] = next(k, g[k])
      <4> HIDE DEF next
      <4>1. QED  BY <3>1
    <3>4. QED  BY <3>1, <3>2, <3>3
  <2>2. QED  BY <2>1
<1>4. ASSUME NEW c \in 0 .. count PROVE Number(b, first, c) = g[c]
  <2> DEFINE h == CHOOSE f : f = body(f, c)
             cut == [k \in 0 .. c |-> g[k]]
             S == { k \in Nat : k <= c => h[k] = g[k] }
  <2>1. Number(b, first, c) = h[c]  BY Zenon DEF Number
  <2>2. cut = body(cut, c)
    <3>1. ASSUME NEW k \in 0 .. c, k # 0 PROVE g[k] = g[k - 1] * 10 + b[first + k - 1]
      <4>1. k - 1 \in 0 .. count - 1 /\ (k - 1) + 1 = k /\ first + (k - 1) = first + k - 1  BY <3>1
      <4>2. g[(k - 1) + 1] = g[k - 1] * 10 + b[first + (k - 1)]  BY <1>3, <4>1
      <4>3. QED  BY <4>1, <4>2
    <3>2. \A k \in 0 .. c : cut[k] = g[k]  OBVIOUS
    <3>3. \A k \in 0 .. c : k # 0 => k - 1 \in 0 .. c  OBVIOUS
    <3>4. QED  BY <1>2, <3>1, <3>2, <3>3
  <2>3. h = body(h, c)
    <3> HIDE DEF body, cut
    <3>1. QED  BY <2>2
  <2> HIDE DEF h
  <2>4. 0 \in S  BY <1>2, <2>3
  <2>5. ASSUME NEW k \in S PROVE k + 1 \in S
    <3>1. k \in Nat /\ (k <= c => h[k] = g[k]) /\ k + 1 \in Nat  OBVIOUS
    <3>2. ASSUME k + 1 <= c PROVE h[k + 1] = g[k + 1]
      <4>1. k + 1 \in 0 .. c /\ k + 1 # 0 /\ (k + 1) - 1 = k /\ k \in 0 .. count - 1
            /\ first + (k + 1) - 1 = first + k /\ k <= c
        BY <3>1, <3>2
      <4>2. h[k + 1] = h[(k + 1) - 1] * 10 + b[first + (k + 1) - 1]  BY <2>3, <4>1
      <4>3. g[k + 1] = g[k] * 10 + b[first + k]  BY <1>3, <4>1
      <4>4. QED  BY <3>1, <4>1, <4>2, <4>3
    <3>3. QED  BY <3>1, <3>2
  <2>6. S \subseteq Nat  OBVIOUS
  <2> HIDE DEF S
  <2>7. S = Nat  BY <2>4, <2>5, <2>6, NatInd
  <2>8. c \in S  BY <2>7
  <2>9. h[c] = g[c]  BY <2>8 DEF S
  <2>10. QED  BY <2>1, <2>9
<1>5. QED  BY <1>2, <1>3, <1>4 DEF CountsUp

LEMMA NumberGrows ==
    ASSUME NEW b, NEW first \in Int, NEW count \in Nat,
           \A i \in first .. first + count : b[i] \in Nat
    PROVE  /\ Number(b, first, 0) = 0
           /\ Number(b, first, count) \in Nat
           /\ Number(b, first, count + 1) = Number(b, first, count) * 10 + b[first + count]
<1> DEFINE more == count + 1
<1>1. more \in Nat /\ first + more - 1 = first + count /\ more - 1 = count /\ count \in 0 .. more - 1
      /\ 0 \in 0 .. more /\ count \in 0 .. more /\ more \in 0 .. more
  OBVIOUS
<1> HIDE DEF more
<1>2. \A i \in first .. first + more - 1 : b[i] \in Nat  BY <1>1
<1>3. PICK g : CountsUp(g, b, first, more)
  BY <1>1, <1>2, NumberUnfolds
<1>4. g[count + 1] = g[count] * 10 + b[first + count]  BY <1>1, <1>3 DEF CountsUp
<1>5. QED  BY <1>1, <1>3, <1>4 DEF more, CountsUp

(* The front digits stand for as many tens as digits follow.               *)
LEMMA NumberSplits ==
    ASSUME NEW b, NEW first \in Int, NEW front \in Nat, NEW rest \in Nat,
           \A i \in first .. first + front + rest - 1 : b[i] \in Nat
    PROVE  /\ Number(b, first, front + rest)
                 = Number(b, first, front) * Tens[rest] + Number(b, first + front, rest)
           /\ Number(b, first, front) \in Nat /\ Number(b, first + front, rest) \in Nat
<1> DEFINE whole(k) == Number(b, first, front + k)
           a == Number(b, first, front)
           tail(k) == Number(b, first + front, k)
           S == { k \in Nat : k <= rest =>
                    a \in Nat /\ tail(k) \in Nat /\ whole(k) = a * Tens[k] + tail(k) }
<1>1. PICK g : CountsUp(g, b, first, front + rest)
  <2>1. front + rest \in Nat /\ first + (front + rest) - 1 = first + front + rest - 1  OBVIOUS
  <2>2. \A i \in first .. first + (front + rest) - 1 : b[i] \in Nat  BY <2>1
  <2>3. QED  BY <2>1, <2>2, NumberUnfolds
<1>2. PICK t : CountsUp(t, b, first + front, rest)
  <2>1. first + front \in Int /\ (first + front) + rest - 1 = first + front + rest - 1  OBVIOUS
  <2>2. \A i \in first + front .. (first + front) + rest - 1 : b[i] \in Nat
    <3>1. \A i \in first + front .. (first + front) + rest - 1 : i \in first .. first + front + rest - 1
      OBVIOUS
    <3>2. QED  BY <3>1
  <2>3. QED  BY <2>1, <2>2, NumberUnfolds
<1>3. a = g[front] /\ a \in Nat
  <2>1. front \in 0 .. front + rest  OBVIOUS
  <2>2. QED  BY <1>1, <2>1 DEF CountsUp
<1>4. \A k \in 0 .. rest : whole(k) = g[front + k] /\ tail(k) = t[k] /\ whole(k) \in Nat /\ tail(k) \in Nat
  <2>1. \A k \in 0 .. rest : front + k \in 0 .. front + rest /\ front + k \in Nat /\ k \in Nat  OBVIOUS
  <2>2. QED  BY <1>1, <1>2, <2>1 DEF CountsUp
<1> HIDE DEF whole, a, tail
<1>5. 0 \in S
  <2>1. 0 \in 0 .. rest /\ front + 0 = front  OBVIOUS
  <2>2. whole(0) = a /\ tail(0) = 0  BY <1>2, <1>3, <1>4, <2>1 DEF CountsUp
  <2>3. QED  BY <1>3, <2>2, TensAre
<1>6. ASSUME NEW k \in S PROVE k + 1 \in S
  <2>1. k \in Nat /\ k + 1 \in Nat
        /\ (k <= rest => a \in Nat /\ tail(k) \in Nat /\ whole(k) = a * Tens[k] + tail(k))
    OBVIOUS
  <2>2. ASSUME k + 1 <= rest PROVE tail(k + 1) \in Nat /\ whole(k + 1) = a * Tens[k + 1] + tail(k + 1)
    <3>1. /\ k \in 0 .. rest /\ k + 1 \in 0 .. rest /\ k \in 0 .. rest - 1
          /\ front + k \in 0 .. (front + rest) - 1
          /\ (front + k) + 1 = front + (k + 1) /\ (first + front) + k = first + (front + k)
      BY <2>1, <2>2
    <3> DEFINE x == b[first + (front + k)]
    <3>2. g[(front + k) + 1] = g[front + k] * 10 + x  BY <1>1, <3>1 DEF CountsUp
    <3>3. t[k + 1] = t[k] * 10 + x
      <4>1. t[k + 1] = t[k] * 10 + b[(first + front) + k]  BY <1>2, <3>1 DEF CountsUp
      <4>2. QED  BY <3>1, <4>1
    <3>4. x \in Nat
      <4>1. first + (front + k) \in first .. first + front + rest - 1  BY <2>1, <2>2
      <4>2. QED  BY <4>1
    <3> HIDE DEF x
    <3>5. whole(k + 1) = whole(k) * 10 + x /\ tail(k + 1) = tail(k) * 10 + x
      BY <1>4, <3>1, <3>2, <3>3
    <3>6. whole(k) = a * Tens[k] + tail(k) /\ tail(k) \in Nat /\ a \in Nat
      BY <2>1, <3>1
    <3>7. Tens[k + 1] = 10 * Tens[k] /\ Tens[k] \in Nat  BY <2>1, TensAre
    <3> DEFINE p == Tens[k]
               q == tail(k)
    <3> HIDE DEF p, q
    <3>8. whole(k + 1) = (a * p + q) * 10 + x /\ tail(k + 1) = q * 10 + x /\ Tens[k + 1] = 10 * p
          /\ p \in Nat /\ q \in Nat
      BY <3>5, <3>6, <3>7 DEF p, q
    <3>9. (a * p + q) * 10 + x = a * (10 * p) + (q * 10 + x)
      BY <3>4, <3>6, <3>8
    <3>10. QED  BY <3>4, <3>8, <3>9
  <2>3. QED  BY <1>3, <2>1, <2>2
<1>7. S \subseteq Nat  OBVIOUS
<1> HIDE DEF S
<1>8. S = Nat  BY <1>5, <1>6, <1>7, NatInd
<1>9. rest \in S  BY <1>8
<1>10. QED  BY <1>9 DEF S, whole, a, tail

(* The same digits elsewhere stand for the same number.                    *)
SameDigits(b, first, e, start, count) ==
    \A k \in 0 .. count - 1 : b[first + k] \in Nat /\ b[first + k] = e[start + k]

LEMMA NumberMoves ==
    ASSUME NEW b, NEW first \in Int, NEW e, NEW start \in Int, NEW count \in Nat,
           SameDigits(b, first, e, start, count)
    PROVE  Number(b, first, count) = Number(e, start, count)
<1>1. PICK g : CountsUp(g, b, first, count)
  <2>1. ASSUME NEW i \in first .. first + count - 1 PROVE b[i] \in Nat
    <3>1. i - first \in 0 .. count - 1 /\ first + (i - first) = i  OBVIOUS
    <3>2. b[first + (i - first)] \in Nat  BY <3>1 DEF SameDigits
    <3>3. QED  BY <3>1, <3>2
  <2>2. QED  BY <2>1, NumberUnfolds
<1>2. PICK h : CountsUp(h, e, start, count)
  <2>1. ASSUME NEW i \in start .. start + count - 1 PROVE e[i] \in Nat
    <3>1. i - start \in 0 .. count - 1 /\ start + (i - start) = i  OBVIOUS
    <3>2. e[start + (i - start)] \in Nat  BY <3>1 DEF SameDigits
    <3>3. QED  BY <3>1, <3>2
  <2>2. QED  BY <2>1, NumberUnfolds
<1> DEFINE S == { k \in Nat : k <= count => g[k] = h[k] }
<1>3. 0 \in S  BY <1>1, <1>2 DEF CountsUp
<1>4. ASSUME NEW k \in S PROVE k + 1 \in S
  <2>1. k \in Nat /\ (k <= count => g[k] = h[k]) /\ k + 1 \in Nat  OBVIOUS
  <2>2. ASSUME k + 1 <= count PROVE g[k + 1] = h[k + 1]
    <3>1. k \in 0 .. count - 1 /\ k <= count  BY <2>1, <2>2
    <3>2. g[k + 1] = g[k] * 10 + b[first + k]  BY <1>1, <3>1 DEF CountsUp
    <3>3. h[k + 1] = h[k] * 10 + e[start + k]  BY <1>2, <3>1 DEF CountsUp
    <3>4. b[first + k] = e[start + k]  BY <3>1 DEF SameDigits
    <3>5. QED  BY <2>1, <3>1, <3>2, <3>3, <3>4
  <2>3. QED  BY <2>1, <2>2
<1>5. S \subseteq Nat  OBVIOUS
<1> HIDE DEF S
<1>6. S = Nat  BY <1>3, <1>4, <1>5, NatInd
<1>7. count \in S  BY <1>6
<1>8. g[count] = h[count]  BY <1>7 DEF S
<1>9. QED  BY <1>1, <1>2, <1>8 DEF CountsUp

LEMMA NumberNone ==
    ASSUME NEW b, NEW first \in Int
    PROVE  Number(b, first, 0) = 0
<1>1. 0 \in Nat /\ \A i \in first .. first + 0 - 1 : b[i] \in Nat  OBVIOUS
<1>2. \E g : CountsUp(g, b, first, 0)  BY <1>1, NumberUnfolds
<1>3. QED  BY <1>2 DEF CountsUp

Character == Digit \cup {Minus, Point, Unwritten}

(* A digit in front of the digits of b, from first to the buffer's end.    *)
LEMMA DigitInFront ==
    ASSUME NEW b \in [0 .. BufferLength - 1 -> Character], NEW count \in Nat, NEW digit \in Digit,
           count <= BufferLength - 2,
           \A i \in BufferLength - count .. BufferLength - 1 : b[i] \in Digit
    PROVE  LET first == BufferLength - count - 1
               e == [b EXCEPT ![first] = digit]
           IN  /\ first >= 1 /\ first = BufferLength - (count + 1)
               /\ e \in [0 .. BufferLength - 1 -> Character]
               /\ e[first] = digit
               /\ \A i \in first .. BufferLength - 1 : e[i] \in Digit
               /\ Number(b, BufferLength - count, count) \in Nat
               /\ Number(e, first, count + 1)
                    = digit * Tens[count] + Number(b, BufferLength - count, count)
<1> DEFINE first == BufferLength - count - 1
           e == [b EXCEPT ![first] = digit]
<1>1. BufferLength \in Nat  BY DecimalAssumption
<1>2. /\ first \in 0 .. BufferLength - 1 /\ first >= 1 /\ first \in Int
      /\ first + 1 = BufferLength - count /\ first = BufferLength - (count + 1)
  BY <1>1
<1> HIDE DEF first
<1>3. /\ e \in [0 .. BufferLength - 1 -> Character] /\ e[first] = digit
      /\ \A i \in 0 .. BufferLength - 1 : i # first => e[i] = b[i]
  BY <1>2 DEF Character
<1> HIDE DEF e
<1>4. \A i \in first .. BufferLength - 1 : e[i] \in Digit
  <2>1. ASSUME NEW i \in first .. BufferLength - 1, i # first PROVE e[i] \in Digit
    <3>1. i \in 0 .. BufferLength - 1 /\ i \in BufferLength - count .. BufferLength - 1
      BY <1>1, <1>2, <2>1
    <3>2. QED  BY <1>3, <2>1, <3>1
  <2>2. QED  BY <1>3, <2>1
<1>5. \A i \in first .. first + 1 + count - 1 : e[i] \in Nat
  <2>1. first + 1 + count - 1 = BufferLength - 1  BY <1>1, <1>2
  <2>2. QED  BY <1>4, <2>1 DEF Digit
<1>6. /\ Number(e, first, 1 + count) = Number(e, first, 1) * Tens[count] + Number(e, first + 1, count)
      /\ Number(e, first + 1, count) \in Nat
  <2>1. 1 \in Nat  OBVIOUS
  <2>2. QED  BY <1>2, <1>5, <2>1, NumberSplits, ZenonT(40)
<1>7. Number(e, first, 1) = digit
  <2>1. \A i \in first .. first + 0 : e[i] \in Nat  BY <1>2, <1>3 DEF Digit
  <2>2. Number(e, first, 0 + 1) = Number(e, first, 0) * 10 + e[first + 0] /\ Number(e, first, 0) = 0
    <3>1. 0 \in Nat  OBVIOUS
    <3>2. QED  BY <1>2, <2>1, <3>1, NumberGrows, Zenon
  <2>3. 0 + 1 = 1 /\ first + 0 = first  BY <1>2
  <2>4. Number(e, first, 1) = 0 * 10 + e[first]  BY <2>2, <2>3
  <2>5. QED  BY <1>3, <2>4 DEF Digit
<1>8. Number(b, BufferLength - count, count) = Number(e, first + 1, count)
  <2>1. ASSUME NEW k \in 0 .. count - 1
        PROVE  LET i == BufferLength - count + k IN b[i] \in Nat /\ b[i] = e[first + 1 + k]
    <3>1. /\ BufferLength - count + k \in BufferLength - count .. BufferLength - 1
          /\ BufferLength - count + k \in 0 .. BufferLength - 1 /\ BufferLength - count + k # first
          /\ first + 1 + k = BufferLength - count + k
      BY <1>1, <1>2
    <3>2. QED  BY <1>3, <3>1 DEF Digit
  <2>2. BufferLength - count \in Int /\ first + 1 \in Int  BY <1>1, <1>2
  <2> DEFINE start == BufferLength - count
             next == first + 1
  <2> HIDE DEF start, next
  <2>3. SameDigits(b, start, e, next, count)  BY <2>1 DEF SameDigits, start, next
  <2>4. Number(b, start, count) = Number(e, next, count)
    BY <2>2, <2>3, NumberMoves DEF start, next
  <2>5. QED  BY <2>4 DEF start, next
<1>9. 1 + count = count + 1  OBVIOUS
<1>10. /\ Number(b, BufferLength - count, count) \in Nat
       /\ Number(e, first, count + 1) = digit * Tens[count] + Number(b, BufferLength - count, count)
  BY <1>6, <1>7, <1>8, <1>9
<1>11. QED  BY <1>2, <1>3, <1>4, <1>10 DEF first, e

(* A word at a time, the magnitude is divided by ten.                      *)
LEMMA ByTenDivides ==
    ASSUME NEW high \in 0 .. HighWord - 1, NEW low \in 0 .. Word - 1
    PROVE  /\ ByTen(high, low).hi \in 0 .. HighWord - 1
           /\ ByTen(high, low).lo \in 0 .. Word - 1
           /\ ByTen(high, low).digit \in Digit
           /\ Magnitude(high, low)
                = 10 * Magnitude(ByTen(high, low).hi, ByTen(high, low).lo) + ByTen(high, low).digit
<1> DEFINE q == high \div 10
           r == high % 10
           carried == r * Word + low
           x == carried \div 10
           y == carried % 10
<1>1. Word \in Nat \ {0} /\ HighWord \in Nat \ {0}  BY DecimalAssumption
<1>2. q \in Nat /\ q <= high /\ r \in 0 .. 9 /\ high = 10 * q + r  BY <1>1
<1>3. ByTen(high, low) = [hi |-> q, lo |-> x, digit |-> y]
  <2>1. 0 * Word + high = high  BY <1>1
  <2>2. QED  BY <2>1, Zenon DEF ByTen, Div64, Magnitude
<1> HIDE DEF q, r
<1>4. carried \in Nat /\ carried < 10 * Word
  <2>1. r * Word \in Nat /\ r * Word <= 9 * Word
    <3>1. r = 0 \/ r = 1 \/ r = 2 \/ r = 3 \/ r = 4 \/ r = 5 \/ r = 6 \/ r = 7 \/ r = 8 \/ r = 9
      BY <1>2
    <3>2. QED  BY <1>1, <3>1
  <2> DEFINE p == r * Word
  <2> HIDE DEF p
  <2>2. p + low \in Nat /\ p + low < 10 * Word  BY <1>1, <2>1 DEF p
  <2>3. QED  BY <2>2 DEF p
<1>5. high * Word + low = 10 * (q * Word) + carried
  <2>1. high * Word = 10 * (q * Word) + r * Word  BY <1>1, <1>2
  <2> DEFINE p == r * Word
             s == q * Word
             t == high * Word
  <2>2. p \in Int /\ s \in Int /\ t \in Int  BY <1>1, <1>2
  <2> HIDE DEF p, s, t
  <2>3. t = 10 * s + p  BY <2>1 DEF p, s, t
  <2>4. t + low = 10 * s + (p + low)  BY <2>2, <2>3
  <2>5. QED  BY <2>4 DEF p, s, t
<1> HIDE DEF carried
<1>6. x \in 0 .. Word - 1 /\ y \in 0 .. 9 /\ carried = 10 * x + y  BY <1>1, <1>4
<1> HIDE DEF x, y
<1>7. high * Word + low = 10 * (q * Word + x) + y
  <2> DEFINE s == q * Word
  <2>1. s \in Int  BY <1>1, <1>2
  <2> HIDE DEF s
  <2>2. high * Word + low = 10 * s + carried  BY <1>5 DEF s
  <2>3. QED  BY <1>6, <2>1, <2>2 DEF s
<1>8. q \in 0 .. HighWord - 1  BY <1>1, <1>2
<1>9. QED  BY <1>3, <1>6, <1>7, <1>8 DEF Magnitude, Digit

-----------------------------------------------------------------------------
Whole == Magnitude(d.Hi, d.Lo)

DecimalTypeOK ==
    /\ d \in Decimals /\ hi \in 0 .. HighWord - 1 /\ lo \in 0 .. Word - 1
    /\ stage \in {"digits", "zeros", "point", "sign", "done"}
    /\ digits \in Nat /\ digits <= BufferLength - 2
    /\ buf \in [0 .. BufferLength - 1 -> Character]

(* The digits written lie at the buffer's end.                             *)
Written ==
    /\ n = BufferLength - digits
    /\ \A i \in n .. BufferLength - 1 : buf[i] \in Digit

(* What is written and what is left to divide make up the magnitude.       *)
Dividing ==
    stage = "digits" =>
        /\ Written
        /\ Magnitude(hi, lo) * Tens[digits] + Number(buf, n, digits) = Whole
        /\ digits # 0 /\ Magnitude(hi, lo) = 0 /\ buf[n] = 0 => digits = 1

(* What is written is the magnitude, and a leading zero stands before the  *)
(* point or behind it.                                                     *)
Padding ==
    stage \in {"zeros", "point"} =>
        /\ Written
        /\ digits # 0 /\ Number(buf, n, digits) = Whole
        /\ buf[n] = 0 => digits <= d.Scale + 1
        /\ stage = "point" => digits > d.Scale

(* The digits from whole on and the point among them are the Decimal's.    *)
Text(whole) ==
    LET point == BufferLength - d.Scale
        end == IF d.Scale = 0 THEN BufferLength ELSE point - 1
    IN  /\ d.Scale # 0 => buf[point - 1] = Point
        /\ whole < end
        /\ \A i \in (whole .. end - 1) \cup (point .. BufferLength - 1) : buf[i] \in Digit
        /\ buf[whole] = 0 => whole = end - 1
        /\ Number(buf, whole, end - whole) * Tens[d.Scale] + Number(buf, point, d.Scale) = Whole

Pointed == stage = "sign" => n \in 1 .. BufferLength /\ Text(n)

DecimalInv == DecimalTypeOK /\ Dividing /\ Padding /\ Pointed /\ ReadsBack

LEMMA DecimalConstants ==
    /\ BufferLength \in Nat /\ BufferLength >= 3 /\ Word \in Nat \ {0} /\ HighWord \in Nat \ {0}
    /\ MaxScale \in Nat /\ MaxScale + 3 <= BufferLength
    /\ Tens[BufferLength - 2] \in Nat /\ Word * HighWord <= Tens[BufferLength - 2]
    /\ Minus \notin Digit
<1>1. BufferLength \in Nat /\ MaxScale \in Nat /\ MaxScale + 3 <= BufferLength  BY DecimalAssumption
<1>2. BufferLength - 2 \in Nat  BY <1>1
<1>3. Tens[BufferLength - 2] \in Nat  BY <1>2, TensAre
<1>4. QED  BY <1>1, <1>3, DecimalAssumption

LEMMA WholeFits ==
    ASSUME d \in Decimals
    PROVE  /\ d.Hi \in 0 .. HighWord - 1 /\ d.Lo \in 0 .. Word - 1 /\ d.Scale \in 0 .. MaxScale
           /\ d.Negative \in BOOLEAN
           /\ Whole \in Nat /\ Whole < Word * HighWord
<1>1. d.Hi \in 0 .. HighWord - 1 /\ d.Lo \in 0 .. Word - 1 /\ d.Scale \in 0 .. MaxScale
      /\ d.Negative \in BOOLEAN
  BY DEF Decimals
<1>2. Word \in Nat \ {0} /\ HighWord \in Nat \ {0}  BY DecimalAssumption
<1>3. d.Hi * Word \in Nat /\ d.Hi * Word <= (HighWord - 1) * Word
  BY <1>1, <1>2
<1>4. (HighWord - 1) * Word = Word * HighWord - Word  BY <1>2
<1> DEFINE p == d.Hi * Word
           a == Word * HighWord
<1>5. p \in Nat /\ p <= a - Word /\ a \in Int  BY <1>2, <1>3, <1>4
<1> HIDE DEF p, a
<1>6. p + d.Lo \in Nat /\ p + d.Lo < a  BY <1>1, <1>2, <1>5
<1>7. QED  BY <1>1, <1>6 DEF Whole, Magnitude, p, a

LEMMA DecimalInit == Init => DecimalInv
<1> SUFFICES ASSUME Init PROVE DecimalInv  OBVIOUS
<1>1. /\ d \in Decimals /\ stage = "digits" /\ hi = d.Hi /\ lo = d.Lo /\ digits = 0
      /\ n = BufferLength /\ buf = [i \in 0 .. BufferLength - 1 |-> Unwritten]
  BY DEF Init
<1>2. DecimalTypeOK
  <2>1. buf \in [0 .. BufferLength - 1 -> Character]  BY <1>1 DEF Character
  <2>2. QED  BY <1>1, <2>1, WholeFits, DecimalConstants DEF DecimalTypeOK
<1>3. Dividing
  <2>1. Number(buf, n, digits) = 0 /\ Tens[digits] = 1
    BY <1>1, NumberNone, TensAre, DecimalConstants
  <2>2. Magnitude(hi, lo) = Whole /\ Whole \in Nat  BY <1>1, WholeFits DEF Whole
  <2>3. Magnitude(hi, lo) * Tens[digits] + Number(buf, n, digits) = Whole
    BY <2>1, <2>2
  <2>4. Written  BY <1>1, DecimalConstants DEF Written
  <2>5. QED  BY <1>1, <2>3, <2>4 DEF Dividing
<1>4. Padding /\ Pointed /\ ReadsBack  BY <1>1 DEF Padding, Pointed, ReadsBack
<1>5. QED  BY <1>2, <1>3, <1>4 DEF DecimalInv

LEMMA WriteDigitInv == DecimalInv /\ WriteDigit => DecimalInv'
<1> SUFFICES ASSUME DecimalInv, WriteDigit PROVE DecimalInv'  OBVIOUS
<1> DEFINE divided == ByTen(hi, lo)
           acc == Magnitude(hi, lo)
           rest == Magnitude(divided.hi, divided.lo)
           T == Tens[digits]
           number == Number(buf, n, digits)
<1>1. /\ stage = "digits" /\ ~(digits # 0 /\ hi = 0 /\ lo = 0)
      /\ hi' = divided.hi /\ lo' = divided.lo /\ n' = n - 1
      /\ buf' = [buf EXCEPT ![n - 1] = divided.digit]
      /\ digits' = digits + 1 /\ d' = d /\ stage' = stage
  BY DEF WriteDigit, Put
<1>2. DecimalTypeOK /\ Written /\ acc * T + number = Whole
  BY <1>1 DEF DecimalInv, Dividing
<1>3. /\ divided.hi \in 0 .. HighWord - 1 /\ divided.lo \in 0 .. Word - 1
      /\ divided.digit \in Digit /\ acc = 10 * rest + divided.digit
  BY <1>2, ByTenDivides DEF DecimalTypeOK
<1>4. rest \in Nat /\ acc \in Nat
  <2>1. divided.hi \in Nat /\ divided.lo \in Nat /\ Word \in Nat  BY <1>3, DecimalConstants
  <2>2. rest \in Nat
    <3> HIDE DEF divided
    <3>1. divided.hi * Word + divided.lo \in Nat  BY <2>1
    <3>2. QED  BY <3>1 DEF Magnitude
  <2>3. QED
    <3> HIDE DEF rest, acc, divided
    <3>1. QED  BY <1>3, <2>2 DEF Digit
<1>5. /\ n = BufferLength - digits /\ n - 1 = BufferLength - digits - 1 /\ digits \in Nat
      /\ digits <= BufferLength - 2
  BY <1>2 DEF DecimalTypeOK, Written
<1> HIDE DEF divided, acc, rest
<1>6. /\ n' >= 1 /\ n' = BufferLength - digits'
      /\ buf' \in [0 .. BufferLength - 1 -> Character]
      /\ buf'[n'] = divided.digit
      /\ \A i \in n' .. BufferLength - 1 : buf'[i] \in Digit
      /\ number \in Nat
      /\ Number(buf', n', digits') = divided.digit * T + number
  <2>1. buf \in [0 .. BufferLength - 1 -> Character]
        /\ \A i \in BufferLength - digits .. BufferLength - 1 : buf[i] \in Digit
    BY <1>2, <1>5 DEF DecimalTypeOK, Written
  <2>2. LET first == BufferLength - digits - 1
            e == [buf EXCEPT ![first] = divided.digit]
        IN  /\ first >= 1 /\ first = BufferLength - (digits + 1)
            /\ e \in [0 .. BufferLength - 1 -> Character]
            /\ e[first] = divided.digit
            /\ \A i \in first .. BufferLength - 1 : e[i] \in Digit
            /\ Number(buf, BufferLength - digits, digits) \in Nat
            /\ Number(e, first, digits + 1)
                 = divided.digit * Tens[digits] + Number(buf, BufferLength - digits, digits)
    BY <1>3, <1>5, <2>1, DigitInFront
  <2>3. buf' = [buf EXCEPT ![BufferLength - digits - 1] = divided.digit]
        /\ n' = BufferLength - digits - 1
    BY <1>1, <1>5
  <2>4. QED  BY <1>1, <1>5, <2>2, <2>3, Zenon
<1>7. T \in Nat \ {0} /\ Tens[digits + 1] = 10 * T  BY <1>5, TensAre
<1>8. Whole \in Nat /\ Whole < Tens[BufferLength - 2] /\ Whole' = Whole
  <2>1. d \in Decimals  BY <1>2 DEF DecimalTypeOK
  <2>2. Whole \in Nat /\ Whole < Word * HighWord  BY <2>1, WholeFits
  <2>3. Whole' = Whole  BY <1>1 DEF Whole
  <2> DEFINE a == Word * HighWord
  <2>4. a \in Nat /\ a <= Tens[BufferLength - 2] /\ Tens[BufferLength - 2] \in Nat
    BY DecimalConstants
  <2> HIDE DEF a
  <2>5. Whole < a  BY <2>2 DEF a
  <2>6. QED  BY <2>2, <2>3, <2>4, <2>5
<1> HIDE DEF T, number
<1>9. digits' <= BufferLength - 2
  <2>1. CASE digits = 0  BY <1>1, <2>1, DecimalConstants
  <2>2. CASE digits # 0
    <3>1. acc >= 1
      <4>1. hi \in Nat /\ lo \in Nat /\ (hi # 0 \/ lo # 0)  BY <1>1, <1>2, <2>2 DEF DecimalTypeOK
      <4>2. hi * Word + lo # 0
        <5>1. Word \in Nat \ {0}  BY DecimalConstants
        <5>2. hi * Word \in Nat /\ (hi # 0 => hi * Word # 0)  BY <4>1, <5>1
        <5>3. QED  BY <4>1, <5>2
      <4>3. acc # 0  BY <4>2 DEF acc, Magnitude
      <4>4. QED  BY <1>4, <4>3
    <3>2. acc * T >= T  BY <1>4, <1>7, <3>1
    <3>3. T < Tens[BufferLength - 2]
      <4> DEFINE p == acc * T
      <4>1. p \in Nat  BY <1>4, <1>7
      <4> HIDE DEF p
      <4>2. p >= T /\ p + number = Whole  BY <1>2, <3>2 DEF p
      <4>3. QED  BY <1>6, <1>7, <1>8, <4>1, <4>2, DecimalConstants
    <3>4. BufferLength - 2 \in Nat  BY DecimalConstants
    <3>5. digits < BufferLength - 2  BY <1>5, <3>3, <3>4, TensGrow DEF T
    <3>6. QED  BY <1>1, <1>5, <3>5, DecimalConstants
  <2>3. QED  BY <2>1, <2>2
<1>10. DecimalTypeOK'
  BY <1>1, <1>2, <1>3, <1>5, <1>6, <1>9 DEF DecimalTypeOK
<1>11. Dividing'
  <2>1. Written'  BY <1>6 DEF Written
  <2>2. acc' = rest  BY <1>1 DEF acc, rest
  <2>3. rest * (10 * T) + (divided.digit * T + number) = Whole
    <3> DEFINE u == divided.digit
    <3>1. u \in Nat /\ acc = 10 * rest + u  BY <1>3 DEF Digit
    <3> HIDE DEF u
    <3>2. rest * (10 * T) + u * T = (10 * rest + u) * T  BY <1>4, <1>7, <3>1
    <3> DEFINE p == rest * (10 * T)
               q == u * T
               r == acc * T
    <3>3. p \in Int /\ q \in Int /\ r \in Int  BY <1>4, <1>7, <3>1
    <3>4. p + q = r  BY <3>1, <3>2
    <3>5. r + number = Whole  BY <1>2
    <3> HIDE DEF p, q, r
    <3>6. p + (q + number) = Whole  BY <1>6, <3>3, <3>4, <3>5
    <3>7. QED  BY <3>6 DEF p, q, u
  <2>4. Magnitude(hi, lo)' * Tens[digits'] + Number(buf', n', digits') = Whole'
    BY <1>1, <1>6, <1>7, <1>8, <2>2, <2>3 DEF acc
  <2>5. ASSUME Magnitude(hi, lo)' = 0, buf'[n'] = 0 PROVE digits' = 1
    <3>1. acc = 0
      <4>1. rest = 0 /\ divided.digit = 0  BY <1>6, <2>2, <2>5 DEF acc
      <4>2. QED  BY <1>3, <4>1
    <3>2. hi = 0 /\ lo = 0
      <4>1. hi \in Nat /\ lo \in Nat /\ Word \in Nat \ {0}  BY <1>2, DecimalConstants DEF DecimalTypeOK
      <4>2. hi * Word + lo = 0  BY <3>1 DEF acc, Magnitude
      <4>3. hi * Word \in Nat /\ (hi # 0 => hi * Word # 0)  BY <4>1
      <4>4. QED  BY <4>1, <4>2, <4>3
    <3>3. QED  BY <1>1, <1>5, <3>2
  <2>6. QED  BY <2>1, <2>4, <2>5 DEF Dividing
<1>12. (Padding /\ Pointed /\ ReadsBack)'  BY <1>1 DEF Padding, Pointed, ReadsBack
<1>13. QED  BY <1>10, <1>11, <1>12 DEF DecimalInv

LEMMA DigitsDoneInv == DecimalInv /\ DigitsDone => DecimalInv'
<1> SUFFICES ASSUME DecimalInv, DigitsDone PROVE DecimalInv'  OBVIOUS
<1>1. /\ digits # 0 /\ hi = 0 /\ lo = 0 /\ stage = "digits" /\ stage' = "zeros"
      /\ d' = d /\ hi' = hi /\ lo' = lo /\ digits' = digits /\ n' = n /\ buf' = buf
  BY DEF DigitsDone, Go
<1>2. DecimalTypeOK /\ Written
      /\ Magnitude(hi, lo) * Tens[digits] + Number(buf, n, digits) = Whole
      /\ (digits # 0 /\ Magnitude(hi, lo) = 0 /\ buf[n] = 0 => digits = 1)
  BY <1>1 DEF DecimalInv, Dividing
<1>3. DecimalTypeOK' /\ Written' /\ Whole' = Whole
  BY <1>1, <1>2 DEF DecimalTypeOK, Written, Whole
<1>4. Magnitude(hi, lo) = 0  BY <1>1, DecimalConstants DEF Magnitude
<1>5. Number(buf, n, digits) = Whole
  <2>1. digits \in Nat /\ Tens[digits] \in Nat  BY <1>2, TensAre DEF DecimalTypeOK
  <2>2. Number(buf, n, digits) \in Nat
    <3>1. n \in Int /\ n + digits - 1 = BufferLength - 1  BY <1>2, <2>1, DecimalConstants DEF Written
    <3>2. \A i \in n .. n + digits - 1 : buf[i] \in Nat  BY <1>2, <3>1 DEF Written, Digit
    <3>3. \E g : CountsUp(g, buf, n, digits)  BY <2>1, <3>1, <3>2, NumberUnfolds
    <3>4. QED  BY <2>1, <3>3 DEF CountsUp
  <2>3. QED  BY <1>2, <1>4, <2>1, <2>2
<1>6. d.Scale \in Nat  BY <1>2, WholeFits, DecimalConstants DEF DecimalTypeOK
<1>7. Padding'  BY <1>1, <1>2, <1>3, <1>4, <1>5, <1>6 DEF Padding
<1>8. (Dividing /\ Pointed /\ ReadsBack)'  BY <1>1 DEF Dividing, Pointed, ReadsBack
<1>9. QED  BY <1>3, <1>7, <1>8 DEF DecimalInv

LEMMA WriteZeroInv == DecimalInv /\ WriteZero => DecimalInv'
<1> SUFFICES ASSUME DecimalInv, WriteZero PROVE DecimalInv'  OBVIOUS
<1>1. /\ stage = "zeros" /\ digits <= d.Scale /\ n' = n - 1 /\ buf' = [buf EXCEPT ![n - 1] = 0]
      /\ digits' = digits + 1 /\ d' = d /\ stage' = stage /\ hi' = hi /\ lo' = lo
  BY DEF WriteZero, ShortOfPoint, Put
<1>2. /\ DecimalTypeOK /\ Written /\ digits # 0 /\ Number(buf, n, digits) = Whole
  BY <1>1 DEF DecimalInv, Padding
<1>3. /\ n = BufferLength - digits /\ digits \in Nat /\ digits <= BufferLength - 2 /\ 0 \in Digit
  BY <1>2 DEF DecimalTypeOK, Written, Digit
<1>4. /\ n' >= 1 /\ n' = BufferLength - digits'
      /\ buf' \in [0 .. BufferLength - 1 -> Character]
      /\ \A i \in n' .. BufferLength - 1 : buf'[i] \in Digit
      /\ Number(buf, n, digits) \in Nat
      /\ Number(buf', n', digits') = 0 * Tens[digits] + Number(buf, n, digits)
  <2>1. buf \in [0 .. BufferLength - 1 -> Character]
        /\ \A i \in BufferLength - digits .. BufferLength - 1 : buf[i] \in Digit
    BY <1>2, <1>3 DEF DecimalTypeOK, Written
  <2>2. LET first == BufferLength - digits - 1
            e == [buf EXCEPT ![first] = 0]
        IN  /\ first >= 1 /\ first = BufferLength - (digits + 1)
            /\ e \in [0 .. BufferLength - 1 -> Character]
            /\ e[first] = 0
            /\ \A i \in first .. BufferLength - 1 : e[i] \in Digit
            /\ Number(buf, BufferLength - digits, digits) \in Nat
            /\ Number(e, first, digits + 1)
                 = 0 * Tens[digits] + Number(buf, BufferLength - digits, digits)
    BY <1>3, <2>1, DigitInFront
  <2>3. n - 1 = BufferLength - digits - 1  BY <1>3
  <2>4. buf' = [buf EXCEPT ![BufferLength - digits - 1] = 0] /\ n' = BufferLength - digits - 1
    BY <1>1, <2>3
  <2>5. QED  BY <1>1, <1>3, <2>2, <2>4, Zenon
<1>5. Number(buf', n', digits') = Whole'
  <2>1. Tens[digits] \in Nat /\ Whole' = Whole  BY <1>1, <1>3, TensAre DEF Whole
  <2>2. QED  BY <1>2, <1>4, <2>1
<1>6. d.Scale \in 0 .. MaxScale /\ MaxScale \in Nat  BY <1>2, WholeFits, DecimalConstants DEF DecimalTypeOK
<1>7. digits' <= BufferLength - 2  BY <1>1, <1>3, <1>6, DecimalConstants
<1>8. DecimalTypeOK'  BY <1>1, <1>2, <1>3, <1>4, <1>7 DEF DecimalTypeOK
<1>9. Written'  BY <1>4 DEF Written
<1>10. Padding'  BY <1>1, <1>3, <1>5, <1>6, <1>9 DEF Padding
<1>11. (Dividing /\ Pointed /\ ReadsBack)'  BY <1>1 DEF Dividing, Pointed, ReadsBack
<1>12. QED  BY <1>8, <1>10, <1>11 DEF DecimalInv

LEMMA ZerosDoneInv == DecimalInv /\ ZerosDone => DecimalInv'
<1> SUFFICES ASSUME DecimalInv, ZerosDone PROVE DecimalInv'  OBVIOUS
<1>1. /\ ~(digits <= d.Scale) /\ stage = "zeros" /\ stage' = "point"
      /\ d' = d /\ hi' = hi /\ lo' = lo /\ digits' = digits /\ n' = n /\ buf' = buf
  BY DEF ZerosDone, ShortOfPoint, Go
<1>2. DecimalTypeOK /\ Padding  BY DEF DecimalInv
<1>3. d.Scale \in Nat /\ digits \in Nat  BY <1>2, WholeFits, DecimalConstants DEF DecimalTypeOK
<1>4. DecimalTypeOK' /\ Written' = Written /\ Whole' = Whole
  BY <1>1, <1>2 DEF DecimalTypeOK, Written, Whole
<1>5. Padding'  BY <1>1, <1>2, <1>3, <1>4 DEF Padding
<1>6. (Dividing /\ Pointed /\ ReadsBack)'  BY <1>1 DEF Dividing, Pointed, ReadsBack
<1>7. QED  BY <1>4, <1>5, <1>6 DEF DecimalInv

(* The digits before the last Scale of them and those stand for the whole. *)
LEMMA NumberAtPoint ==
    ASSUME DecimalTypeOK, Written, digits > d.Scale, Number(buf, n, digits) = Whole
    PROVE  LET point == BufferLength - d.Scale
           IN  /\ n < point /\ n >= 2 /\ point \in n .. BufferLength /\ digits = point - n + d.Scale
               /\ \A i \in n .. BufferLength - 1 : buf[i] \in Nat
               /\ Number(buf, n, point - n) * Tens[d.Scale] + Number(buf, point, d.Scale) = Whole
<1> DEFINE point == BufferLength - d.Scale
           front == point - n
<1>1. d.Scale \in Nat /\ digits \in Nat /\ n = BufferLength - digits /\ BufferLength \in Nat
      /\ digits <= BufferLength - 2
  BY WholeFits, DecimalConstants DEF DecimalTypeOK, Written
<1>2. /\ point \in n .. BufferLength /\ n < point /\ n >= 2 /\ front \in Nat /\ digits = front + d.Scale
      /\ n + front = point /\ n + front + d.Scale - 1 = BufferLength - 1 /\ n \in Int
  BY <1>1
<1>3. \A i \in n .. BufferLength - 1 : buf[i] \in Nat  BY DEF Written, Digit
<1> HIDE DEF point, front
<1>4. Number(buf, n, front + d.Scale)
        = Number(buf, n, front) * Tens[d.Scale] + Number(buf, n + front, d.Scale)
  <2> DEFINE rest == d.Scale
  <2>1. /\ rest \in Nat /\ n \in Int /\ front \in Nat
        /\ \A i \in n .. n + front + rest - 1 : buf[i] \in Nat
    BY <1>1, <1>2, <1>3
  <2> HIDE DEF rest
  <2>2. Number(buf, n, front + rest) = Number(buf, n, front) * Tens[rest] + Number(buf, n + front, rest)
    BY <2>1, NumberSplits
  <2>3. QED  BY <2>2 DEF rest
<1>5. Number(buf, n, front) * Tens[d.Scale] + Number(buf, point, d.Scale) = Whole
  BY <1>2, <1>4
<1>6. QED  BY <1>2, <1>3, <1>5 DEF point, front

LEMMA PlacePointInv == DecimalInv /\ PlacePoint => DecimalInv'
<1> SUFFICES ASSUME DecimalInv, PlacePoint PROVE DecimalInv'  OBVIOUS
<1> DEFINE point == BufferLength - d.Scale
           moved == [i \in DOMAIN buf |->
                       IF i \in n - 1 .. point - 2 THEN buf[i + 1]
                       ELSE IF i = point - 1 THEN Point ELSE buf[i]]
           N(b, first, count) == Number(b, first, count)
<1>1. /\ stage = "point" /\ stage' = "sign" /\ d' = d /\ hi' = hi /\ lo' = lo /\ digits' = digits
      /\ d.Scale = 0 => n' = n /\ buf' = buf
      /\ d.Scale # 0 => n' = n - 1 /\ buf' = moved
  BY DEF PlacePoint, Go
<1>2. /\ DecimalTypeOK /\ Written /\ digits > d.Scale /\ Number(buf, n, digits) = Whole
      /\ buf[n] = 0 => digits <= d.Scale + 1
  BY <1>1 DEF DecimalInv, Padding
<1>3. n < point /\ n >= 2 /\ point \in n .. BufferLength
  BY <1>2, NumberAtPoint
<1>0. N(buf, n, point - n) * Tens[d.Scale] + N(buf, point, d.Scale) = Whole
  BY <1>2, NumberAtPoint
<1>4. /\ d.Scale \in Nat /\ BufferLength \in Nat /\ digits \in Nat /\ n = BufferLength - digits
      /\ n \in Int /\ point \in Int /\ point = BufferLength - d.Scale
      /\ \A i \in n .. BufferLength - 1 : buf[i] \in Digit
      /\ buf \in [0 .. BufferLength - 1 -> Character]
      /\ digits <= BufferLength - 2
  BY <1>2, WholeFits, DecimalConstants DEF DecimalTypeOK, Written
<1>5. Whole' = Whole  BY <1>1 DEF Whole
<1> HIDE DEF point, N
<1>6. CASE d.Scale = 0
  <2>1. point = BufferLength /\ n' = n /\ buf' = buf  BY <1>1, <1>4, <1>6
  <2>2. DecimalTypeOK'  BY <1>1, <1>2, <2>1 DEF DecimalTypeOK
  <2>3. buf[n] = 0 => n = BufferLength - 1  BY <1>2, <1>3, <1>4, <1>6
  <2>4. N(buf, n, BufferLength - n) * Tens[d.Scale] + N(buf, point, d.Scale) = Whole
    BY <1>0, <2>1
  <2>5. \A i \in (n .. BufferLength - 1) \cup (point .. BufferLength - 1) : buf[i] \in Digit
    BY <1>4, <2>1
  <2>6. Text(n)
    BY <1>3, <1>6, <2>1, <2>3, <2>4, <2>5 DEF Text, point, N
  <2>7. Text(n)' /\ n' \in 1 .. BufferLength
    <3>1. n \in 1 .. BufferLength  BY <1>3, <1>4
    <3>2. QED  BY <1>1, <1>5, <2>1, <2>6, <3>1 DEF Text
  <2>8. QED  BY <1>1, <2>2, <2>7 DEF DecimalInv, Dividing, Padding, Pointed, ReadsBack
<1>7. CASE d.Scale # 0
  <2>1. n' = n - 1 /\ buf' = moved  BY <1>1, <1>7
  <2>2. DOMAIN buf = 0 .. BufferLength - 1  BY <1>4
  <2>3. \A i \in 0 .. BufferLength - 1 :
           moved[i] = IF i \in n - 1 .. point - 2 THEN buf[i + 1]
                      ELSE IF i = point - 1 THEN Point ELSE buf[i]
    BY <2>2
  <2>4. moved \in [0 .. BufferLength - 1 -> Character]
    <3>1. ASSUME NEW i \in 0 .. BufferLength - 1
          PROVE  (IF i \in n - 1 .. point - 2 THEN buf[i + 1]
                  ELSE IF i = point - 1 THEN Point ELSE buf[i]) \in Character
      <4>1. CASE i \in n - 1 .. point - 2
        <5>1. i + 1 \in 0 .. BufferLength - 1  BY <1>3, <1>4, <4>1
        <5>2. QED  BY <1>4, <4>1, <5>1
      <4>2. CASE i \notin n - 1 .. point - 2
        BY <1>4, <4>2 DEF Character
      <4>3. QED  BY <4>1, <4>2
    <3>2. QED  BY <2>2, <3>1
  <2> HIDE DEF moved
  <2>5. DecimalTypeOK'  BY <1>1, <1>2, <2>1, <2>4 DEF DecimalTypeOK
  <2> DEFINE whole == n - 1
             end == point - 1
  <2>6. /\ whole >= 1 /\ whole < end /\ whole \in 0 .. BufferLength - 1 /\ end \in 0 .. BufferLength - 1
        /\ whole = n - 1 /\ end = point - 1 /\ point <= BufferLength
    BY <1>3, <1>4, <1>7
  <2> HIDE DEF whole, end
  <2>7. moved[end] = Point
    <3>1. end \notin n - 1 .. point - 2  BY <1>3, <1>4, <2>6
    <3>2. QED  BY <2>3, <2>6, <3>1
  <2>8. \A i \in whole .. end - 1 : moved[i] = buf[i + 1] /\ buf[i + 1] \in Digit
    <3>1. ASSUME NEW i \in whole .. end - 1 PROVE moved[i] = buf[i + 1] /\ buf[i + 1] \in Digit
      <4>1. i \in n - 1 .. point - 2 /\ i \in 0 .. BufferLength - 1 /\ i + 1 \in n .. BufferLength - 1
        <5>1. /\ n \in Int /\ point \in Int /\ BufferLength \in Nat /\ point <= BufferLength
              /\ n - 1 >= 1 /\ i \in n - 1 .. point - 2
          BY <1>4, <2>6
        <5>2. QED  BY <5>1
      <4>2. QED  BY <1>4, <2>3, <4>1
    <3>2. QED  BY <3>1
  <2>9. \A i \in point .. BufferLength - 1 : moved[i] = buf[i] /\ buf[i] \in Digit
    <3>1. ASSUME NEW i \in point .. BufferLength - 1 PROVE moved[i] = buf[i] /\ buf[i] \in Digit
      <4>1. i \notin n - 1 .. point - 2 /\ i # point - 1 /\ i \in 0 .. BufferLength - 1
            /\ i \in n .. BufferLength - 1
        BY <1>3, <1>4
      <4>2. QED  BY <1>4, <2>3, <4>1
    <3>2. QED  BY <3>1
  <2>10. moved[whole] = 0 => whole = end - 1
    <3>1. ASSUME moved[whole] = 0 PROVE whole = end - 1
      <4>1. whole \in whole .. end - 1 /\ whole + 1 = n  BY <1>4, <2>6
      <4>2. buf[n] = 0  BY <2>8, <3>1, <4>1
      <4>3. digits <= d.Scale + 1  BY <1>2, <4>2
      <4>4. n = point - 1  BY <1>3, <1>4, <4>3
      <4>5. whole = n - 1 /\ end = point - 1  BY <2>6
      <4>6. QED  BY <1>4, <4>4, <4>5
    <3>2. QED  BY <3>1
  <2>11. N(moved, whole, end - whole) = N(buf, n, point - n)
    <3> DEFINE count == point - n
    <3>1. count \in Nat /\ end - whole = count /\ n \in Int /\ whole \in Int  BY <1>3, <1>4, <2>6, SMTT(30)
    <3>2. ASSUME NEW k \in 0 .. count - 1 PROVE buf[n + k] \in Nat /\ buf[n + k] = moved[whole + k]
      <4>1. whole + k \in whole .. end - 1
        <5>1. whole \in Int /\ end \in Int /\ k \in 0 .. (end - whole) - 1  BY <2>6, <3>1
        <5>2. QED  BY <5>1
      <4>0. (whole + k) + 1 = n + k
        <5>1. whole = n - 1 /\ n \in Int /\ k \in Int  BY <1>4, <2>6, <3>1
        <5>2. QED  BY <5>1
      <4>2. QED  BY <2>8, <4>0, <4>1 DEF Digit
    <3> HIDE DEF count
    <3>3. SameDigits(buf, n, moved, whole, count)  BY <3>2 DEF SameDigits
    <3>4. Number(buf, n, count) = Number(moved, whole, count)  BY <3>1, <3>3, NumberMoves
    <3>5. QED  BY <3>1, <3>4 DEF N, count
  <2>12. N(moved, point, d.Scale) = N(buf, point, d.Scale)
    <3>1. ASSUME NEW k \in 0 .. d.Scale - 1
          PROVE  buf[point + k] \in Nat /\ buf[point + k] = moved[point + k]
      <4>1. point + k \in point .. BufferLength - 1  BY <1>4
      <4>2. QED  BY <2>9, <4>1 DEF Digit
    <3>2. SameDigits(buf, point, moved, point, d.Scale)  BY <3>1 DEF SameDigits
    <3>3. Number(buf, point, d.Scale) = Number(moved, point, d.Scale)
      BY <1>4, <3>2, NumberMoves
    <3>4. QED  BY <3>3 DEF N
  <2>13. \A i \in (whole .. end - 1) \cup (point .. BufferLength - 1) : moved[i] \in Digit
    BY <2>8, <2>9
  <2>14. N(moved, whole, end - whole) * Tens[d.Scale] + N(moved, point, d.Scale) = Whole
    BY <1>0, <2>11, <2>12
  <2>15. Text(n)'
    BY <1>1, <1>5, <1>7, <2>1, <2>6, <2>7, <2>10, <2>13, <2>14 DEF Text, point, N, end, whole
  <2>16. n' \in 1 .. BufferLength  BY <1>4, <2>1, <2>6
  <2>17. QED  BY <1>1, <2>5, <2>15, <2>16 DEF DecimalInv, Dividing, Padding, Pointed, ReadsBack
<1>8. QED  BY <1>6, <1>7

LEMMA PlaceSignInv == DecimalInv /\ PlaceSign => DecimalInv'
<1> SUFFICES ASSUME DecimalInv, PlaceSign PROVE DecimalInv'  OBVIOUS
<1> DEFINE point == BufferLength - d.Scale
           end == IF d.Scale = 0 THEN BufferLength ELSE point - 1
<1>1. /\ stage = "sign" /\ stage' = "done" /\ d' = d /\ hi' = hi /\ lo' = lo /\ digits' = digits
      /\ d.Negative => n' = n - 1 /\ buf' = [buf EXCEPT ![n - 1] = Minus]
      /\ ~d.Negative => n' = n /\ buf' = buf
  BY DEF PlaceSign, Go, Put
<1>2. DecimalTypeOK /\ n \in 1 .. BufferLength /\ Text(n)  BY <1>1 DEF DecimalInv, Pointed
<1>3. /\ d.Scale # 0 => buf[point - 1] = Point
      /\ n < end
      /\ \A i \in (n .. end - 1) \cup (point .. BufferLength - 1) : buf[i] \in Digit
      /\ buf[n] = 0 => n = end - 1
  BY <1>2 DEF Text
<1>0. Number(buf, n, end - n) * Tens[d.Scale] + Number(buf, point, d.Scale) = Whole
  BY <1>2 DEF Text
<1>4. /\ BufferLength \in Nat /\ d.Scale \in Nat /\ d.Negative \in BOOLEAN /\ Minus \notin Digit
      /\ buf \in [0 .. BufferLength - 1 -> Character] /\ d.Scale <= BufferLength - 3
  BY <1>2, WholeFits, DecimalConstants DEF DecimalTypeOK
<1>5. Whole' = Whole  BY <1>1 DEF Whole
<1>6. /\ point \in Int /\ end \in Int /\ n \in Int /\ n - 1 \in 0 .. BufferLength - 1
      /\ end <= BufferLength /\ point <= BufferLength /\ end <= point /\ point >= 1
      /\ d.Scale = BufferLength - point
      /\ d.Scale # 0 => point - 1 >= n
      /\ end - n \in Nat
  BY <1>2, <1>3, <1>4
<1>7. CASE d.Negative
  <2> DEFINE signed == [buf EXCEPT ![n - 1] = Minus]
  <2>1. buf' = signed /\ n' = n - 1  BY <1>1, <1>7
  <2>2. /\ signed \in [0 .. BufferLength - 1 -> Character] /\ signed[n - 1] = Minus
        /\ \A i \in 0 .. BufferLength - 1 : i # n - 1 => signed[i] = buf[i]
    BY <1>4, <1>6 DEF Character
  <2> HIDE DEF signed, point, end
  <2>3. \A i \in n .. BufferLength - 1 : signed[i] = buf[i]
    <3>1. \A i \in n .. BufferLength - 1 : i \in 0 .. BufferLength - 1 /\ i # n - 1  BY <1>2, <1>4
    <3>2. QED  BY <2>2, <3>1
  <2>4. DecimalTypeOK'  BY <1>1, <1>2, <2>1, <2>2 DEF DecimalTypeOK
  <2>5. Number(signed, n, end - n) = Number(buf, n, end - n)
    <3> DEFINE count == end - n
    <3>1. ASSUME NEW k \in 0 .. count - 1 PROVE buf[n + k] \in Nat /\ buf[n + k] = signed[n + k]
      <4>1. n + k \in n .. end - 1 /\ n + k \in n .. BufferLength - 1  BY <1>4, <1>6
      <4>2. QED  BY <1>3, <2>3, <4>1 DEF Digit
    <3>2. count \in Nat  BY <1>6
    <3> HIDE DEF count
    <3>3. SameDigits(buf, n, signed, n, count)  BY <3>1 DEF SameDigits
    <3>4. Number(buf, n, count) = Number(signed, n, count)  BY <1>6, <3>2, <3>3, NumberMoves
    <3>5. QED  BY <3>4 DEF count
  <2>6. Number(signed, point, d.Scale) = Number(buf, point, d.Scale)
    <3>1. ASSUME NEW k \in 0 .. d.Scale - 1
          PROVE  buf[point + k] \in Nat /\ buf[point + k] = signed[point + k]
      <4>1. point + k \in point .. BufferLength - 1 /\ point + k \in n .. BufferLength - 1
        BY <1>3, <1>4, <1>6
      <4>2. QED  BY <1>3, <2>3, <4>1 DEF Digit
    <3>2. SameDigits(buf, point, signed, point, d.Scale)  BY <3>1 DEF SameDigits
    <3>3. QED  BY <1>4, <1>6, <3>2, NumberMoves
  <2>7. d.Scale # 0 => signed[point - 1] = Point
    <3>1. ASSUME d.Scale # 0 PROVE signed[point - 1] = Point
      <4>1. point - 1 \in n .. BufferLength - 1  BY <1>4, <1>6, <3>1
      <4>2. QED  BY <1>3, <2>3, <3>1, <4>1
    <3>2. QED  BY <3>1
  <2>8. \A i \in (n .. end - 1) \cup (point .. BufferLength - 1) : signed[i] \in Digit
    <3>1. ASSUME NEW i \in (n .. end - 1) \cup (point .. BufferLength - 1) PROVE signed[i] \in Digit
      <4>1. i \in n .. BufferLength - 1  BY <1>3, <1>4, <1>6
      <4>2. QED  BY <1>3, <2>3, <4>1
    <3>2. QED  BY <3>1
  <2>9. signed[n] = 0 => n = end - 1
    <3>1. n \in n .. BufferLength - 1  BY <1>3, <1>4, <1>6
    <3>2. QED  BY <1>3, <2>3, <3>1
  <2>10. n' + 1 = n /\ n' >= 0  BY <1>2, <2>1
  <2>11. Number(signed, n, end - n) * Tens[d.Scale] + Number(signed, point, d.Scale) = Whole
    BY <1>0, <2>5, <2>6
  <2>12. ReadsBack'
    <3>1. d'.Negative /\ d'.Scale = d.Scale /\ (d'.Negative <=> buf'[n'] = Minus)
      BY <1>1, <1>7, <2>1, <2>2
    <3>2. n' + (IF d'.Negative THEN 1 ELSE 0) = n  BY <2>10, <3>1
    <3>3. Magnitude(d.Hi, d.Lo)' = Whole  BY <1>1 DEF Whole
    <3>4. QED
      BY <1>1, <1>3, <2>1, <2>7, <2>8, <2>9, <2>10, <2>11, <3>1, <3>2, <3>3 DEF ReadsBack, point, end
  <2>13. QED  BY <1>1, <2>4, <2>12 DEF DecimalInv, Dividing, Padding, Pointed
<1>8. CASE ~d.Negative
  <2>1. buf' = buf /\ n' = n  BY <1>1, <1>8
  <2>2. DecimalTypeOK'  BY <1>1, <1>2, <2>1 DEF DecimalTypeOK
  <2>3. buf[n] # Minus
    <3>1. n \in n .. end - 1  BY <1>3, <1>6
    <3>2. QED  BY <1>3, <1>4, <3>1
  <2>4. ReadsBack'
    <3>1. ~d'.Negative /\ d'.Scale = d.Scale  BY <1>1, <1>8
    <3>2. n' + (IF d'.Negative THEN 1 ELSE 0) = n  BY <1>6, <2>1, <3>1
    <3>3. Magnitude(d.Hi, d.Lo)' = Whole  BY <1>1 DEF Whole
    <3>4. QED  BY <1>0, <1>1, <1>2, <1>3, <2>1, <2>3, <3>1, <3>2, <3>3 DEF ReadsBack
  <2>5. QED  BY <1>1, <2>2, <2>4 DEF DecimalInv, Dividing, Padding, Pointed
<1>9. QED  BY <1>4, <1>7, <1>8

LEMMA DecimalNext == DecimalInv /\ [Next]_vars => DecimalInv'
<1>1. DecimalInv /\ UNCHANGED vars => DecimalInv'
  BY DEF DecimalInv, DecimalTypeOK, Dividing, Padding, Written, Whole, Pointed, Text, ReadsBack, vars
<1>2. QED
  BY <1>1, WriteDigitInv, DigitsDoneInv, WriteZeroInv, ZerosDoneInv, PlacePointInv, PlaceSignInv
     DEF Next

(* Decimal.String's text is canonical, reads back as the Decimal and stays *)
(* in its buffer, for any width of its words, scale and buffer.            *)
THEOREM ReadsBackHolds == Spec => []ReadsBack
<1>1. DecimalInv => ReadsBack  BY DEF DecimalInv
<1>2. QED  BY <1>1, DecimalInit, DecimalNext, PTL DEF Spec

-----------------------------------------------------------------------------
(* An integer the machine holds survives its wrapping.                     *)
LEMMA WrapKeeps ==
    ASSUME NEW x \in -MaxInt - 1 .. MaxInt
    PROVE  Wrap64(x) = x
<1> DEFINE modulus == 2 * MaxInt + 2
           y == x + MaxInt + 1
<1>1. MaxInt \in Nat  BY DurationAssumption
<1>2. modulus \in Nat \ {0} /\ y \in 0 .. modulus - 1 /\ y - MaxInt - 1 = x /\ x \in Int  BY <1>1
<1>3. Wrap64(x) = (y % modulus) - MaxInt - 1  BY DEF Wrap64
<1> HIDE DEF modulus, y
<1>4. y % modulus = y  BY <1>2
<1>5. QED  BY <1>2, <1>3, <1>4

(* The last whole second, and what of an integer is past it.               *)
LEMMA LastSecond ==
    /\ MaxInt \in Nat /\ NanosPerSecond \in Nat \ {0} /\ MaxSeconds \in Nat
    /\ \E rest \in Nat : /\ rest < NanosPerSecond - 1
                         /\ MaxInt = MaxSeconds * NanosPerSecond + rest
<1> DEFINE rest == MaxInt % NanosPerSecond
<1>1. MaxInt \in Nat /\ NanosPerSecond \in Nat \ {0}  BY DurationAssumption
<1>2. /\ MaxSeconds \in Nat /\ rest \in Nat /\ rest < NanosPerSecond
      /\ MaxInt = MaxSeconds * NanosPerSecond + rest
  BY <1>1, Z3 DEF MaxSeconds
<1> HIDE DEF rest
<1>3. rest # NanosPerSecond - 1
  <2>1. ASSUME rest = NanosPerSecond - 1 PROVE FALSE
    <3>1. MaxInt + 1 = (MaxSeconds + 1) * NanosPerSecond
      BY <1>1, <1>2, <2>1
    <3>2. (MaxInt + 1) % NanosPerSecond = 0
      <4> DEFINE k == MaxSeconds + 1
      <4>1. k \in Nat  BY <1>2
      <4> HIDE DEF k
      <4>2. (k * NanosPerSecond) % NanosPerSecond = 0  BY <1>1, <4>1, Z3
      <4>3. QED  BY <3>1, <4>2 DEF k
    <3>3. QED  BY <3>2, DurationAssumption
  <2>2. QED  BY <2>1
<1>4. QED  BY <1>1, <1>2, <1>3

(* A duration of so many whole seconds, bounded from either side.          *)
LEMMA SecondsBound ==
    ASSUME NEW s \in Int, NEW p \in Int
    PROVE  /\ s <= p => s * NanosPerSecond <= p * NanosPerSecond
           /\ s > p => s * NanosPerSecond >= p * NanosPerSecond + NanosPerSecond
<1>1. NanosPerSecond \in Nat \ {0}  BY DurationAssumption
<1>2. s <= p => s * NanosPerSecond <= p * NanosPerSecond  BY <1>1, Z3
<1>3. ASSUME s > p PROVE s * NanosPerSecond >= p * NanosPerSecond + NanosPerSecond
  <2>1. s >= p + 1 /\ p + 1 \in Int  BY <1>3
  <2>2. s * NanosPerSecond >= (p + 1) * NanosPerSecond  BY <1>1, <2>1, Z3
  <2>3. (p + 1) * NanosPerSecond = p * NanosPerSecond + NanosPerSecond  BY <1>1
  <2>4. QED  BY <2>2, <2>3
<1>4. QED  BY <1>2, <1>3

(* AsDuration converts every duration an integer holds, to the nanosecond. *)
THEOREM WhatFitsIsExact ==
    ASSUME NEW x \in Durations, Representable(x)
    PROVE  AsDuration(x) = [value |-> Exactly(x), ok |-> TRUE]
<1> DEFINE s == x.seconds
           nano == x.nanos
           P == NanosPerSecond
           M == MaxSeconds
           sP == s * P
           MP == M * P
           minusMP == (-M) * P
<1>1. PICK rest \in Nat : rest < P - 1 /\ MaxInt = MP + rest  BY LastSecond
<1>2. P \in Nat \ {0} /\ M \in Nat /\ MaxInt \in Nat  BY LastSecond
<1>3. s \in Int /\ nano \in -(P - 1) .. P - 1 /\ s * nano >= 0
  BY <1>2 DEF Durations
<1>4. sP \in Int /\ MP \in Int /\ minusMP = -MP /\ minusMP \in Int  BY <1>2, <1>3
<1>5. sP + nano \in -MaxInt - 1 .. MaxInt  BY DEF Representable, Exactly
<1>6. s > 0 => nano >= 0
  <2>1. ASSUME s > 0, nano < 0 PROVE FALSE
    <3>1. s * nano < 0  BY <1>3, <2>1, Z3
    <3>2. QED  BY <1>3, <3>1
  <2>2. QED  BY <1>3, <2>1
<1>7. s < 0 => nano <= 0
  <2>1. ASSUME s < 0, nano > 0 PROVE FALSE
    <3>1. s * nano < 0  BY <1>3, <2>1, Z3
    <3>2. QED  BY <1>3, <3>1
  <2>2. QED  BY <1>3, <2>1
<1>8. /\ s <= M => sP <= MP
      /\ s > M => sP >= MP + P
      /\ -M <= s => minusMP <= sP
      /\ -M > s => minusMP >= sP + P
  <2>1. -M \in Int /\ M \in Int  BY <1>2
  <2>2. /\ s <= M => s * P <= M * P
        /\ s > M => s * P >= M * P + P
    BY <1>3, <2>1, SecondsBound
  <2>3. /\ -M <= s => (-M) * P <= s * P
        /\ -M > s => (-M) * P >= s * P + P
    BY <1>3, <2>1, SecondsBound
  <2>4. QED  BY <2>2, <2>3
<1>9. AsDuration(x) = IF s > M \/ s < -M THEN [value |-> 0, ok |-> FALSE]
                      ELSE [value |-> Wrap64(Wrap64(sP) + nano), ok |-> TRUE]
  BY DEF AsDuration
<1>10. Exactly(x) = sP + nano  BY DEF Exactly
<1> HIDE DEF s, nano, P, M, sP, MP, minusMP
<1>11. ~(s > M) /\ ~(s < -M)
  <2>1. ASSUME s > M PROVE FALSE
    <3>1. s > 0  BY <1>2, <1>3, <2>1
    <3>2. nano >= 0 /\ sP >= MP + P  BY <1>6, <1>8, <2>1, <3>1
    <3>3. QED  BY <1>1, <1>2, <1>3, <1>4, <1>5, <3>2
  <2>2. ASSUME s < -M PROVE FALSE
    <3>1. s < 0 /\ -M > s  BY <1>2, <1>3, <2>2
    <3>2. nano <= 0 /\ minusMP >= sP + P  BY <1>7, <1>8, <3>1
    <3>3. QED  BY <1>1, <1>2, <1>3, <1>4, <1>5, <3>2
  <2>3. QED  BY <2>1, <2>2
<1>12. sP \in -MaxInt - 1 .. MaxInt
  <2>1. s <= M /\ -M <= s  BY <1>2, <1>3, <1>11
  <2>2. QED  BY <1>1, <1>2, <1>4, <1>8, <2>1
<1>13. Wrap64(sP) = sP  BY <1>12, WrapKeeps
<1>14. Wrap64(sP + nano) = sP + nano  BY <1>5, WrapKeeps
<1>15. QED  BY <1>9, <1>10, <1>11, <1>13, <1>14

(* What AsDuration gets wrong is in the last second of either sign, and no *)
(* more (see the run duration_wraps).                                      *)
THEOREM OnlyTheLastSecondWraps ==
    ASSUME NEW x \in Durations, AsDuration(x).ok, ~Representable(x)
    PROVE  x.seconds \in {MaxSeconds, -MaxSeconds}
<1> DEFINE s == x.seconds
           nano == x.nanos
           P == NanosPerSecond
           M == MaxSeconds
           sP == s * P
           below == (M - 1) * P
           above == (1 - M) * P
           MP == M * P
<1>1. PICK rest \in Nat : rest < P - 1 /\ MaxInt = MP + rest  BY LastSecond
<1>2. P \in Nat \ {0} /\ M \in Nat /\ MaxInt \in Nat  BY LastSecond
<1>3. s \in Int /\ nano \in -(P - 1) .. P - 1  BY <1>2 DEF Durations
<1>4. s <= M /\ -M <= s
  <2>1. AsDuration(x) = IF s > M \/ s < -M THEN [value |-> 0, ok |-> FALSE]
                        ELSE [value |-> Wrap64(Wrap64(sP) + nano), ok |-> TRUE]
    BY DEF AsDuration
  <2>2. ~(s > M \/ s < -M)
    <3> HIDE DEF s, nano, M, sP
    <3>1. QED  BY <2>1
  <2>3. QED  BY <1>2, <1>3, <2>2
<1>5. ~(sP + nano \in -MaxInt - 1 .. MaxInt)  BY DEF Representable, Exactly
<1>6. /\ sP \in Int /\ MP \in Int
      /\ below = MP - P /\ above = P - MP /\ below \in Int /\ above \in Int
  BY <1>2, <1>3
<1>7. ASSUME s # M, s # -M PROVE FALSE
  <2>1. s <= M - 1 /\ 1 - M <= s /\ M - 1 \in Int /\ 1 - M \in Int  BY <1>2, <1>3, <1>4, <1>7
  <2>2. s * P <= (M - 1) * P /\ (1 - M) * P <= s * P  BY <1>3, <2>1, SecondsBound
  <2>3. sP <= below /\ above <= sP  BY <2>2
  <2> HIDE DEF s, nano, P, M, sP, below, above, MP
  <2>4. QED  BY <1>1, <1>2, <1>3, <1>5, <1>6, <2>3
<1>8. QED  BY <1>7

-----------------------------------------------------------------------------
(* The calendar that begins on the first of March, where a leap day is a   *)
(* year's last: the year, month and day there of a date.                   *)
MarchYear(date) == IF date.month < 3 THEN date.year - 1 ELSE date.year
MarchMonth(date) == IF date.month < 3 THEN date.month + 9 ELSE date.month - 3
MarchDay(date) == (153 * MarchMonth(date) + 2) \div 5 + date.day - 1

(* Days since the first of March of the year 0.                            *)
DayNumber(date) ==
    365 * MarchYear(date) + MarchYear(date) \div 4 - MarchYear(date) \div 100
        + MarchYear(date) \div 400 + MarchDay(date)

CivilDates ==
    { x \in [year : Nat \ {0}, month : 1 .. 12, day : 1 .. 31] : x.day <= DaysIn(x.year, x.month) }

(* A year of that calendar: centuries, leap years and years of its era.    *)
LEMMA YearParts ==
    ASSUME NEW y \in Nat
    PROVE  \E era \in Nat, c \in 0 .. 3, q \in 0 .. 24, t \in 0 .. 3 :
              /\ y = 400 * era + 100 * c + 4 * q + t
              /\ y \div 4 = 100 * era + 25 * c + q
              /\ y \div 100 = 4 * era + c
              /\ y \div 400 = era
              /\ (100 * c + 4 * q + t) \div 4 = 25 * c + q
              /\ (100 * c + 4 * q + t) \div 100 = c
              /\ LeapYear(y + 1) <=> t = 3 /\ (q = 24 => c = 3)
<1> DEFINE era == y \div 400
           yoe == y % 400
           c == yoe \div 100
           yoc == yoe % 100
           q == yoc \div 4
           t == yoc % 4
<1>1. era \in Nat /\ yoe \in Nat /\ yoe <= 399 /\ y = 400 * era + yoe  OBVIOUS
<1> HIDE DEF era, yoe
<1>2. c \in 0 .. 3 /\ yoc \in 0 .. 99 /\ yoe = 100 * c + yoc  BY <1>1
<1> HIDE DEF c, yoc
<1>3. q \in 0 .. 24 /\ t \in 0 .. 3 /\ yoc = 4 * q + t  BY <1>2
<1> HIDE DEF q, t
<1>4. y = 400 * era + 100 * c + 4 * q + t  BY <1>1, <1>2, <1>3
<1>5. y \div 4 = 100 * era + 25 * c + q  BY <1>1, <1>2, <1>3, <1>4
<1>6. y \div 100 = 4 * era + c  BY <1>1, <1>2, <1>3, <1>4
<1>7. y \div 400 = era  BY <1>1, <1>2, <1>3, <1>4
<1>8. /\ (100 * c + 4 * q + t) \div 4 = 25 * c + q
      /\ (100 * c + 4 * q + t) \div 100 = c
  BY <1>2, <1>3
<1>9. LeapYear(y + 1) <=> t = 3 /\ (q = 24 => c = 3)
  <2>1. (y + 1) % 4 = 0 <=> t = 3
    BY <1>1, <1>2, <1>3, <1>4
  <2>2. (y + 1) % 100 = 0 <=> q = 24 /\ t = 3
    BY <1>1, <1>2, <1>3, <1>4
  <2>3. (y + 1) % 400 = 0 <=> c = 3 /\ q = 24 /\ t = 3
    BY <1>1, <1>2, <1>3, <1>4
  <2>4. QED  BY <2>1, <2>2, <2>3 DEF LeapYear
<1>10. QED  BY <1>1, <1>2, <1>3, <1>4, <1>5, <1>6, <1>7, <1>8, <1>9, SMTT(30)

(* The core's arithmetic in its steps: the year of an era's day, the date  *)
(* of a year's day.                                                        *)
YearGuess(doe) == (doe + doe \div 36524 - doe \div 1460 - (IF doe > 146095 THEN 1 ELSE 0)) \div 365

DateInYear(era, yoe, doy) ==
    LET mp == (5 * doy + 2) \div 153
        month == IF doy < 306 THEN mp + 3 ELSE mp - 9
    IN  [ year  |-> yoe + 400 * era + (IF month < 3 THEN 1 ELSE 0),
          month |-> month,
          day   |-> doy - (153 * mp + 2) \div 5 + 1 ]

DateInEra(era, doe) ==
    LET yoe == YearGuess(doe)
    IN  DateInYear(era, yoe, doe - (365 * yoe + yoe \div 4 - yoe \div 100))

(* A day of an era, by its century, leap years, year and day of the year.  *)
DayOfEra(c, q, t, doy) == 36524 * c + 1461 * q + 365 * t + doy

YearGuessed(c, q, t, doy) ==
    /\ DayOfEra(c, q, t, doy) \in Nat
    /\ DayOfEra(c, q, t, doy) < 146097
    /\ YearGuess(DayOfEra(c, q, t, doy)) = 100 * c + 4 * q + t

LEMMA CivilInSteps ==
    ASSUME NEW days
    PROVE  Civil(days) = DateInEra((days + 719468) \div 146097, (days + 719468) % 146097)
BY DEF Civil, DateInEra, DateInYear, YearGuess

(* The core's guess at the year of an era's day is right.                  *)
LEMMA YearOfEra ==
    ASSUME NEW c \in 0 .. 3, NEW q \in 0 .. 24, NEW t \in 0 .. 3, NEW doy \in Nat, doy <= 365,
           doy = 365 => t = 3 /\ (q = 24 => c = 3)
    PROVE  YearGuessed(c, q, t, doy)
<1> DEFINE e == 1461 * q + 365 * t + doy
           doe == 36524 * c + 1461 * q + 365 * t + doy
           last == c = 3 /\ q = 24 /\ t = 3 /\ doy = 365
           early == q + 24 * c + 365 * t + doy < 1460
           more == IF early THEN 0 ELSE 1
           century == doe \div 36524
           leap == doe \div 1460
           over == IF doe > 146095 THEN 1 ELSE 0
<1>1. /\ e \in Nat /\ e <= 36524
      /\ e = 36524 <=> q = 24 /\ t = 3 /\ doy = 365
  <2>0. e \in Int /\ e >= 0  OBVIOUS
  <2>1. q = 24 \/ q <= 23  OBVIOUS
  <2>2. t = 3 \/ t <= 2  OBVIOUS
  <2>3. CASE q <= 23
    <3>1. e <= 35063  BY <2>3
    <3> HIDE DEF e
    <3>2. QED  BY <2>3, <2>0, <3>1
  <2>4. CASE q = 24 /\ t <= 2
    <3>1. e <= 36158  BY <2>4
    <3> HIDE DEF e
    <3>2. QED  BY <2>0, <2>4, <3>1
  <2>5. CASE q = 24 /\ t = 3
    <3>1. e = 36159 + doy  BY <2>5
    <3> HIDE DEF e
    <3>2. QED  BY <2>0, <2>5, <3>1
  <2> HIDE DEF e
  <2>6. QED  BY <2>1, <2>2, <2>3, <2>4, <2>5
<1>2. doe = 36524 * c + e  OBVIOUS
<1>3. last => c = 3 /\ q = 24 /\ t = 3 /\ doy = 365  OBVIOUS
<1>4. e = 36524 => last
  <2>1. q = 24 => c = 3 \/ doy # 365  OBVIOUS
  <2> HIDE DEF e
  <2>2. QED  BY <1>1, <2>1
<1>5. last => e = 36524  BY <1>1
<1>6. doe = 1460 * (25 * c + q) + (q + 24 * c + 365 * t + doy)  OBVIOUS
<1> HIDE DEF e, doe, last
<1>7. doe \in Nat /\ doe <= 146096 /\ (doe > 146095 <=> last)
  BY <1>1, <1>2, <1>3, <1>4, <1>5
<1>8. doe \div 36524 = IF last THEN 4 ELSE c
  <2>1. CASE e = 36524
    <3>1. doe = 146096  BY <1>2, <1>3, <1>4, <2>1
    <3>2. 146096 \div 36524 = 4  OBVIOUS
    <3>3. QED  BY <1>4, <2>1, <3>1, <3>2
  <2>2. CASE e # 36524
    <3>1. e \in Nat /\ e <= 36523  BY <1>1, <2>2
    <3>2. (36524 * c + e) \div 36524 = c  BY <3>1
    <3>3. QED  BY <1>2, <1>5, <2>2, <3>2
  <2>3. QED  BY <2>1, <2>2
<1>9. century = IF last THEN 4 ELSE c  BY <1>8
<1>10. leap = 25 * c + q + more
  <2> DEFINE r == q + 24 * c + 365 * t + doy
             k == 25 * c + q
  <2>1. r \in Nat /\ r <= 2919 /\ k \in Nat /\ (early <=> r < 1460)  OBVIOUS
  <2>2. doe = 1460 * k + r  BY <1>6
  <2> HIDE DEF r, k
  <2>3. (1460 * k + r) \div 1460 = k + (IF r < 1460 THEN 0 ELSE 1)
    <3>1. CASE r < 1460  BY <2>1, <3>1
    <3>2. CASE ~(r < 1460)
      <4> DEFINE over1 == r - 1460
      <4>1. over1 \in Nat /\ over1 <= 1459 /\ 1460 * k + r = 1460 * (k + 1) + over1  BY <2>1, <3>2
      <4> HIDE DEF over1
      <4>2. (1460 * (k + 1) + over1) \div 1460 = k + 1  BY <2>1, <4>1
      <4>3. QED  BY <3>2, <4>1, <4>2
    <3>3. QED  BY <3>1, <3>2
  <2>4. QED  BY <2>1, <2>2, <2>3 DEF k
<1>11. over = IF last THEN 1 ELSE 0  BY <1>7
<1>12. doe + century - leap - over = 365 * (100 * c + 4 * q + t) + (doy - more)
  <2>1. century - over = c
    <3> HIDE DEF century, over
    <3>1. c \in 0 .. 3 /\ (last => c = 3)  BY <1>3
    <3>2. QED  BY <1>9, <1>11, <3>1
  <2>2. century \in Int /\ over \in Int /\ leap \in Int /\ more \in 0 .. 1 /\ doe \in Int
    BY <1>7, <1>9, <1>10, <1>11
  <2> HIDE DEF century, over, leap, more
  <2>3. QED  BY <1>6, <1>10, <2>1, <2>2
<1>13. doy - more \in Nat /\ doy - more <= 364
  <2>1. ~early => doy >= 1  OBVIOUS
  <2>2. doy = 365 => ~early  OBVIOUS
  <2> HIDE DEF early
  <2>3. QED  BY <2>1, <2>2
<1>14. (365 * (100 * c + 4 * q + t) + (doy - more)) \div 365 = 100 * c + 4 * q + t
  <2> DEFINE r == doy - more
             k == 100 * c + 4 * q + t
  <2>1. k \in Nat  OBVIOUS
  <2>2. r \in Nat /\ r <= 364  BY <1>13
  <2> HIDE DEF r, k
  <2>3. (365 * k + r) \div 365 = k  BY <2>1, <2>2
  <2>4. QED  BY <2>3 DEF r, k
<1>15. (doe + century - leap - over) \div 365 = 100 * c + 4 * q + t  BY <1>12, <1>14
<1>16. doe \in Nat /\ doe < 146097  BY <1>7
<1>17. QED  BY <1>15, <1>16 DEF doe, century, leap, over, YearGuess, DayOfEra, YearGuessed

(* The months of that calendar begin where 153 days to five months say.    *)
LEMMA MonthOfYear ==
    ASSUME NEW mp \in 0 .. 11, NEW day \in 1 .. 31,
           mp \in {1, 3, 6, 8} => day <= 30,
           mp = 11 => day <= 29
    PROVE  LET doy == (153 * mp + 2) \div 5 + day - 1
           IN  /\ doy \in Nat /\ doy <= 365
               /\ (5 * doy + 2) \div 153 = mp
               /\ doy < 306 <=> mp < 10
               /\ doy = 365 <=> mp = 11 /\ day = 29
               /\ doy - (153 * mp + 2) \div 5 + 1 = day
<1> DEFINE start == (153 * mp + 2) \div 5
           doy == start + day - 1
<1>1. start = IF mp = 0 THEN 0 ELSE IF mp = 1 THEN 31 ELSE IF mp = 2 THEN 61
              ELSE IF mp = 3 THEN 92 ELSE IF mp = 4 THEN 122 ELSE IF mp = 5 THEN 153
              ELSE IF mp = 6 THEN 184 ELSE IF mp = 7 THEN 214 ELSE IF mp = 8 THEN 245
              ELSE IF mp = 9 THEN 275 ELSE IF mp = 10 THEN 306 ELSE 337
  OBVIOUS
<1> HIDE DEF start
<1>2. start \in Nat  BY <1>1
<1>3. 153 * mp <= 5 * (start + day - 1) + 2 /\ 5 * (start + day - 1) + 2 < 153 * mp + 153
  BY <1>1
<1>4. (5 * doy + 2) \div 153 = mp
  <2> DEFINE k == 5 * (start + day - 1) + 2
  <2>1. k \in Int  BY <1>2
  <2>2. 153 * mp <= k /\ k < 153 * mp + 153  BY <1>3
  <2> HIDE DEF k
  <2>3. k \div 153 = mp  BY <2>1, <2>2
  <2>4. QED  BY <2>3 DEF k
<1>5. /\ doy \in Nat /\ doy <= 365
      /\ doy < 306 <=> mp < 10
      /\ doy = 365 <=> mp = 11 /\ day = 29
  <2>1. doy \in Nat /\ doy <= 365
    <3>1. doy \in Nat  BY <1>2
    <3>2. start <= 337 /\ (mp # 11 => start <= 306)  BY <1>1
    <3>3. QED  BY <1>2, <3>1, <3>2
  <2>2. doy < 306 <=> mp < 10  BY <1>1
  <2>3. doy = 365 <=> mp = 11 /\ day = 29  BY <1>1
  <2>4. QED  BY <2>1, <2>2, <2>3
<1>6. doy - start + 1 = day  BY <1>2
<1>7. QED  BY <1>4, <1>5, <1>6 DEF start

(* The core's arithmetic turns every day's number into its date.           *)
LEMMA CivilOfDay ==
    ASSUME NEW date \in CivilDates
    PROVE  Civil(DayNumber(date) - 719468) = date
<1> DEFINE y == MarchYear(date)
           mp == MarchMonth(date)
           doy == MarchDay(date)
<1>1. /\ date.year \in Nat \ {0} /\ date.month \in 1 .. 12 /\ date.day \in 1 .. 31
      /\ date.day <= DaysIn(date.year, date.month)
      /\ date = Date(date.year, date.month, date.day)
  BY DEF CivilDates, Date
<1>2. /\ y \in Nat /\ mp \in 0 .. 11
      /\ date.month = IF mp < 10 THEN mp + 3 ELSE mp - 9
      /\ date.year = y + (IF date.month < 3 THEN 1 ELSE 0)
      /\ mp \in {1, 3, 6, 8} => date.day <= 30
      /\ mp = 11 => date.day <= 29 /\ (date.day = 29 => LeapYear(y + 1))
  BY <1>1 DEF MarchYear, MarchMonth, DaysIn
<1>3. doy = (153 * mp + 2) \div 5 + date.day - 1  BY DEF MarchDay
<1>4. /\ doy \in Nat /\ doy <= 365
      /\ (5 * doy + 2) \div 153 = mp
      /\ doy < 306 <=> mp < 10
      /\ doy = 365 <=> mp = 11 /\ date.day = 29
      /\ doy - (153 * mp + 2) \div 5 + 1 = date.day
  <2> HIDE DEF mp, doy
  <2>1. QED  BY <1>1, <1>2, <1>3, MonthOfYear
<1>5. PICK era \in Nat, c \in 0 .. 3, q \in 0 .. 24, t \in 0 .. 3 :
              /\ y = 400 * era + 100 * c + 4 * q + t
              /\ y \div 4 = 100 * era + 25 * c + q
              /\ y \div 100 = 4 * era + c
              /\ y \div 400 = era
              /\ (100 * c + 4 * q + t) \div 4 = 25 * c + q
              /\ (100 * c + 4 * q + t) \div 100 = c
              /\ LeapYear(y + 1) <=> t = 3 /\ (q = 24 => c = 3)
  BY <1>2, YearParts
<1> DEFINE doe == DayOfEra(c, q, t, doy)
           yoe == 100 * c + 4 * q + t
           z == DayNumber(date)
<1>6. z = 365 * y + y \div 4 - y \div 100 + y \div 400 + doy  BY DEF DayNumber
<1> HIDE DEF y, mp, doy
<1>7. z = 146097 * era + doe
  <2>1. 365 * y = 146000 * era + 36500 * c + 1460 * q + 365 * t  BY <1>5
  <2>2. QED  BY <1>4, <1>5, <1>6, <2>1 DEF DayOfEra
<1>8. doy = 365 => t = 3 /\ (q = 24 => c = 3)  BY <1>2, <1>4, <1>5
<1>9. doe \in Nat /\ doe < 146097 /\ YearGuess(doe) = yoe
  <2>1. doy \in Nat /\ doy <= 365  BY <1>4
  <2>2. YearGuessed(c, q, t, doy)  BY <1>8, <2>1, YearOfEra, Zenon
  <2>3. QED  BY <2>2 DEF YearGuessed
<1>10. doe - (365 * yoe + yoe \div 4 - yoe \div 100) = doy  BY <1>4, <1>5 DEF DayOfEra
<1>11. yoe + 400 * era = y  BY <1>5
<1> HIDE DEF doe, yoe, z
<1>12. z \div 146097 = era /\ z % 146097 = doe
  <2>1. (146097 * era + doe) \div 146097 = era /\ (146097 * era + doe) % 146097 = doe  BY <1>9
  <2>2. QED  BY <1>7, <2>1
<1>13. (z - 719468) + 719468 = z
  <2>1. z \in Int  BY <1>7, <1>9
  <2>2. QED  BY <2>1
<1>14. Civil(z - 719468) = DateInEra(era, doe)  BY <1>12, <1>13, CivilInSteps
<1>15. DateInEra(era, doe) = DateInYear(era, yoe, doy)  BY <1>9, <1>10 DEF DateInEra
<1>16. (IF doy < 306 THEN mp + 3 ELSE mp - 9) = date.month  BY <1>2, <1>4
<1>17. DateInYear(era, yoe, doy)
         = [ year  |-> y + (IF date.month < 3 THEN 1 ELSE 0), month |-> date.month,
             day |-> date.day ]
  BY <1>4, <1>11, <1>16 DEF DateInYear
<1>18. QED  BY <1>1, <1>2, <1>14, <1>15, <1>17 DEF z, Date

(* Leap days up to a year.                                                 *)
Leaps(y) == y \div 4 - y \div 100 + y \div 400

LEMMA LeapsGrow ==
    ASSUME NEW y \in Nat
    PROVE  /\ Leaps(y) \in Int
           /\ Leaps(y + 1) = Leaps(y) + (IF LeapYear(y + 1) THEN 1 ELSE 0)
<1> DEFINE x == y + 1
<1>1. x \in Nat /\ x >= 1 /\ y = x - 1  OBVIOUS
<1>2. x \div 4 = y \div 4 + (IF x % 4 = 0 THEN 1 ELSE 0)  OBVIOUS
<1>3. x \div 100 = y \div 100 + (IF x % 100 = 0 THEN 1 ELSE 0)  OBVIOUS
<1>4. x \div 400 = y \div 400 + (IF x % 400 = 0 THEN 1 ELSE 0)  OBVIOUS
<1>5. y \div 4 \in Int /\ y \div 100 \in Int /\ y \div 400 \in Int  OBVIOUS
<1>6. (x % 100 = 0 => x % 4 = 0) /\ (x % 400 = 0 => x % 100 = 0)  OBVIOUS
<1> DEFINE a4 == y \div 4
           a100 == y \div 100
           a400 == y \div 400
<1>7. /\ Leaps(y) = a4 - a100 + a400
      /\ Leaps(x) = (a4 + (IF x % 4 = 0 THEN 1 ELSE 0)) - (a100 + (IF x % 100 = 0 THEN 1 ELSE 0))
                      + (a400 + (IF x % 400 = 0 THEN 1 ELSE 0))
  BY <1>2, <1>3, <1>4 DEF Leaps
<1>8. LeapYear(x) <=> x % 4 = 0 /\ (x % 100 # 0 \/ x % 400 = 0)  BY DEF LeapYear
<1>9. a4 \in Int /\ a100 \in Int /\ a400 \in Int  BY <1>5
<1> HIDE DEF x, a4, a100, a400
<1>10. Leaps(x) = Leaps(y) + (IF LeapYear(x) THEN 1 ELSE 0)  BY <1>6, <1>7, <1>8, <1>9
<1>11. Leaps(y) \in Int  BY <1>7, <1>9
<1>12. QED  BY <1>10, <1>11 DEF x

LEMMA NumberOfDate ==
    ASSUME NEW year \in Int, NEW month \in Int, NEW day \in Int
    PROVE  DayNumber(Date(year, month, day))
             = IF month < 3
               THEN 365 * (year - 1) + Leaps(year - 1) + ((153 * (month + 9) + 2) \div 5 + day - 1)
               ELSE 365 * year + Leaps(year) + ((153 * (month - 3) + 2) \div 5 + day - 1)
<1> DEFINE x == Date(year, month, day)
           my == IF month < 3 THEN year - 1 ELSE year
           mm == IF month < 3 THEN month + 9 ELSE month - 3
<1>1. x.year = year /\ x.month = month /\ x.day = day  BY DEF Date
<1>2. MarchYear(x) = my /\ MarchMonth(x) = mm  BY <1>1 DEF MarchYear, MarchMonth
<1>3. my \in Int /\ mm \in Int /\ (153 * mm + 2) \div 5 \in Int
      /\ my \div 4 \in Int /\ my \div 100 \in Int /\ my \div 400 \in Int
  OBVIOUS
<1> HIDE DEF x, my, mm
<1>4. DayNumber(x) = 365 * my + Leaps(my) + ((153 * mm + 2) \div 5 + day - 1)
  BY <1>1, <1>2, <1>3 DEF DayNumber, MarchDay, Leaps
<1>5. QED  BY <1>4 DEF x, my, mm

(* The rules of the calendar and the numbers agree, day by day.            *)
LEMMA DayAfterDay ==
    ASSUME NEW date \in CivilDates
    PROVE  NextDay(date) \in CivilDates /\ DayNumber(NextDay(date)) = DayNumber(date) + 1
<1> DEFINE y == date.year
           m == date.month
           k == date.day
<1>1. /\ y \in Nat /\ y >= 1 /\ m \in 1 .. 12 /\ k \in 1 .. 31 /\ k <= DaysIn(y, m)
  BY DEF CivilDates
<1>2. \A year \in Nat \ {0}, month \in 1 .. 12, day \in 1 .. 31 :
        day <= DaysIn(year, month) => Date(year, month, day) \in CivilDates
  BY DEF CivilDates, Date
<1>3. \A year, month, day \in Int :
        DayNumber(Date(year, month, day))
          = IF month < 3
            THEN 365 * (year - 1) + Leaps(year - 1) + ((153 * (month + 9) + 2) \div 5 + day - 1)
            ELSE 365 * year + Leaps(year) + ((153 * (month - 3) + 2) \div 5 + day - 1)
  BY NumberOfDate
<1>4. date = Date(y, m, k)  BY DEF CivilDates, Date
<1>5. DaysIn(y, m) \in 28 .. 31  BY DEF DaysIn
<1>6. /\ Leaps(y) \in Int /\ Leaps(y - 1) \in Int
      /\ Leaps(y) = Leaps(y - 1) + (IF LeapYear(y) THEN 1 ELSE 0)
  <2>1. y - 1 \in Nat /\ (y - 1) + 1 = y  BY <1>1
  <2>2. QED  BY <1>1, <2>1, LeapsGrow
<1> HIDE DEF y, m, k
<1>7. CASE k < DaysIn(y, m)
  <2>1. NextDay(date) = Date(y, m, k + 1)  BY <1>7 DEF NextDay, y, m, k
  <2>2. k + 1 \in 1 .. 31  BY <1>1, <1>5, <1>7
  <2>3. Date(y, m, k + 1) \in CivilDates
    <3>1. k + 1 <= DaysIn(y, m)  BY <1>1, <1>5, <1>7
    <3>2. QED  BY <1>1, <2>2, <3>1 DEF CivilDates, Date
  <2>4. DayNumber(Date(y, m, k + 1)) = DayNumber(Date(y, m, k)) + 1
    <3> DEFINE k1 == k + 1
               early == (153 * (m + 9) + 2) \div 5
               late == (153 * (m - 3) + 2) \div 5
    <3>1. k \in Int /\ k1 \in Int /\ k1 = k + 1 /\ m \in Int /\ y \in Int  BY <1>1
    <3>2. early \in Int /\ late \in Int  BY <3>1
    <3> HIDE DEF k1
    <3>3. CASE m < 3
      <4>1. DayNumber(Date(y, m, k)) = 365 * (y - 1) + Leaps(y - 1) + (early + k - 1)
        BY <3>1, <3>3, NumberOfDate
      <4>2. DayNumber(Date(y, m, k1)) = 365 * (y - 1) + Leaps(y - 1) + (early + k1 - 1)
        BY <3>1, <3>3, NumberOfDate
      <4> HIDE DEF early, late
      <4>3. QED  BY <1>6, <3>1, <3>2, <4>1, <4>2
    <3>4. CASE ~(m < 3)
      <4>1. DayNumber(Date(y, m, k)) = 365 * y + Leaps(y) + (late + k - 1)
        BY <3>1, <3>4, NumberOfDate
      <4>2. DayNumber(Date(y, m, k1)) = 365 * y + Leaps(y) + (late + k1 - 1)
        BY <3>1, <3>4, NumberOfDate
      <4> HIDE DEF early, late
      <4>3. QED  BY <1>6, <3>1, <3>2, <4>1, <4>2
    <3>5. QED  BY <3>3, <3>4
  <2>5. QED  BY <1>4, <2>1, <2>3, <2>4
<1>8. CASE k = DaysIn(y, m) /\ m < 12
  <2>1. NextDay(date) = Date(y, m + 1, 1)  BY <1>5, <1>8 DEF NextDay, y, m, k
  <2>2. Date(y, m + 1, 1) \in CivilDates
    <3>1. m + 1 \in 1 .. 12 /\ 1 \in 1 .. 31  BY <1>1, <1>8
    <3>2. 1 <= DaysIn(y, m + 1)  BY DEF DaysIn
    <3>3. QED  BY <1>1, <1>2, <3>1, <3>2
  <2>3. DayNumber(Date(y, m + 1, 1)) = DayNumber(Date(y, m, k)) + 1
    <3>1. CASE m = 2
      <4>1. DayNumber(Date(y, 3, 1)) = 365 * y + Leaps(y) + 0
        <5>1. DayNumber(Date(y, 3, 1)) = 365 * y + Leaps(y) + ((153 * (3 - 3) + 2) \div 5 + 1 - 1)
          BY <1>1, NumberOfDate
        <5>2. QED  BY <1>1, <1>6, <5>1
      <4>2. DayNumber(Date(y, 2, k)) = 365 * (y - 1) + Leaps(y - 1) + (337 + k - 1)  BY <1>1, <1>3
      <4>3. k = 28 + (IF LeapYear(y) THEN 1 ELSE 0)  BY <1>8, <3>1 DEF DaysIn
      <4>4. QED  BY <1>1, <1>6, <3>1, <4>1, <4>2, <4>3
    <3>2. CASE m = 1
      <4>1. k = 31  BY <1>8, <3>2 DEF DaysIn
      <4>2. DayNumber(Date(y, 2, 1))
              = 365 * (y - 1) + Leaps(y - 1) + ((153 * (2 + 9) + 2) \div 5 + 1 - 1)
        BY <1>1, NumberOfDate
      <4>3. DayNumber(Date(y, 1, 31))
              = 365 * (y - 1) + Leaps(y - 1) + ((153 * (1 + 9) + 2) \div 5 + 31 - 1)
        BY <1>1, NumberOfDate
      <4>4. QED  BY <1>1, <1>6, <3>2, <4>1, <4>2, <4>3
    <3>3. CASE m > 2
      <4>1. k = IF m \in {4, 6, 9, 11} THEN 30 ELSE 31  BY <1>1, <1>8, <3>3 DEF DaysIn
      <4>2. /\ DayNumber(Date(y, m + 1, 1)) = 365 * y + Leaps(y) + ((153 * (m - 2) + 2) \div 5 + 0)
            /\ DayNumber(Date(y, m, k)) = 365 * y + Leaps(y) + ((153 * (m - 3) + 2) \div 5 + k - 1)
        BY <1>1, <1>3, <3>3
      <4>3. (153 * (m - 2) + 2) \div 5 = (153 * (m - 3) + 2) \div 5 + k
        BY <1>1, <1>8, <3>3, <4>1
      <4>4. (153 * (m - 3) + 2) \div 5 \in Int  BY <1>1
      <4>5. QED  BY <1>1, <1>6, <4>2, <4>3, <4>4
    <3>4. QED  BY <1>1, <3>1, <3>2, <3>3
  <2>4. QED  BY <1>4, <2>1, <2>2, <2>3
<1>9. CASE k = DaysIn(y, m) /\ m = 12
  <2>1. NextDay(date) = Date(y + 1, 1, 1)  BY <1>5, <1>9 DEF NextDay, y, m, k
  <2>2. Date(y + 1, 1, 1) \in CivilDates
    <3>1. 1 <= DaysIn(y + 1, 1)  BY DEF DaysIn
    <3>2. QED  BY <1>1, <1>2, <3>1
  <2>3. k = 31  BY <1>9 DEF DaysIn
  <2>4. DayNumber(Date(y + 1, 1, 1)) = 365 * y + Leaps(y) + 306  BY <1>1, <1>3
  <2>5. DayNumber(Date(y, 12, 31)) = 365 * y + Leaps(y) + 305  BY <1>1, <1>3
  <2>6. QED  BY <1>1, <1>4, <1>6, <1>9, <2>1, <2>2, <2>3, <2>4, <2>5
<1>10. QED  BY <1>1, <1>5, <1>7, <1>8, <1>9

(* The leap years from one year on, so many of them.                       *)
LeapYears(start, k) == { z \in start .. start + k - 1 : LeapYear(z) }

LEMMA LeapsCounted ==
    ASSUME NEW start \in Nat \ {0}, NEW k \in Nat
    PROVE  /\ IsFiniteSet(LeapYears(start, k))
           /\ Cardinality(LeapYears(start, k)) = Leaps(start + k - 1) - Leaps(start - 1)
<1> DEFINE Counted(j) == /\ IsFiniteSet(LeapYears(start, j))
                         /\ Cardinality(LeapYears(start, j)) = Leaps(start + j - 1) - Leaps(start - 1)
           S == { j \in Nat : Counted(j) }
<1>1. 0 \in S
  <2>1. LeapYears(start, 0) = {}  BY DEF LeapYears
  <2>2. start + 0 - 1 = start - 1 /\ start - 1 \in Nat  OBVIOUS
  <2>3. Leaps(start - 1) \in Int  BY <2>2, LeapsGrow
  <2>4. QED  BY <2>1, <2>2, <2>3, FS_EmptySet
<1>2. ASSUME NEW j \in S PROVE j + 1 \in S
  <2> DEFINE y == start + j - 1
  <2>1. j \in Nat /\ j + 1 \in Nat /\ Counted(j)  BY <1>2
  <2>2. y \in Nat /\ start + (j + 1) - 1 = y + 1 /\ y + 1 = start + j  BY <2>1
  <2>3. /\ Leaps(y) \in Int /\ Leaps(y + 1) = Leaps(y) + (IF LeapYear(y + 1) THEN 1 ELSE 0)
        /\ Leaps(start - 1) \in Int
    <3>1. start - 1 \in Nat  OBVIOUS
    <3>2. QED  BY <2>2, <3>1, LeapsGrow
  <2>4. /\ start .. start + (j + 1) - 1 = (start .. start + j - 1) \cup {y + 1}
        /\ y + 1 \notin start .. start + j - 1
    BY <2>1
  <2>5. /\ IsFiniteSet(LeapYears(start, j))
        /\ Cardinality(LeapYears(start, j)) = Leaps(y) - Leaps(start - 1)
    BY <2>1
  <2> HIDE DEF y, Counted
  <2>6. CASE LeapYear(y + 1)
    <3>1. LeapYears(start, j + 1) = LeapYears(start, j) \cup {y + 1} /\ y + 1 \notin LeapYears(start, j)
      BY <2>4, <2>6, Zenon DEF LeapYears
    <3>2. /\ IsFiniteSet(LeapYears(start, j + 1))
          /\ Cardinality(LeapYears(start, j + 1)) = Cardinality(LeapYears(start, j)) + 1
      BY <2>5, <3>1, FS_AddElement
    <3>3. Cardinality(LeapYears(start, j + 1)) = Leaps(y + 1) - Leaps(start - 1)
      BY <2>3, <2>5, <2>6, <3>2
    <3>4. Counted(j + 1)  BY <2>2, <3>2, <3>3 DEF Counted
    <3>5. QED  BY <2>1, <3>4
  <2>7. CASE ~LeapYear(y + 1)
    <3>1. LeapYears(start, j + 1) = LeapYears(start, j)
      BY <2>4, <2>7, Zenon DEF LeapYears
    <3>2. Leaps(y + 1) = Leaps(y)  BY <2>3, <2>7
    <3>3. Counted(j + 1)  BY <2>2, <2>5, <3>1, <3>2 DEF Counted
    <3>4. QED  BY <2>1, <3>3
  <2>8. QED  BY <2>6, <2>7
<1> HIDE DEF Counted
<1>3. S = Nat
  <2> HIDE DEF S
  <2>1. S \subseteq Nat  BY DEF S
  <2>2. \A j \in S : j + 1 \in S  BY <1>2
  <2>3. QED  BY <1>1, <2>1, <2>2, NatInd
<1>4. Counted(k)  BY <1>3
<1>5. QED  BY <1>4 DEF Counted

(* Serials of days, by epoch; the 1900 system's phantom comes after the    *)
(* day before the first of March 1900.                                     *)
SerialOf(epoch, number) ==
    IF epoch = 2 THEN number - 695361
    ELSE IF number < 693960 THEN number - 693900
    ELSE number - 693899

LEMMA FirstDays ==
    ASSUME NEW epoch \in 1 .. 2, NEW y \in Int, 1900 <= y, epoch = 2 => 1904 <= y
    PROVE  FirstDay(epoch, y) = SerialOf(epoch, DayNumber(Date(y, 1, 1)))
<1> DEFINE start == IF epoch = 1 THEN 1900 ELSE 1904
           k == y - start
           between == { z \in start .. y - 1 : LeapYear(z) }
           leaps == Cardinality(between)
<1>1. start \in Nat \ {0} /\ k \in Nat /\ start + k - 1 = y - 1 /\ y - 1 \in Nat  OBVIOUS
<1>2. leaps = Leaps(y - 1) - Leaps(start - 1)
  <2>1. leaps = Cardinality(LeapYears(start, k))
    <3>1. between = LeapYears(start, k)  BY <1>1 DEF LeapYears
    <3> HIDE DEF between
    <3>2. QED  BY <3>1
  <2>2. Cardinality(LeapYears(start, k)) = Leaps(start + k - 1) - Leaps(start - 1)
    <3> HIDE DEF start, k
    <3>1. QED  BY <1>1, LeapsCounted
  <2> HIDE DEF start, k, leaps
  <2>3. QED  BY <1>1, <2>1, <2>2
<1>3. Leaps(start - 1) = 460
  <2>1. 1899 \div 4 = 474 /\ 1899 \div 100 = 18 /\ 1899 \div 400 = 4  OBVIOUS
  <2>2. 1903 \div 4 = 475 /\ 1903 \div 100 = 19 /\ 1903 \div 400 = 4  OBVIOUS
  <2>3. Leaps(1899) = 460 /\ Leaps(1903) = 460  BY <2>1, <2>2 DEF Leaps
  <2>4. start - 1 = IF epoch = 1 THEN 1899 ELSE 1903  OBVIOUS
  <2>5. QED  BY <2>3, <2>4
<1>4. DayNumber(Date(y, 1, 1)) = 365 * (y - 1) + Leaps(y - 1) + 306
  BY <1>1, NumberOfDate
<1>5. FirstDay(epoch, y) = 365 * (y - start) + leaps + (IF epoch # 1 THEN 0 ELSE IF y = 1900 THEN 1 ELSE 2)
  BY DEF FirstDay
<1>6. Leaps(y - 1) \in Int  BY <1>1, LeapsGrow
<1>7. epoch = 1 /\ y = 1900 => Leaps(y - 1) = 460
  BY <1>3
<1>8. Leaps(y - 1) >= 0  BY <1>1 DEF Leaps
<1>9. epoch = 1 /\ y = 1901 => Leaps(y - 1) = 460
  <2>1. 1900 \div 4 = 475 /\ 1900 \div 100 = 19 /\ 1900 \div 400 = 4  OBVIOUS
  <2>2. QED  BY <2>1 DEF Leaps
<1> HIDE DEF leaps
<1>10. QED  BY <1>2, <1>3, <1>4, <1>5, <1>6, <1>7, <1>8, <1>9 DEF SerialOf

(* Where the days of the serials' years lie.                               *)
LEMMA NumberRange ==
    ASSUME NEW date \in CivilDates, date.year >= 1900, date.year <= 9999
    PROVE  /\ DayNumber(date) \in Int
           /\ 693901 <= DayNumber(date) /\ DayNumber(date) <= 3652364
           /\ date.year >= 1904 => 695361 <= DayNumber(date)
<1> DEFINE y == MarchYear(date)
           mp == MarchMonth(date)
           doy == MarchDay(date)
           leaps == y \div 4 - y \div 100 + y \div 400
<1>1. /\ date.year \in Int /\ date.month \in 1 .. 12 /\ date.day \in 1 .. 31
      /\ date.day <= DaysIn(date.year, date.month)
  BY DEF CivilDates
<1>2. /\ y \in Int /\ mp \in 0 .. 11
      /\ mp >= 10 <=> date.month < 3
      /\ y = IF mp >= 10 THEN date.year - 1 ELSE date.year
      /\ mp \in {1, 3, 6, 8} => date.day <= 30
      /\ mp = 11 => date.day <= 29
  BY <1>1 DEF MarchYear, MarchMonth, DaysIn
<1>3. doy = (153 * mp + 2) \div 5 + date.day - 1  BY DEF MarchDay
<1>4. DayNumber(date) = 365 * y + leaps + doy
  <2>1. DayNumber(date) = 365 * y + y \div 4 - y \div 100 + y \div 400 + doy  BY DEF DayNumber
  <2>2. y \in Int /\ doy \in Int  BY <1>1, <1>2, <1>3
  <2> HIDE DEF y, mp, doy
  <2>3. QED  BY <2>1, <2>2
<1> HIDE DEF y, mp, doy
<1>5. doy \in Nat /\ doy <= 365 /\ (doy < 306 <=> mp < 10)
  BY <1>1, <1>2, <1>3, MonthOfYear
<1>6. y \in Int /\ 1899 <= y /\ y <= 9999 /\ (date.year >= 1904 => 1903 <= y)  BY <1>1, <1>2
<1>7. leaps \in Int /\ 0 <= leaps /\ leaps <= y \div 4 /\ y \div 4 <= 2499  BY <1>2, <1>6
<1>8. /\ y \in {1899, 1900, 1901, 1903} => leaps = 460
      /\ y = 1904 => leaps = 461
      /\ y = 1905 => leaps = 461
      /\ y = 9999 => leaps = 2424
  OBVIOUS
<1>9. y = 1899 => doy >= 306  BY <1>1, <1>2, <1>5
<1>10. y = 1903 /\ date.year >= 1904 => doy >= 306  BY <1>1, <1>2, <1>5
<1>11. y = 9999 => doy <= 305  BY <1>1, <1>2, <1>5
<1>12. y \div 4 \in Int  BY <1>2
<1> DEFINE quarters == y \div 4
<1>13. quarters \in Int /\ leaps <= quarters /\ quarters <= 2499  BY <1>7, <1>12
<1> HIDE DEF leaps, quarters
<1>14. leaps <= 2499  BY <1>7, <1>13
<1>15. DayNumber(date) \in Int  BY <1>2, <1>4, <1>5, <1>7
<1>16. 693901 <= DayNumber(date)
  <2>1. y = 1899 \/ y = 1900 \/ y = 1901 \/ y >= 1902  BY <1>6
  <2>2. QED  BY <1>2, <1>4, <1>5, <1>7, <1>8, <1>9, <2>1
<1>17. DayNumber(date) <= 3652364
  <2>1. y = 9999 \/ y <= 9998  BY <1>6
  <2>2. QED  BY <1>2, <1>4, <1>5, <1>7, <1>8, <1>11, <1>14, <2>1
<1>18. date.year >= 1904 => 695361 <= DayNumber(date)
  <2>1. y >= 1903 => y = 1903 \/ y = 1904 \/ y = 1905 \/ y >= 1906  BY <1>6
  <2>2. QED  BY <1>2, <1>4, <1>5, <1>6, <1>7, <1>8, <1>10, <2>1
<1>19. QED  BY <1>15, <1>16, <1>17, <1>18

(* What a cell may hold: a day of its epoch's years, or the day after the  *)
(* last of them, and the phantom.                                          *)
Beyond == Date(10000, 1, 1)

DayOfEpoch(epoch, date) ==
    /\ date \in CivilDates
    /\ date.year >= 1900 /\ (epoch = 2 => date.year >= 1904)
    /\ date.year <= 9999

Cell(epoch, serial, date) ==
    \/ epoch = 1 /\ serial = 60 /\ date = PhantomDay
    \/ DayOfEpoch(epoch, date) /\ serial = SerialOf(epoch, DayNumber(date))
    \/ date = Beyond /\ serial = SerialOf(epoch, 3652365)

(* A date is its number's only one.                                        *)
LEMMA NumbersTell ==
    ASSUME NEW x \in CivilDates, NEW y \in CivilDates, DayNumber(x) = DayNumber(y)
    PROVE  x = y
<1>1. Civil(DayNumber(x) - 719468) = x  BY CivilOfDay
<1>2. Civil(DayNumber(y) - 719468) = y  BY CivilOfDay
<1>3. QED  BY <1>1, <1>2

LEMMA Ends ==
    /\ Date(1900, 2, 28) \in CivilDates /\ DayNumber(Date(1900, 2, 28)) = 693959
    /\ Date(1900, 3, 1) \in CivilDates /\ DayNumber(Date(1900, 3, 1)) = 693960
    /\ Date(9999, 12, 31) \in CivilDates /\ DayNumber(Date(9999, 12, 31)) = 3652364
    /\ PhantomDay \notin CivilDates
    /\ PhantomDay.year = 1900 /\ Beyond.year = 10000
<1>1. DaysIn(1900, 2) = 28
  <2>1. 1900 % 100 = 0 /\ 1900 % 400 # 0  OBVIOUS
  <2>2. ~LeapYear(1900)  BY <2>1 DEF LeapYear
  <2>3. QED  BY <2>2 DEF DaysIn
<1>2. DaysIn(1900, 3) = 31 /\ DaysIn(9999, 12) = 31  BY DEF DaysIn
<1>3. /\ Date(1900, 2, 28) \in CivilDates
      /\ Date(1900, 3, 1) \in CivilDates
      /\ Date(9999, 12, 31) \in CivilDates
  BY <1>1, <1>2 DEF CivilDates, Date
<1>4. PhantomDay \notin CivilDates
  <2>1. PhantomDay.year = 1900 /\ PhantomDay.month = 2 /\ PhantomDay.day = 29
    BY DEF PhantomDay, Date
  <2>2. QED  BY <1>1, <2>1 DEF CivilDates
<1>5. PhantomDay.year = 1900 /\ Beyond.year = 10000  BY DEF PhantomDay, Beyond, Date
<1>6. Leaps(1899) = 460 /\ Leaps(1900) = 460 /\ Leaps(9999) = 2424
  <2>1. 1899 \div 4 = 474 /\ 1899 \div 100 = 18 /\ 1899 \div 400 = 4  OBVIOUS
  <2>2. 1900 \div 4 = 475 /\ 1900 \div 100 = 19 /\ 1900 \div 400 = 4  OBVIOUS
  <2>3. 9999 \div 4 = 2499 /\ 9999 \div 100 = 99 /\ 9999 \div 400 = 24  OBVIOUS
  <2>4. QED  BY <2>1, <2>2, <2>3 DEF Leaps
<1>7. /\ DayNumber(Date(1900, 2, 28)) = 365 * 1899 + Leaps(1899) + ((153 * 11 + 2) \div 5 + 27)
      /\ DayNumber(Date(1900, 3, 1)) = 365 * 1900 + Leaps(1900) + ((153 * 0 + 2) \div 5 + 0)
      /\ DayNumber(Date(9999, 12, 31)) = 365 * 9999 + Leaps(9999) + ((153 * 9 + 2) \div 5 + 30)
  <2>1. DayNumber(Date(1900, 2, 28))
          = 365 * (1900 - 1) + Leaps(1900 - 1) + ((153 * (2 + 9) + 2) \div 5 + 28 - 1)
    BY NumberOfDate
  <2>2. DayNumber(Date(1900, 3, 1)) = 365 * 1900 + Leaps(1900) + ((153 * (3 - 3) + 2) \div 5 + 1 - 1)
    BY NumberOfDate
  <2>3. DayNumber(Date(9999, 12, 31)) = 365 * 9999 + Leaps(9999) + ((153 * (12 - 3) + 2) \div 5 + 31 - 1)
    BY NumberOfDate
  <2>4. 1900 - 1 = 1899  OBVIOUS
  <2>5. QED  BY <1>6, <2>1, <2>2, <2>3, <2>4
<1>8. QED  BY <1>3, <1>4, <1>5, <1>6, <1>7

(* The workbook's serials as CivilOfSerial reads them.                     *)
LEMMA RealSerials ==
    ASSUME NEW serial, NEW epoch
    PROVE  Real!CivilOfSerial(serial, epoch)
             = IF epoch = 1
               THEN IF serial = 60 \/ serial \notin 1 .. RealLast1900 THEN OutOfRange
                    ELSE Civil(serial + (IF serial < 60 THEN 1 ELSE 0) - 25569)
               ELSE IF serial > RealLast1904 THEN OutOfRange ELSE Civil(serial - 24107)
<1>1. \A days : Real!Civil(days) = Civil(days)  BY DEF Real!Civil, Civil
<1>2. Real!OutOfRange = OutOfRange  BY DEF Real!OutOfRange, Real!Refused, OutOfRange, Refused
<1>3. Real!CivilOfSerial(serial, epoch)
        = IF epoch = 1
          THEN IF serial = 60 \/ serial \notin 1 .. RealLast1900 THEN Real!OutOfRange
               ELSE Real!Civil(serial + (IF serial < 60 THEN 1 ELSE 0) - 25569)
          ELSE IF serial > RealLast1904 THEN Real!OutOfRange ELSE Real!Civil(serial - 24107)
  BY DEF Real!CivilOfSerial
<1> DEFINE a == serial + (IF serial < 60 THEN 1 ELSE 0) - 25569
           b == serial - 24107
<1>4. Real!Civil(a) = Civil(a) /\ Real!Civil(b) = Civil(b)
  <2> HIDE DEF a, b
  <2>1. QED  BY <1>1
<1>5. QED  BY <1>2, <1>3, <1>4

LEMMA RealReadsDays ==
    ASSUME NEW epoch \in 1 .. 2, NEW date, DayOfEpoch(epoch, date)
    PROVE  Real!CivilOfSerial(SerialOf(epoch, DayNumber(date)), epoch) = date
<1> DEFINE number == DayNumber(date)
           serial == SerialOf(epoch, number)
<1>1. date \in CivilDates /\ date.year >= 1900 /\ date.year <= 9999
      /\ (epoch = 2 => date.year >= 1904)
  BY DEF DayOfEpoch
<1>2. /\ number \in Int /\ 693901 <= number /\ number <= 3652364
      /\ date.year >= 1904 => 695361 <= number
  BY <1>1, NumberRange
<1>3. Civil(number - 719468) = date  BY <1>1, CivilOfDay
<1> HIDE DEF number
<1>4. CASE epoch = 1 /\ number < 693960
  <2>1. serial = number - 693900  BY <1>4 DEF SerialOf
  <2>2. serial \in Int /\ 1 <= serial /\ serial < 60 /\ serial + 1 - 25569 = number - 719468
    BY <1>2, <1>4, <2>1
  <2> HIDE DEF serial
  <2>3. serial \in 1 .. RealLast1900 /\ serial # 60
    <3>1. serial <= RealLast1900 /\ RealLast1900 \in Int  BY <2>2 DEF RealLast1900
    <3>2. QED  BY <2>2, <3>1
  <2>4. Real!CivilOfSerial(serial, epoch) = Civil(serial + 1 - 25569)
    BY <1>4, <2>2, <2>3, RealSerials
  <2>5. QED  BY <1>3, <2>2, <2>4 DEF serial, number
<1>5. CASE epoch = 1 /\ ~(number < 693960)
  <2>1. serial = number - 693899  BY <1>5 DEF SerialOf
  <2>2. /\ serial \in Int /\ 61 <= serial /\ serial <= 2958465
        /\ serial + 0 - 25569 = number - 719468
    BY <1>2, <1>5, <2>1
  <2> HIDE DEF serial
  <2>3. serial \in 1 .. RealLast1900 /\ serial # 60
    <3>1. serial <= RealLast1900 /\ RealLast1900 \in Int  BY <2>2 DEF RealLast1900
    <3>2. QED  BY <2>2, <3>1
  <2>4. ~(serial < 60)  BY <2>2
  <2>5. Real!CivilOfSerial(serial, epoch) = Civil(serial + 0 - 25569)
    BY <1>5, <2>3, <2>4, RealSerials
  <2>6. QED  BY <1>3, <2>2, <2>5 DEF serial, number
<1>6. CASE epoch = 2
  <2>1. serial = number - 695361  BY <1>6 DEF SerialOf
  <2>2. /\ serial \in Int /\ serial <= 2957003 /\ serial - 24107 = number - 719468
    BY <1>2, <1>6, <2>1
  <2> HIDE DEF serial
  <2>3. ~(serial > RealLast1904) /\ epoch # 1  BY <1>6, <2>2 DEF RealLast1904
  <2>4. Real!CivilOfSerial(serial, epoch) = Civil(serial - 24107)
    BY <2>3, RealSerials
  <2>5. QED  BY <1>3, <2>2, <2>4 DEF serial, number
<1>7. QED  BY <1>4, <1>5, <1>6

LEMMA RealReadsBeyond ==
    ASSUME NEW epoch \in 1 .. 2
    PROVE  Real!CivilOfSerial(SerialOf(epoch, 3652365), epoch) = OutOfRange
<1> DEFINE serial == SerialOf(epoch, 3652365)
<1>1. CASE epoch = 1
  <2>1. serial = 2958466  BY <1>1 DEF SerialOf
  <2>2. serial \notin 1 .. RealLast1900
    <3>1. serial = RealLast1900 + 1 /\ RealLast1900 \in Int  BY <2>1 DEF RealLast1900
    <3> HIDE DEF serial
    <3>2. QED  BY <3>1
  <2> HIDE DEF serial
  <2>3. Real!CivilOfSerial(serial, epoch) = OutOfRange  BY <1>1, <2>2, RealSerials
  <2>4. QED  BY <2>3 DEF serial
<1>2. CASE epoch = 2
  <2>1. serial = 2957004 /\ epoch # 1  BY <1>2 DEF SerialOf
  <2>2. serial > RealLast1904  BY <2>1 DEF RealLast1904
  <2> HIDE DEF serial
  <2>3. Real!CivilOfSerial(serial, epoch) = OutOfRange  BY <2>1, <2>2, RealSerials
  <2>4. QED  BY <2>3 DEF serial
<1>3. QED  BY <1>1, <1>2

(* The next row of the sheet holds the next day's serial.                  *)
LEMMA RowAfterRow ==
    ASSUME NEW epoch \in 1 .. 2, NEW serial, NEW date, Cell(epoch, serial, date), date.year # 10000
    PROVE  Cell(epoch, serial + 1, NextRow(epoch, date))
<1>1. CASE epoch = 1 /\ serial = 60 /\ date = PhantomDay
  <2>1. date # Date(1900, 2, 28)  BY <1>1, Ends
  <2>2. NextRow(epoch, date) = Date(1900, 3, 1)  BY <1>1, <2>1 DEF NextRow
  <2>3. DayOfEpoch(epoch, Date(1900, 3, 1))
    <3>1. Date(1900, 3, 1).year = 1900  BY DEF Date
    <3>2. QED  BY <1>1, <3>1, Ends DEF DayOfEpoch
  <2>4. SerialOf(epoch, 693960) = 61  BY <1>1 DEF SerialOf
  <2>5. serial + 1 = 61  BY <1>1
  <2>6. QED  BY <2>2, <2>3, <2>4, <2>5, Ends DEF Cell
<1>2. CASE DayOfEpoch(epoch, date) /\ serial = SerialOf(epoch, DayNumber(date))
  <2> DEFINE number == DayNumber(date)
             next == NextDay(date)
  <2>1. date \in CivilDates /\ date.year >= 1900 /\ date.year <= 9999 /\ date.year \in Int
        /\ (epoch = 2 => date.year >= 1904)
    BY <1>2 DEF DayOfEpoch, CivilDates
  <2>2. number \in Int /\ number <= 3652364  BY <2>1, NumberRange
  <2>3. next \in CivilDates /\ DayNumber(next) = number + 1  BY <2>1, DayAfterDay
  <2>4. date # PhantomDay  BY <2>1, Ends
  <2>5. number = 693959 => date = Date(1900, 2, 28)  BY <2>1, Ends, NumbersTell
  <2>6. date = Date(1900, 2, 28) => number = 693959  BY Ends
  <2>7. CASE epoch = 1 /\ date = Date(1900, 2, 28)
    <3>1. NextRow(epoch, date) = PhantomDay  BY <2>7 DEF NextRow
    <3>2. serial = 59
      <4>1. number = 693959  BY <2>6, <2>7
      <4> HIDE DEF number
      <4>2. SerialOf(epoch, number) = 59  BY <2>7, <4>1 DEF SerialOf
      <4>3. QED  BY <1>2, <4>2 DEF number
    <3>3. serial + 1 = 60  BY <3>2
    <3>4. QED  BY <2>7, <3>1, <3>3 DEF Cell
  <2>8. CASE ~(epoch = 1 /\ date = Date(1900, 2, 28))
    <3>1. NextRow(epoch, date) = next  BY <2>4, <2>8 DEF NextRow
    <3>2. serial + 1 = SerialOf(epoch, number + 1)
      <4>1. epoch = 1 => number # 693959  BY <2>5, <2>8
      <4>2. serial = SerialOf(epoch, number)  BY <1>2
      <4> HIDE DEF number
      <4>3. QED  BY <2>2, <4>1, <4>2 DEF SerialOf
    <3>3. next.year = date.year \/ (next = Date(date.year + 1, 1, 1) /\ next.year = date.year + 1)
      BY DEF NextDay, Date
    <3>4. CASE next.year <= 9999
      <4>1. DayOfEpoch(epoch, next)
        <5> HIDE DEF next
        <5>1. QED  BY <2>1, <2>3, <3>3, <3>4 DEF DayOfEpoch
      <4> HIDE DEF next, number
      <4>2. QED  BY <2>3, <3>1, <3>2, <4>1 DEF Cell
    <3>5. CASE ~(next.year <= 9999)
      <4>1. date.year = 9999 /\ next = Date(10000, 1, 1)
        <5> HIDE DEF next
        <5>1. date.year + 1 = 10000 /\ next = Date(date.year + 1, 1, 1)  BY <2>1, <3>3, <3>5
        <5>2. QED  BY <2>1, <5>1
      <4>2. number + 1 = 3652365
        <5>1. date = Date(9999, 12, 31)
          <6>1. ~(date.day < DaysIn(date.year, date.month)) /\ ~(date.month < 12)
            <7>1. Date(10000, 1, 1).year = 10000  BY DEF Date
            <7>2. next.year = 10000 /\ date.year # 10000  BY <4>1, <7>1
            <7>3. QED  BY <7>2 DEF NextDay, Date
          <6>2. date.month = 12  BY <2>1, <6>1 DEF CivilDates
          <6>3. DaysIn(date.year, 12) = 31  BY DEF DaysIn
          <6>4. date.day = 31
            <7>1. date.day \in 1 .. 31  BY <2>1 DEF CivilDates
            <7>2. ~(date.day < 31)  BY <6>1, <6>2, <6>3
            <7>3. QED  BY <7>1, <7>2
          <6>5. QED  BY <2>1, <4>1, <6>2, <6>4 DEF CivilDates, Date
        <5>2. number = 3652364  BY <5>1, Ends
        <5> HIDE DEF number
        <5>3. QED  BY <5>2
      <4> HIDE DEF next, number
      <4>3. QED  BY <3>1, <3>2, <4>1, <4>2 DEF Cell, Beyond
    <3>6. QED  BY <3>4, <3>5
  <2>9. QED  BY <2>7, <2>8
<1>3. CASE date = Beyond /\ serial = SerialOf(epoch, 3652365)
  BY <1>3, Ends
<1>4. QED  BY <1>1, <1>2, <1>3 DEF Cell

(* What is asked of the converters, and their answers: a cell holds the    *)
(* serial of its date, a duration is one of the window's, and what has     *)
(* been answered is what the core's arithmetic makes of it.                *)
CellInv ==
    asked.kind = "cell" =>
        /\ asked.epoch \in 1 .. 2
        /\ Cell(asked.epoch, asked.serial, asked.date)
        /\ result # Nothing =>
              result = [kind |-> "civil", date |-> Real!CivilOfSerial(asked.serial, asked.epoch)]

DurationInv ==
    asked.kind = "duration" =>
        /\ asked.d \in Durations
        /\ result # Nothing => result = Converted(asked.d)

LEMMA FirstCell ==
    ASSUME NEW epoch \in 1 .. 2, NEW y \in Years, epoch = 2 => y >= 1904
    PROVE  Cell(epoch, FirstDay(epoch, y), Date(y, 1, 1))
<1>1. y \in Nat /\ 1900 <= y /\ y <= 9999  BY YearsAssumption
<1>2. FirstDay(epoch, y) = SerialOf(epoch, DayNumber(Date(y, 1, 1)))  BY <1>1, FirstDays
<1>3. Date(y, 1, 1) \in CivilDates /\ Date(y, 1, 1).year = y
  <2>1. 1 <= DaysIn(y, 1)  BY DEF DaysIn
  <2>2. QED  BY <1>1, <2>1 DEF CivilDates, Date
<1>4. DayOfEpoch(epoch, Date(y, 1, 1))  BY <1>1, <1>3 DEF DayOfEpoch
<1>5. QED  BY <1>2, <1>4 DEF Cell

LEMMA ConvertersInit == MCInit => CellInv /\ DurationInv
<1> SUFFICES ASSUME MCInit PROVE CellInv /\ DurationInv  OBVIOUS
<1>1. result = Nothing  BY DEF MCInit, AskedToConvert, AskedToRender
<1>2. CASE \E x \in Durations : asked = [kind |-> "duration", d |-> x]
  <2>1. PICK x \in Durations : asked = [kind |-> "duration", d |-> x]  BY <1>2
  <2>2. asked.kind = "duration" /\ asked.d = x  BY <2>1
  <2>3. QED  BY <1>1, <2>2 DEF CellInv, DurationInv
<1>3. CASE \E v \in Doubles, door \in {"serial", "time", "span"}, epoch \in 1 .. 2 :
              asked = [kind |-> "double", v |-> v, door |-> door, epoch |-> epoch]
  <2>1. asked.kind = "double"  BY <1>3
  <2>2. QED  BY <2>1 DEF CellInv, DurationInv
<1>4. CASE \E epoch \in 1 .. 2, y \in Years :
              /\ epoch = 2 => y >= 1904
              /\ asked = [ kind |-> "cell", epoch |-> epoch, serial |-> FirstDay(epoch, y),
                           date |-> Date(y, 1, 1) ]
  <2>1. PICK epoch \in 1 .. 2, y \in Years :
              /\ epoch = 2 => y >= 1904
              /\ asked = [ kind |-> "cell", epoch |-> epoch, serial |-> FirstDay(epoch, y),
                           date |-> Date(y, 1, 1) ]
    BY <1>4
  <2>2. /\ asked.kind = "cell" /\ asked.epoch = epoch /\ asked.serial = FirstDay(epoch, y)
        /\ asked.date = Date(y, 1, 1)
    BY <2>1
  <2>3. Cell(epoch, FirstDay(epoch, y), Date(y, 1, 1))  BY <2>1, FirstCell
  <2>4. QED  BY <1>1, <2>2, <2>3 DEF CellInv, DurationInv
<1>5. CASE asked = [kind |-> "decimal"]
  <2>1. asked.kind = "decimal"  BY <1>5
  <2>2. QED  BY <2>1 DEF CellInv, DurationInv
<1>6. QED
  <2>1. CASE AskedToConvert  BY <1>2, <1>3, <1>4, <2>1 DEF AskedToConvert
  <2>2. CASE AskedToRender  BY <1>5, <2>2 DEF AskedToRender
  <2>3. QED  BY <2>1, <2>2 DEF MCInit

LEMMA ConvertersNext ==
    CellInv /\ DurationInv /\ [MCNext]_<<asked, result, vars>> => CellInv' /\ DurationInv'
<1> SUFFICES ASSUME CellInv, DurationInv, [MCNext]_<<asked, result, vars>>
             PROVE  CellInv' /\ DurationInv'
  OBVIOUS
<1>1. CASE ConvertDuration
  <2>1. asked.kind = "duration" /\ asked' = asked /\ result' = Converted(asked.d)
    BY <1>1 DEF ConvertDuration, Answer
  <2>2. QED  BY <2>1 DEF CellInv, DurationInv
<1>2. CASE ReadDouble
  <2>1. asked.kind = "double" /\ asked' = asked  BY <1>2 DEF ReadDouble, Answer
  <2>2. QED  BY <2>1 DEF CellInv, DurationInv
<1>3. CASE ReadCell
  <2>1. /\ asked.kind = "cell" /\ asked' = asked
        /\ result' = [kind |-> "civil", date |-> Real!CivilOfSerial(asked.serial, asked.epoch)]
    BY <1>3 DEF ReadCell, Answer
  <2>2. QED  BY <2>1 DEF CellInv, DurationInv
<1>4. CASE NextCell
  <2>1. /\ asked.kind = "cell" /\ asked.date.year # 10000
        /\ asked' = [ kind |-> "cell", epoch |-> asked.epoch, serial |-> asked.serial + 1,
                      date |-> NextRow(asked.epoch, asked.date) ]
        /\ result' = Nothing
    BY <1>4 DEF NextCell
  <2>2. /\ asked'.kind = "cell" /\ asked'.epoch = asked.epoch
        /\ asked'.serial = asked.serial + 1
        /\ asked'.date = NextRow(asked.epoch, asked.date)
    BY <2>1
  <2>3. asked.epoch \in 1 .. 2 /\ Cell(asked.epoch, asked.serial, asked.date)  BY <2>1 DEF CellInv
  <2>4. Cell(asked.epoch, asked.serial + 1, NextRow(asked.epoch, asked.date))
    BY <2>1, <2>3, RowAfterRow
  <2>5. CellInv'  BY <2>1, <2>2, <2>3, <2>4 DEF CellInv
  <2>6. DurationInv'  BY <2>2 DEF DurationInv
  <2>7. QED  BY <2>5, <2>6
<1>5. CASE Render
  <2>1. asked' = asked /\ result' = result  BY <1>5 DEF Render
  <2>2. QED  BY <2>1 DEF CellInv, DurationInv
<1>6. CASE UNCHANGED <<asked, result, vars>>
  <2>1. asked' = asked /\ result' = result  BY <1>6
  <2>2. QED  BY <2>1 DEF CellInv, DurationInv
<1>7. QED  BY <1>1, <1>2, <1>3, <1>4, <1>5, <1>6 DEF MCNext

(* Every duration that an integer of nanoseconds holds converts, exactly,  *)
(* whatever the integer's width (go/interop.go, Duration.AsDuration).      *)
THEOREM WhatFitsConvertsHolds == MCSpec => []WhatFitsConverts
<1>1. DurationInv => WhatFitsConverts
  <2> SUFFICES ASSUME DurationInv, asked.kind = "duration", result # Nothing, Representable(asked.d)
               PROVE  result.ok /\ result.value = Exactly(asked.d)
    BY DEF WhatFitsConverts, Answered
  <2>1. asked.d \in Durations /\ result = Converted(asked.d)  BY DEF DurationInv
  <2>2. AsDuration(asked.d) = [value |-> Exactly(asked.d), ok |-> TRUE]  BY <2>1, WhatFitsIsExact
  <2>3. result.value = AsDuration(asked.d).value /\ result.ok = AsDuration(asked.d).ok
    BY <2>1 DEF Converted
  <2>4. QED  BY <2>2, <2>3
<1>2. QED  BY <1>1, ConvertersInit, ConvertersNext, PTL DEF MCSpec

(* Serials follow the calendar from either system's first day to           *)
(* 9999-12-31, whatever years are asked for; the phantom and what is past  *)
(* the end are out of range (go/cast.go's ExcelSerialFromFloat64).         *)
THEOREM SerialsFollowTheCalendarHolds == MCSpec => []SerialsFollowTheCalendar
<1>1. CellInv => SerialsFollowTheCalendar
  <2> SUFFICES ASSUME CellInv, asked.kind = "cell", result # Nothing
               PROVE  result.date = IF asked.date = PhantomDay \/ asked.date.year = 10000
                                    THEN OutOfRange ELSE asked.date
    BY DEF SerialsFollowTheCalendar, Answered
  <2> DEFINE epoch == asked.epoch
             serial == asked.serial
             date == asked.date
  <2>1. epoch \in 1 .. 2 /\ Cell(epoch, serial, date)
        /\ result.date = Real!CivilOfSerial(serial, epoch)
    BY DEF CellInv
  <2> HIDE DEF epoch, serial, date
  <2>2. CASE epoch = 1 /\ serial = 60 /\ date = PhantomDay
    <3>1. Real!CivilOfSerial(serial, epoch) = OutOfRange  BY <2>2, RealSerials
    <3>2. QED  BY <2>1, <2>2, <3>1 DEF date
  <2>3. CASE DayOfEpoch(epoch, date) /\ serial = SerialOf(epoch, DayNumber(date))
    <3>1. Real!CivilOfSerial(serial, epoch) = date  BY <2>1, <2>3, RealReadsDays
    <3>2. date # PhantomDay /\ date.year # 10000
      <4>1. date \in CivilDates /\ date.year \in Int /\ date.year <= 9999
        BY <2>3 DEF DayOfEpoch, CivilDates
      <4>2. QED  BY <4>1, Ends
    <3>3. QED  BY <2>1, <3>1, <3>2 DEF date
  <2>4. CASE date = Beyond /\ serial = SerialOf(epoch, 3652365)
    <3>1. Real!CivilOfSerial(serial, epoch) = OutOfRange  BY <2>1, <2>4, RealReadsBeyond
    <3>2. date.year = 10000  BY <2>4, Ends
    <3>3. QED  BY <2>1, <3>1, <3>2 DEF date
  <2>5. QED  BY <2>1, <2>2, <2>3, <2>4 DEF Cell
<1>2. QED  BY <1>1, ConvertersInit, ConvertersNext, PTL DEF MCSpec

(* A rendering among the other questions of the run.                       *)
RenderInv ==
    /\ asked.kind = "decimal" => DecimalInv
    /\ asked.kind # "decimal" => stage = "none"

(* Decimal.String's text reads back whatever else is asked for beside it.  *)
THEOREM RenderingReadsBack == MCSpec => []ReadsBack
<1>1. MCInit => RenderInv
  <2>1. CASE AskedToConvert
    <3>1. stage = "none"  BY <2>1 DEF AskedToConvert, NothingToRender
    <3>2. asked.kind # "decimal"  BY <2>1 DEF AskedToConvert
    <3>3. QED  BY <3>1, <3>2 DEF RenderInv
  <2>2. CASE AskedToRender
    <3>1. DecimalInv /\ asked.kind = "decimal"  BY <2>2, DecimalInit DEF AskedToRender
    <3>2. QED  BY <3>1 DEF RenderInv
  <2>3. QED  BY <2>1, <2>2 DEF MCInit
<1>2. RenderInv /\ [MCNext]_<<asked, result, vars>> => RenderInv'
  <2> SUFFICES ASSUME RenderInv, [MCNext]_<<asked, result, vars>> PROVE RenderInv'  OBVIOUS
  <2>1. CASE Render
    <3>1. asked' = asked /\ asked.kind = "decimal" /\ Next  BY <2>1 DEF Render
    <3>2. DecimalInv'  BY <3>1, DecimalNext DEF RenderInv
    <3>3. QED  BY <3>1, <3>2 DEF RenderInv
  <2>2. CASE ConvertDuration \/ ReadDouble \/ ReadCell \/ NextCell \/ UNCHANGED <<asked, result, vars>>
    <3>1. asked'.kind = asked.kind /\ UNCHANGED vars
      BY <2>2 DEF ConvertDuration, ReadDouble, ReadCell, NextCell, Answer
    <3>2. stage' = stage /\ (DecimalInv => DecimalInv')
      <4>1. stage' = stage  BY <3>1 DEF vars
      <4>2. [Next]_vars  BY <3>1
      <4>3. QED  BY <4>1, <4>2, DecimalNext
    <3>3. QED  BY <3>1, <3>2 DEF RenderInv
  <2>3. QED  BY <2>1, <2>2 DEF MCNext
<1>3. RenderInv => ReadsBack
  <2>1. CASE asked.kind = "decimal"  BY <2>1 DEF RenderInv, DecimalInv
  <2>2. CASE asked.kind # "decimal"  BY <2>2 DEF RenderInv, ReadsBack
  <2>3. QED  BY <2>1, <2>2
<1>4. QED  BY <1>1, <1>2, <1>3, PTL DEF MCSpec

-----------------------------------------------------------------------------
(* The snapping.  What a double stores is an interval of nanoseconds       *)
(* shorter than a second; the multiples of a coarser decimal step are      *)
(* multiples of every finer one, so that counting the steps with a stored  *)
(* multiple finds the coarsest; and of its multiples, the nearest is among *)
(* the last before the double and the first after.                         *)
(* A power of two is at most every later one.                              *)
LEMMA TwosNeverFall ==
    ASSUME NEW j \in Nat, NEW k \in Nat, j <= k
    PROVE  Twos[j] <= Twos[k]
<1> DEFINE S == { m \in Nat : Twos[j] <= Twos[j + m] }
<1>1. 0 \in S  BY TwosAre
<1>2. ASSUME NEW m \in S PROVE m + 1 \in S
  <2>1. m \in Nat /\ Twos[j] <= Twos[j + m]  OBVIOUS
  <2>2. /\ Twos[(j + m) + 1] = 2 * Twos[j + m] /\ Twos[j + m] \in Nat
        /\ j + (m + 1) = (j + m) + 1 /\ Twos[j] \in Nat
    BY <2>1, TwosAre
  <2>3. QED  BY <2>1, <2>2
<1>3. S \subseteq Nat  OBVIOUS
<1> HIDE DEF S
<1>4. S = Nat  BY <1>1, <1>2, <1>3, NatInd
<1>5. k - j \in S /\ j + (k - j) = k  BY <1>4
<1>6. QED  BY <1>5 DEF S

(* Powers of ten divide one another.                                       *)
LEMMA TensDivide ==
    ASSUME NEW j \in Nat, NEW k \in Nat, j <= k
    PROVE  \E c \in Nat \ {0} : Tens[k] = c * Tens[j]
<1> DEFINE S == { m \in Nat : Tens[j + m] = Tens[m] * Tens[j] }
<1>1. 0 \in S  BY TensAre
<1>2. ASSUME NEW m \in S PROVE m + 1 \in S
  <2>1. m \in Nat /\ Tens[j + m] = Tens[m] * Tens[j]  OBVIOUS
  <2>2. /\ Tens[(j + m) + 1] = 10 * Tens[j + m] /\ Tens[m + 1] = 10 * Tens[m]
        /\ j + (m + 1) = (j + m) + 1 /\ Tens[j] \in Nat /\ Tens[m] \in Nat
    BY <2>1, TensAre
  <2>3. 10 * (Tens[m] * Tens[j]) = (10 * Tens[m]) * Tens[j]  BY <2>2
  <2>4. QED  BY <2>1, <2>2, <2>3
<1>3. S \subseteq Nat  OBVIOUS
<1> HIDE DEF S
<1>4. S = Nat  BY <1>1, <1>2, <1>3, NatInd
<1>5. k - j \in S /\ j + (k - j) = k  BY <1>4
<1>6. Tens[k] = Tens[k - j] * Tens[j] /\ k - j \in Nat  BY <1>5 DEF S
<1>7. QED  BY <1>6, TensAre

(* What a multiple is, and the last one up to x.                           *)
LEMMA MultipleIs ==
    ASSUME NEW x \in Int, NEW p \in Nat \ {0}
    PROVE  x % p = 0 <=> \E c \in Int : x = c * p
<1>1. x = p * (x \div p) + (x % p) /\ x % p \in 0 .. p - 1 /\ x \div p \in Int  OBVIOUS
<1>2. ASSUME x % p = 0 PROVE \E c \in Int : x = c * p
  <2>1. x = (x \div p) * p  BY <1>1, <1>2
  <2>2. QED  BY <1>1, <2>1
<1>3. ASSUME NEW c \in Int, x = c * p PROVE x % p = 0
  <2> DEFINE q == x \div p
             r == x % p
  <2>1. c * p = p * q + r /\ r \in 0 .. p - 1 /\ q \in Int  BY <1>1, <1>3
  <2> HIDE DEF q, r
  <2>2. (c - q) * p = r /\ c - q \in Int  BY <2>1
  <2>3. ~(c - q >= 1)
    <3>1. SUFFICES ASSUME c - q >= 1 PROVE FALSE  OBVIOUS
    <3>2. (c - q) * p >= p  BY <2>1, <3>1
    <3>3. QED  BY <2>1, <2>2, <3>2
  <2>4. ~(c - q <= -1)
    <3>1. SUFFICES ASSUME c - q <= -1 PROVE FALSE  OBVIOUS
    <3>2. (c - q) * p <= -p  BY <2>1, <3>1
    <3>3. QED  BY <2>1, <2>2, <3>2
  <2>5. r = 0  BY <2>1, <2>2, <2>3, <2>4
  <2>6. QED  BY <2>5 DEF r
<1>4. QED  BY <1>2, <1>3

Down(x, p) == x - (x % p)

(* The last multiple up to x, and its neighbours.                          *)
LEMMA DownIsLast ==
    ASSUME NEW x \in Int, NEW p \in Nat \ {0}
    PROVE  /\ Down(x, p) \in Int /\ Down(x, p) <= x /\ x < Down(x, p) + p
           /\ Down(x, p) % p = 0 /\ (Down(x, p) + p) % p = 0
           /\ \A y \in Int : y % p = 0 /\ y <= x => y <= Down(x, p)
           /\ \A y \in Int : y % p = 0 /\ y > Down(x, p) => y >= Down(x, p) + p
           /\ \A y \in Int : y % p = 0 /\ y < Down(x, p) => y <= Down(x, p) - p
<1> DEFINE q == x \div p
           low == Down(x, p)
<1>1. x = p * q + (x % p) /\ x % p \in 0 .. p - 1 /\ q \in Int  OBVIOUS
<1>2. low = q * p /\ low \in Int /\ low <= x /\ x < low + p  BY <1>1 DEF Down
<1>3. low + p = (q + 1) * p  BY <1>1, <1>2
<1>4. low % p = 0 /\ (low + p) % p = 0
  <2>1. q + 1 \in Int  BY <1>1
  <2> HIDE DEF low, q
  <2>2. low % p = 0  BY <1>1, <1>2, MultipleIs
  <2>3. low + p \in Int  BY <1>2
  <2>4. (low + p) % p = 0  BY <1>3, <2>1, <2>3, MultipleIs
  <2>5. QED  BY <2>2, <2>4
<1> HIDE DEF q, low
<1>5. ASSUME NEW y \in Int, y % p = 0
      PROVE  (y > low => y >= low + p) /\ (y < low => y <= low - p)
  <2>1. PICK c \in Int : y = c * p  BY <1>5, MultipleIs
  <2>2. y - low = (c - q) * p /\ c - q \in Int  BY <1>1, <1>2, <2>1
  <2>3. c - q >= 1 => (c - q) * p >= p  BY <1>1
  <2>4. c - q <= -1 => (c - q) * p <= -p  BY <1>1
  <2>5. c - q = 0 => (c - q) * p = 0  BY <1>1
  <2>6. QED  BY <1>2, <2>2, <2>3, <2>4, <2>5
<1>6. QED  BY <1>2, <1>4, <1>5 DEF low

(* The multiples of s on either side of x, by its quotient.                *)
LEMMA Between ==
    ASSUME NEW x \in Int, NEW s \in Nat \ {0}, NEW t \in Int
    PROVE  /\ t * s \in Int
           /\ t * s >= x <=> t >= x \div s + (IF x % s # 0 THEN 1 ELSE 0)
           /\ t * s > x <=> t >= x \div s + 1
           /\ t * s <= x <=> t <= x \div s
           /\ t * s < x <=> t <= x \div s - (IF x % s = 0 THEN 1 ELSE 0)
<1> DEFINE q == x \div s
           r == x % s
           k == t - q
<1>1. x = s * q + r /\ r \in 0 .. s - 1 /\ q \in Int  OBVIOUS
<1> HIDE DEF q, r
<1>2. k \in Int /\ t * s - x = k * s - r /\ t = q + k  BY <1>1
<1> HIDE DEF k
<1>3. k >= 1 => k * s >= s  BY <1>2
<1>4. k <= -1 => k * s <= -s  BY <1>2
<1>5. k = 0 => k * s = 0  BY <1>2
<1>6. k * s \in Int /\ t * s \in Int  BY <1>2
<1>7. QED  BY <1>1, <1>2, <1>3, <1>4, <1>5, <1>6 DEF q, r

(* A set of steps that begin with 1 and leave none out counts its last.    *)
LEMMA DownClosed ==
    ASSUME NEW top \in Nat, NEW S, S \subseteq 1 .. top,
           \A k \in S, j \in Nat : 1 <= j /\ j <= k => j \in S
    PROVE  \E last \in 0 .. top : S = 1 .. last /\ Cardinality(S) = last
<1>1. CASE S = {}
  <2>1. S = 1 .. 0 /\ Cardinality(S) = 0  BY <1>1, FS_EmptySet
  <2>2. 0 \in 0 .. top  OBVIOUS
  <2>3. QED  BY <2>1, <2>2
<1>2. CASE S # {}
  <2>1. S \subseteq 0 .. top  OBVIOUS
  <2>2. Max(S) \in S /\ \A k \in S : k <= Max(S)  BY <1>2, <2>1, MaxIsGreatest
  <2> DEFINE last == Max(S)
  <2>3. last \in S /\ \A k \in S : k <= last  BY <2>2
  <2> HIDE DEF last
  <2>4. last \in 1 .. top  BY <2>3
  <2>5. S = 1 .. last
    <3>1. ASSUME NEW k \in 1 .. last PROVE k \in S
      <4>1. k \in Nat /\ 1 <= k /\ k <= last  BY <2>4
      <4>2. QED  BY <2>3, <4>1
    <3>2. ASSUME NEW k \in S PROVE k \in 1 .. last
      <4>1. k \in 1 .. top  OBVIOUS
      <4>2. QED  BY <2>3, <2>4, <4>1
    <3>3. QED  BY <3>1, <3>2
  <2>6. Cardinality(1 .. last) = last
    <3>1. 1 \in Int /\ last \in Int /\ 1 <= last  BY <2>4
    <3>2. Cardinality(1 .. last) = last - 1 + 1  BY <3>1, FS_Interval
    <3>3. QED  BY <3>1, <3>2
  <2>7. QED  BY <2>4, <2>5, <2>6
<1>3. QED  BY <1>1, <1>2

-----------------------------------------------------------------------------
(* The nanosecond the double is at or just past, and the first and last it *)
(* stores, counted from the first day's start.                             *)
Near(v) == Nanos(v) \div Scale(v)
Earliest(v) == FirstStored(v) + DayStart(v)
Latest(v) == LastStored(v) + DayStart(v)

(* A double that is a moment and stores less than two whole seconds.       *)
IsDouble(v) ==
    /\ v.mantissa \in Nat \ {0} /\ v.shift \in Nat /\ v.power \in BOOLEAN
    /\ 4 * Day < Second * Scale(v)

(* A second and a day, as the constants have them.                         *)
LEMMA SecondIs ==
    /\ Second \in Nat \ {0} /\ Day \in Nat \ {0} /\ Second <= Day /\ Digits \in Nat
    /\ \E c \in Nat \ {0} : Day = c * Second
<1>1. Second \in Nat \ {0} /\ Day \in Nat \ {0} /\ Digits \in Nat /\ Day % Second = 0
  BY ExcelAssumption, TensAre
<1>2. Day = Second * (Day \div Second) /\ Day \div Second \in Int  BY <1>1
<1> DEFINE c == Day \div Second
<1>3. c \in Int /\ Day = Second * c  BY <1>2
<1> HIDE DEF c
<1>4. c >= 1
  <2>1. SUFFICES ASSUME c <= 0 PROVE FALSE  BY <1>3
  <2>2. Second * c <= 0  BY <1>1, <1>3, <2>1
  <2>3. QED  BY <1>1, <1>3, <2>2
<1>5. Second * c >= Second  BY <1>1, <1>3, <1>4
<1>6. QED  BY <1>1, <1>3, <1>4, <1>5

LEMMA TimesLess ==
    ASSUME NEW a \in Int, NEW b \in Int, NEW s \in Nat \ {0}
    PROVE  /\ a * s \in Int /\ b * s \in Int
           /\ a * s < b * s <=> a < b
<1>1. a < b => (b - a) * s >= s  OBVIOUS
<1>2. a >= b => (a - b) * s >= 0  OBVIOUS
<1>3. (b - a) * s = b * s - a * s /\ (a - b) * s = a * s - b * s  OBVIOUS
<1>4. a * s \in Int /\ b * s \in Int  OBVIOUS
<1>5. QED  BY <1>1, <1>2, <1>3, <1>4

LEMMA Divided ==
    ASSUME NEW x \in Nat, NEW p \in Nat \ {0}
    PROVE  /\ x = p * (x \div p) + (x % p)
           /\ x % p \in 0 .. p - 1 /\ x \div p \in Nat
<1>1. x = p * (x \div p) + (x % p) /\ x % p \in 0 .. p - 1 /\ x \div p \in Int  OBVIOUS
<1>2. ~(x \div p <= -1)
  <2>1. SUFFICES ASSUME x \div p <= -1 PROVE FALSE  OBVIOUS
  <2> DEFINE q == x \div p
  <2>2. q \in Int /\ q <= -1  BY <1>1, <2>1
  <2>3. x - p * q \in 0 .. p - 1  BY <1>1
  <2> HIDE DEF q
  <2>4. p * q <= -p  BY <2>2
  <2>5. p * q \in Int  BY <2>2
  <2>6. QED  BY <2>3, <2>4, <2>5
<1>3. QED  BY <1>1, <1>2

(* The quotients and remainders a double is read by.                       *)
LEMMA DoubleNumbers ==
    ASSUME NEW v, IsDouble(v)
    PROVE  /\ Scale(v) \in Nat \ {0} /\ Nanos(v) \in Nat /\ Near(v) \in Nat
           /\ Below(v) \in Nat \ {0} /\ Below(v) <= 2 * Day /\ Above(v) = 2 * Day
           /\ Below(v) <= Nanos(v) /\ Odd(v) \in BOOLEAN
           /\ Near(v) * Scale(v) <= Nanos(v) /\ Nanos(v) < (Near(v) + 1) * Scale(v)
           /\ Nanos(v) - Near(v) * Scale(v) = Nanos(v) % Scale(v)
           /\ WholeDays(v) \in Nat /\ DayStart(v) \in Nat /\ DayStart(v) = WholeDays(v) * Day
           /\ DayStart(v) <= Near(v) /\ Near(v) < DayStart(v) + Day
<1>1. Scale(v) \in Nat \ {0}  BY TwosAre DEF IsDouble, Scale
<1>2. Nanos(v) \in Nat /\ Nanos(v) >= 4 * Day
  <2>1. v.mantissa \in Nat \ {0} /\ Day \in Nat \ {0}  BY SecondIs DEF IsDouble
  <2>2. Nanos(v) = (4 * v.mantissa) * Day  BY DEF Nanos, Days4
  <2>3. (4 * v.mantissa) * Day = 4 * (v.mantissa * Day) /\ v.mantissa * Day \in Nat
        /\ v.mantissa * Day >= Day
    BY <2>1
  <2>4. QED  BY <2>1, <2>2, <2>3
<1>3. Below(v) \in Nat \ {0} /\ Below(v) <= 2 * Day /\ Above(v) = 2 * Day /\ Below(v) <= Nanos(v)
  BY <1>2, SecondIs DEF Below, Above
<1>4. Odd(v) \in BOOLEAN  BY DEF Odd
<1> DEFINE N == Nanos(v)
           s == Scale(v)
           q == N \div s
           r == N % s
<1>5. N = s * q + r /\ r \in 0 .. s - 1 /\ q \in Nat /\ q = Near(v)
  <2>1. N \in Nat /\ s \in Nat \ {0}  BY <1>1, <1>2
  <2>2. q = Near(v)  BY DEF Near
  <2> HIDE DEF N, s
  <2>3. QED  BY <2>1, <2>2, Divided
<1>6. N - q * s = r /\ q * s <= N /\ N < (q + 1) * s
  <2> HIDE DEF N, q, r, s
  <2>1. s \in Nat  BY <1>1 DEF s
  <2>2. (q + 1) * s = q * s + s /\ q * s \in Int /\ s * q = q * s  BY <1>5, <2>1
  <2>3. QED  BY <1>5, <2>1, <2>2
<1>7. WholeDays(v) \in Nat /\ Near(v) = Day * WholeDays(v) + (Near(v) % Day)
      /\ Near(v) % Day \in 0 .. Day - 1
  <2>1. WholeDays(v) = Near(v) \div Day  BY DEF WholeDays, Near
  <2>2. Near(v) \in Nat /\ Day \in Nat \ {0}  BY <1>5, SecondIs
  <2>3. /\ Near(v) = Day * (Near(v) \div Day) + (Near(v) % Day)
        /\ Near(v) % Day \in 0 .. Day - 1 /\ Near(v) \div Day \in Nat
    BY <2>2, Divided
  <2>4. QED  BY <2>1, <2>3
<1>8. DayStart(v) = WholeDays(v) * Day /\ DayStart(v) = Day * WholeDays(v) /\ DayStart(v) \in Nat
  BY <1>7, SecondIs DEF DayStart
<1>9. DayStart(v) <= Near(v) /\ Near(v) < DayStart(v) + Day
  <2>1. Near(v) \in Nat /\ Day \in Nat  BY <1>5, SecondIs
  <2>2. QED  BY <1>7, <1>8, <2>1
<1>10. QED  BY <1>1, <1>2, <1>3, <1>4, <1>5, <1>6, <1>7, <1>8, <1>9

(* What the double stores lies from Earliest to Latest.                    *)
LEMMA StoredRange ==
    ASSUME NEW v, IsDouble(v)
    PROVE  /\ Earliest(v) \in Int /\ Latest(v) \in Int
           /\ \A t \in Int : Stores(v, t) <=> Earliest(v) <= t /\ t <= Latest(v)
           /\ Earliest(v) * Scale(v) >= Nanos(v) - Below(v)
           /\ Latest(v) * Scale(v) <= Nanos(v) + Above(v)
           /\ Earliest(v) >= 0 /\ Earliest(v) <= Near(v) + 1 /\ Latest(v) >= Near(v)
<1> DEFINE N == Nanos(v)
           s == Scale(v)
           B == Below(v)
           A == Above(v)
           low == N - B
           high == N + A
           E == Earliest(v)
           L == Latest(v)
<1>1. /\ s \in Nat \ {0} /\ N \in Nat /\ B \in Nat \ {0} /\ A \in Nat \ {0} /\ B <= N
      /\ Odd(v) \in BOOLEAN /\ DayStart(v) \in Nat /\ Near(v) \in Nat
      /\ Near(v) * s <= N /\ N < (Near(v) + 1) * s
  BY DoubleNumbers, SecondIs
<1>2. low \in Int /\ high \in Int /\ low \div s \in Int /\ high \div s \in Int
      /\ low % s \in Int /\ high % s \in Int
  BY <1>1
<1>3. /\ E = low \div s + (IF low % s # 0 \/ Odd(v) THEN 1 ELSE 0)
      /\ L = high \div s - (IF high % s = 0 /\ Odd(v) THEN 1 ELSE 0)
  BY <1>1, <1>2 DEF Earliest, Latest, FirstStored, LastStored
<1> HIDE DEF E, L
<1>4. E \in Int /\ L \in Int  BY <1>2, <1>3
<1>5. ASSUME NEW t \in Int
      PROVE  /\ Stores(v, t) <=> E <= t /\ t <= L
             /\ E <= t => t * s >= low
             /\ t <= L => t * s <= high
             /\ t * s > low => E <= t
             /\ t * s < high => t <= L
  <2>1. /\ t * s \in Int
        /\ t * s >= low <=> t >= low \div s + (IF low % s # 0 THEN 1 ELSE 0)
        /\ t * s > low <=> t >= low \div s + 1
        /\ t * s <= high <=> t <= high \div s
        /\ t * s < high <=> t <= high \div s - (IF high % s = 0 THEN 1 ELSE 0)
    <3> HIDE DEF low, high, s
    <3>1. QED  BY <1>1, <1>2, Between
  <2>2. Stores(v, t) <=> IF Odd(v) THEN t * s > low /\ t * s < high ELSE t * s >= low /\ t * s <= high
    <3>1. Off(v, t) = t * s - N  BY DEF Off
    <3> HIDE DEF s, N, B, A
    <3>2. Stores(v, t) <=> IF Odd(v) THEN t * s - N > -B /\ t * s - N < A
                           ELSE t * s - N >= -B /\ t * s - N <= A
      BY <3>1 DEF Stores, A, B
    <3>3. N \in Int /\ A \in Int /\ B \in Int /\ t * s \in Int  BY <1>1, <2>1
    <3>4. QED  BY <3>2, <3>3
  <2> HIDE DEF low, high, s
  <2>3. QED  BY <1>1, <1>2, <1>3, <1>4, <2>1, <2>2
<1>6. E * s >= low /\ L * s <= high  BY <1>4, <1>5
<1>7. E <= Near(v) + 1
  <2>1. Near(v) + 1 \in Int /\ (Near(v) + 1) * s \in Int  BY <1>1
  <2>2. (Near(v) + 1) * s > low  BY <1>1, <2>1
  <2> HIDE DEF low, s
  <2>3. QED  BY <1>5, <2>1, <2>2
<1>8. Near(v) <= L
  <2>1. Near(v) \in Int /\ Near(v) * s \in Int  BY <1>1
  <2>2. Near(v) * s < high
    <3> HIDE DEF N, A, s
    <3>1. QED  BY <1>1, <2>1
  <2> HIDE DEF high, s
  <2>3. QED  BY <1>5, <2>1, <2>2
<1>9. E >= 0
  <2>1. SUFFICES ASSUME E <= -1 PROVE FALSE  BY <1>4
  <2>2. E * s <= -s  BY <1>1, <1>4, <2>1
  <2>3. E * s \in Int /\ low >= 0  BY <1>1, <1>4
  <2>4. QED  BY <1>1, <1>6, <2>2, <2>3
<1>10. QED  BY <1>4, <1>5, <1>6, <1>7, <1>8, <1>9 DEF E, L

(* All within a second of each other and of the double.                    *)
LEMMA StoredWithin ==
    ASSUME NEW v, IsDouble(v)
    PROVE  /\ Latest(v) - Earliest(v) < Second
           /\ Latest(v) <= Near(v) + Second /\ Earliest(v) >= Near(v) - Second
<1> DEFINE N == Nanos(v)
           s == Scale(v)
           E == Earliest(v)
           L == Latest(v)
           q == Near(v)
           w == Second
           W == w * s
<1>1. /\ s \in Nat \ {0} /\ N \in Nat /\ q \in Nat /\ w \in Nat \ {0} /\ Day \in Nat
      /\ E \in Int /\ L \in Int
      /\ q * s <= N /\ N < (q + 1) * s
      /\ E * s >= N - 2 * Day /\ L * s <= N + 2 * Day
      /\ 4 * Day < W
  <2>1. Below(v) \in Nat /\ Below(v) <= 2 * Day /\ Above(v) = 2 * Day /\ N \in Nat
    BY DoubleNumbers
  <2>2. E * s \in Int /\ s \in Nat \ {0} /\ E \in Int  BY DoubleNumbers, StoredRange
  <2>3. E * s >= N - Below(v) /\ L * s <= N + Above(v)  BY StoredRange
  <2>4. Day \in Nat /\ w \in Nat \ {0}  BY SecondIs
  <2>5. E * s >= N - 2 * Day /\ L * s <= N + 2 * Day  BY <2>1, <2>2, <2>3, <2>4
  <2>6. QED  BY <2>2, <2>4, <2>5, DoubleNumbers, StoredRange DEF IsDouble
<1> HIDE DEF N, s, E, L, q, w
<1>2. E * s \in Int /\ L * s \in Int /\ q * s \in Int /\ W \in Int  BY <1>1
<1>3. L - E < w
  <2>1. (L - E) * s = L * s - E * s /\ L - E \in Int  BY <1>1
  <2>2. (L - E) * s < W  BY <1>1, <1>2, <2>1
  <2>3. QED  BY <1>1, <2>1, <2>2, TimesLess
<1>4. L <= q + w
  <2>1. (2 * L) * s = 2 * (L * s) /\ (2 * q + 2 + w) * s = 2 * ((q + 1) * s) + W
        /\ (q + 1) * s \in Int
    BY <1>1
  <2>2. (2 * L) * s < (2 * q + 2 + w) * s  BY <1>1, <1>2, <2>1
  <2>3. 2 * L \in Int /\ 2 * q + 2 + w \in Int  BY <1>1
  <2>4. 2 * L < 2 * q + 2 + w  BY <1>1, <2>2, <2>3, TimesLess
  <2>5. QED  BY <1>1, <2>4
<1>5. E >= q - w
  <2>1. (2 * E) * s = 2 * (E * s) /\ (2 * q - w) * s = 2 * (q * s) - W  BY <1>1
  <2>2. (2 * q - w) * s < (2 * E) * s  BY <1>1, <1>2, <2>1
  <2>3. 2 * E \in Int /\ 2 * q - w \in Int  BY <1>1
  <2>4. 2 * q - w < 2 * E  BY <1>1, <2>2, <2>3, TimesLess
  <2>5. QED  BY <1>1, <2>4
<1>6. QED  BY <1>3, <1>4, <1>5 DEF E, L, q, w

-----------------------------------------------------------------------------
LEMMA SameRemainder ==
    ASSUME NEW x \in Int, NEW y \in Int, NEW c \in Int, NEW p \in Nat \ {0}, x = y + c * p
    PROVE  x % p = y % p
<1> DEFINE q == y \div p
           r == y % p
           Q == x \div p
           R == x % p
<1>1. y = p * q + r /\ r \in 0 .. p - 1 /\ q \in Int  OBVIOUS
<1>2. x = p * Q + R /\ R \in 0 .. p - 1 /\ Q \in Int  OBVIOUS
<1> HIDE DEF q, r, Q, R
<1>3. (Q - q - c) * p = r - R /\ Q - q - c \in Int  BY <1>1, <1>2
<1>4. Q - q - c >= 1 => (Q - q - c) * p >= p  BY <1>3
<1>5. Q - q - c <= -1 => (Q - q - c) * p <= -p  BY <1>3
<1>6. Q - q - c = 0 => (Q - q - c) * p = 0  BY <1>3
<1>7. r = R  BY <1>1, <1>2, <1>3, <1>4, <1>5, <1>6
<1>8. QED  BY <1>7 DEF r, R

(* The day starts on a multiple of every step, so that it does not matter  *)
(* whether nanoseconds count from it or from the first.                    *)
LEMMA DayStartsEven ==
    ASSUME NEW v, IsDouble(v), NEW x \in Int, NEW k \in 0 .. Digits
    PROVE  /\ Tens[k] \in Nat \ {0} /\ k \in Nat
           /\ (x - DayStart(v)) % Tens[k] = x % Tens[k]
           /\ (x - DayStart(v)) - ((x - DayStart(v)) % Tens[k]) = Down(x, Tens[k]) - DayStart(v)
           /\ Down(x, Tens[k]) \in Int
<1>1. Digits \in Nat /\ Day \in Nat /\ WholeDays(v) \in Nat /\ DayStart(v) = WholeDays(v) * Day
      /\ DayStart(v) \in Nat
  BY SecondIs, DoubleNumbers
<1>2. k \in Nat /\ k <= Digits /\ Tens[k] \in Nat \ {0}  BY <1>1, TensAre
<1>3. PICK c \in Nat \ {0} : Day = c * Second  BY SecondIs
<1>4. PICK b \in Nat \ {0} : Second = b * Tens[k]  BY <1>1, <1>2, TensDivide, ExcelAssumption
<1> DEFINE e == WholeDays(v) * (c * b)
<1>5. e \in Int
  <2>1. c * b \in Nat  BY <1>3, <1>4
  <2>2. QED  BY <1>1, <2>1
<1>6. DayStart(v) = e * Tens[k]
  <2> DEFINE p == Tens[k]
             g == WholeDays(v)
  <2>1. p \in Nat /\ g \in Nat /\ c \in Nat /\ b \in Nat  BY <1>1, <1>2, <1>3, <1>4
  <2>2. DayStart(v) = g * (c * (b * p))  BY <1>1, <1>3, <1>4
  <2> HIDE DEF p, g
  <2>3. g * (c * (b * p)) = (g * (c * b)) * p  BY <2>1
  <2>4. QED  BY <2>2, <2>3 DEF p, g
<1> HIDE DEF e
<1>7. x = (x - DayStart(v)) + e * Tens[k] /\ x - DayStart(v) \in Int  BY <1>1, <1>6
<1>8. (x - DayStart(v)) % Tens[k] = x % Tens[k]
  <2> DEFINE y == x - DayStart(v)
             p == Tens[k]
  <2>1. y \in Int /\ p \in Nat \ {0} /\ x = y + e * p  BY <1>2, <1>7
  <2> HIDE DEF y, p
  <2>2. y \in Int /\ e \in Int /\ p \in Nat \ {0} /\ x = y + e * p /\ x \in Int  BY <1>5, <2>1
  <2>4. \A a, g, i \in Int, j \in Nat \ {0} : a = g + i * j => a % j = g % j  BY SameRemainder
  <2>5. x % p = y % p  BY <2>2, <2>4
  <2>3. QED  BY <2>5 DEF y, p
<1>9. x % Tens[k] \in Int  BY <1>2
<1>10. QED  BY <1>1, <1>2, <1>8, <1>9 DEF Down

(* The double stores a multiple of a step when the last one does not fall  *)
(* short of what it stores first.                                          *)
Steps(v, k) == Down(Latest(v), Tens[k]) >= Earliest(v)

(* A double that stores a multiple of a step stores one of every finer.    *)
LEMMA FinerSteps ==
    ASSUME NEW v, IsDouble(v), NEW k \in 0 .. Digits, NEW j \in 0 .. Digits, j <= k, Steps(v, k)
    PROVE  Steps(v, j)
<1>1. Latest(v) \in Int /\ Earliest(v) \in Int  BY StoredRange
<1>2. j \in Nat /\ k \in Nat /\ Tens[j] \in Nat \ {0} /\ Tens[k] \in Nat \ {0}
  BY <1>1, DayStartsEven
<1>3. PICK c \in Nat \ {0} : Tens[k] = c * Tens[j]  BY <1>2, TensDivide
<1> DEFINE low == Down(Latest(v), Tens[k])
<1>4. low \in Int /\ low <= Latest(v) /\ low % Tens[k] = 0  BY <1>1, <1>2, DownIsLast
<1> HIDE DEF low
<1>5. PICK b \in Int : low = b * Tens[k]  BY <1>2, <1>4, MultipleIs
<1>6. low = (b * c) * Tens[j] /\ b * c \in Int
  <2> DEFINE p == Tens[j]
  <2>1. low = b * (c * p) /\ p \in Nat  BY <1>2, <1>3, <1>5
  <2> HIDE DEF p
  <2>2. b * (c * p) = (b * c) * p /\ b * c \in Int  BY <1>3, <1>5, <2>1
  <2>3. QED  BY <2>1, <2>2 DEF p
<1>7. low % Tens[j] = 0  BY <1>2, <1>4, <1>6, MultipleIs
<1>8. low <= Down(Latest(v), Tens[j]) /\ Down(Latest(v), Tens[j]) \in Int
  BY <1>1, <1>2, <1>4, <1>7, DownIsLast
<1>9. low >= Earliest(v)  BY DEF Steps, low
<1>10. QED  BY <1>1, <1>4, <1>8, <1>9 DEF Steps

Coarsest(v, k) == Steps(v, k) /\ \A j \in 0 .. Digits : j > k => ~Steps(v, j)

(* The core's step, when no whole second is stored, is the coarsest.       *)
LEMMA StepIsCoarsest ==
    ASSUME NEW v, IsDouble(v), Earliest(v) <= Latest(v), ~Steps(v, Digits)
    PROVE  \E k \in 0 .. Digits :
              Coarsest(v, k) /\ Step(FirstStored(v), LastStored(v)) = Tens[k]
<1>1. /\ Latest(v) \in Int /\ Earliest(v) \in Int /\ Digits \in Nat /\ DayStart(v) \in Nat
  BY StoredRange, SecondIs, DoubleNumbers
<1>2. Steps(v, 0)
  <2>1. Tens[0] = 1  BY TensAre
  <2>2. Down(Latest(v), 1) = Latest(v)
    <3>1. Latest(v) % 1 = 0  BY <1>1
    <3>2. QED  BY <1>1, <3>1 DEF Down
  <2>3. QED  BY <2>1, <2>2 DEF Steps
<1>3. Digits # 0 /\ Digits - 1 \in Nat  BY <1>1, <1>2
<1> DEFINE first == FirstStored(v)
           last == LastStored(v)
           S == { k \in 1 .. Digits - 1 : last - (last % Tens[k]) >= first }
<1>4. \A k \in 1 .. Digits - 1 : k \in S <=> Steps(v, k)
  <2> SUFFICES ASSUME NEW k \in 1 .. Digits - 1 PROVE k \in S <=> Steps(v, k)  OBVIOUS
  <2>1. k \in 0 .. Digits  BY <1>1
  <2>2. last = Latest(v) - DayStart(v) /\ first = Earliest(v) - DayStart(v)
    <3>1. first \in Int /\ last \in Int
      <4>1. Nanos(v) \in Nat /\ Below(v) \in Nat /\ Above(v) \in Nat /\ Scale(v) \in Nat \ {0}
        BY DoubleNumbers, SecondIs
      <4>2. QED  BY <1>1, <4>1 DEF FirstStored, LastStored
    <3>2. QED  BY <1>1, <3>1 DEF Latest, Earliest
  <2>3. last - (last % Tens[k]) = Down(Latest(v), Tens[k]) - DayStart(v)
    BY <1>1, <2>1, <2>2, DayStartsEven
  <2>4. Down(Latest(v), Tens[k]) \in Int  BY <1>1, <2>1, DayStartsEven
  <2> HIDE DEF first, last
  <2>5. QED  BY <1>1, <2>2, <2>3, <2>4 DEF Steps
<1>5. PICK k \in 0 .. Digits - 1 : S = 1 .. k /\ Cardinality(S) = k
  <2>1. S \subseteq 1 .. Digits - 1  OBVIOUS
  <2>2. ASSUME NEW i \in S, NEW j \in Nat, 1 <= j, j <= i PROVE j \in S
    <3>1. i \in 1 .. Digits - 1 /\ i \in 0 .. Digits /\ j \in 1 .. Digits - 1 /\ j \in 0 .. Digits
      BY <1>1, <2>2
    <3>2. Steps(v, i)  BY <1>4, <3>1
    <3>3. Steps(v, j)  BY <2>2, <3>1, <3>2, FinerSteps
    <3>4. QED  BY <1>4, <3>1, <3>3
  <2> HIDE DEF S
  <2>3. QED  BY <1>3, <2>1, <2>2, DownClosed
<1>6. Step(first, last) = Tens[k]  BY <1>5 DEF Step
<1> HIDE DEF S, first, last
<1>7. k \in 0 .. Digits /\ k \in Nat  BY <1>1
<1>8. Steps(v, k)
  <2>1. CASE k = 0  BY <1>2, <2>1
  <2>2. CASE k # 0
    <3>1. k \in 1 .. Digits - 1 /\ k \in 1 .. k  BY <1>1, <1>7, <2>2
    <3>2. QED  BY <1>4, <1>5, <3>1
  <2>3. QED  BY <2>1, <2>2
<1>9. ASSUME NEW j \in 0 .. Digits, j > k PROVE ~Steps(v, j)
  <2>1. CASE j = Digits  BY <2>1
  <2>2. CASE j # Digits
    <3>1. j \in 1 .. Digits - 1 /\ j \notin 1 .. k  BY <1>1, <1>7, <1>9, <2>2
    <3>2. QED  BY <1>4, <1>5, <3>1
  <2>3. QED  BY <2>1, <2>2
<1>10. QED  BY <1>6, <1>7, <1>8, <1>9 DEF Coarsest, first, last

-----------------------------------------------------------------------------
(* The moments of a double are those with the coarsest step it stores,     *)
(* nearest to it.                                                          *)
Kept(v) == { t \in Near(v) - Second .. Near(v) + Second : t >= 0 /\ Stores(v, t) }

(* Nothing stored lies outside the window it is looked for in.             *)
LEMMA KeptAre ==
    ASSUME NEW v, IsDouble(v)
    PROVE  Kept(v) = { t \in Int : Earliest(v) <= t /\ t <= Latest(v) }
<1>1. /\ Earliest(v) \in Int /\ Latest(v) \in Int /\ Near(v) \in Nat /\ Second \in Nat
      /\ Earliest(v) >= 0
      /\ \A t \in Int : Stores(v, t) <=> Earliest(v) <= t /\ t <= Latest(v)
      /\ Latest(v) <= Near(v) + Second /\ Earliest(v) >= Near(v) - Second
  BY StoredRange, StoredWithin, SecondIs, DoubleNumbers
<1>2. QED  BY <1>1 DEF Kept

LEMMA MaxIs ==
    ASSUME NEW S, NEW m \in S, S \subseteq Int, \A y \in S : y <= m
    PROVE  Max(S) = m
<1>1. \A y \in S : m >= y  OBVIOUS
<1>2. Max(S) \in S /\ \A y \in S : Max(S) >= y  BY <1>1 DEF Max
<1>3. Max(S) \in Int /\ m \in Int /\ Max(S) <= m /\ m <= Max(S)
  <2> DEFINE x == Max(S)
  <2>1. x \in S /\ \A y \in S : x >= y  BY <1>2
  <2> HIDE DEF x
  <2>2. x \in Int /\ m \in Int /\ x <= m /\ x >= m  BY <2>1
  <2>3. QED  BY <2>2 DEF x
<1>4. QED  BY <1>3

(* The coarsest step is the largest with a stored multiple.               *)
LEMMA CoarsestIsMax ==
    ASSUME NEW v, IsDouble(v), NEW k \in 0 .. Digits, Coarsest(v, k)
    PROVE  Max({ p \in { Tens[j] : j \in 0 .. Digits } : \E t \in Kept(v) : t % p = 0 }) = Tens[k]
<1> DEFINE S == { p \in { Tens[j] : j \in 0 .. Digits } : \E t \in Kept(v) : t % p = 0 }
<1>1. Latest(v) \in Int /\ Earliest(v) \in Int  BY StoredRange
<1>2. ASSUME NEW j \in 0 .. Digits
      PROVE  /\ Tens[j] \in Nat \ {0} /\ j \in Nat
             /\ (\E t \in Kept(v) : t % Tens[j] = 0) <=> Steps(v, j)
  <2>1. Tens[j] \in Nat \ {0} /\ j \in Nat  BY <1>1, DayStartsEven
  <2> DEFINE low == Down(Latest(v), Tens[j])
  <2>2. /\ low \in Int /\ low <= Latest(v) /\ low % Tens[j] = 0
        /\ \A y \in Int : y % Tens[j] = 0 /\ y <= Latest(v) => y <= low
    BY <1>1, <2>1, DownIsLast
  <2>3. Steps(v, j) <=> low >= Earliest(v)  BY DEF Steps
  <2> HIDE DEF low
  <2>4. Steps(v, j) => low \in Kept(v)  BY <1>1, <2>2, <2>3, KeptAre
  <2>5. ASSUME NEW t \in Kept(v), t % Tens[j] = 0 PROVE Steps(v, j)
    <3>1. t \in Int /\ Earliest(v) <= t /\ t <= Latest(v)  BY KeptAre
    <3>2. t <= low  BY <2>2, <2>5, <3>1
    <3>3. QED  BY <1>1, <2>2, <2>3, <3>1, <3>2
  <2>6. QED  BY <2>1, <2>2, <2>4, <2>5
<1>3. Tens[k] \in S  BY <1>2 DEF Coarsest
<1>4. ASSUME NEW p \in S PROVE p \in Int /\ p <= Tens[k]
  <2>1. PICK j \in 0 .. Digits : p = Tens[j] /\ \E t \in Kept(v) : t % p = 0  OBVIOUS
  <2>2. Steps(v, j) /\ j \in Nat /\ k \in Nat /\ Tens[j] \in Nat \ {0} /\ Tens[k] \in Nat \ {0}
    BY <1>2, <2>1
  <2>3. j <= k  BY <2>2 DEF Coarsest
  <2>4. PICK c \in Nat \ {0} : Tens[k] = c * Tens[j]  BY <2>2, <2>3, TensDivide
  <2> DEFINE x == Tens[j]
  <2>5. x \in Nat /\ Tens[k] = c * x  BY <2>2, <2>4
  <2> HIDE DEF x
  <2>6. c * x >= x  BY <2>5
  <2>7. QED  BY <2>1, <2>2, <2>5, <2>6 DEF x
<1>5. S \subseteq Int /\ \A p \in S : p <= Tens[k]  BY <1>4
<1> HIDE DEF S
<1>6. Max(S) = Tens[k]  BY <1>3, <1>5, MaxIs
<1>7. QED  BY <1>6 DEF S

Nearer(v, t, u) == Size(Off(v, t)) <= Size(Off(v, u))

LEMMA MomentsAre ==
    ASSUME NEW v, IsDouble(v), NEW k \in 0 .. Digits, Coarsest(v, k),
           NEW t \in Int, Earliest(v) <= t, t <= Latest(v), t % Tens[k] = 0,
           \A u \in Int : Earliest(v) <= u /\ u <= Latest(v) /\ u % Tens[k] = 0 => Nearer(v, t, u)
    PROVE  t \in Moments(v)
<1> DEFINE step == Max({ p \in { Tens[j] : j \in 0 .. Digits } : \E u \in Kept(v) : u % p = 0 })
           fewest == IF Kept(v) = {} THEN {Near(v), Near(v) + 1} ELSE { u \in Kept(v) : u % step = 0 }
<1>1. Moments(v) = { u \in fewest : \A w \in fewest : Nearer(v, u, w) }
  BY DEF Moments, Nearer, Kept, Near
<1>2. step = Tens[k]  BY CoarsestIsMax
<1>3. t \in Kept(v)  BY KeptAre
<1>4. fewest = { u \in Kept(v) : u % Tens[k] = 0 }  BY <1>2, <1>3
<1> HIDE DEF fewest
<1>5. t \in fewest  BY <1>3, <1>4
<1>6. ASSUME NEW u \in fewest PROVE Nearer(v, t, u)
  <2>1. u \in Int /\ Earliest(v) <= u /\ u <= Latest(v) /\ u % Tens[k] = 0  BY <1>4, KeptAre
  <2>2. QED  BY <2>1
<1>7. QED  BY <1>1, <1>5, <1>6

(* A double that stores no nanosecond is one of the two it lies between.   *)
LEMMA NoMomentStored ==
    ASSUME NEW v, IsDouble(v), Earliest(v) > Latest(v),
           NEW t \in {Near(v), Near(v) + 1},
           Nearer(v, t, Near(v)), Nearer(v, t, Near(v) + 1)
    PROVE  t \in Moments(v)
<1> DEFINE step == Max({ p \in { Tens[j] : j \in 0 .. Digits } : \E u \in Kept(v) : u % p = 0 })
           fewest == IF Kept(v) = {} THEN {Near(v), Near(v) + 1} ELSE { u \in Kept(v) : u % step = 0 }
<1>1. Moments(v) = { u \in fewest : \A w \in fewest : Nearer(v, u, w) }
  BY DEF Moments, Nearer, Kept, Near
<1>2. Kept(v) = {}
  <2>1. Earliest(v) \in Int /\ Latest(v) \in Int  BY StoredRange
  <2>2. QED  BY <2>1, KeptAre
<1>3. fewest = {Near(v), Near(v) + 1}  BY <1>2
<1> HIDE DEF fewest
<1>4. QED  BY <1>1, <1>3

-----------------------------------------------------------------------------
(* On one side of the double, nearer is nearer.                            *)
LEMMA NearerIs ==
    ASSUME NEW v, IsDouble(v), NEW t \in Int, NEW u \in Int
    PROVE  /\ Off(v, t) \in Int /\ Off(v, t) = t * Scale(v) - Nanos(v)
           /\ t <= Near(v) => Off(v, t) <= 0 /\ Size(Off(v, t)) = -Off(v, t)
           /\ t > Near(v) => Off(v, t) > 0 /\ Size(Off(v, t)) = Off(v, t)
           /\ t <= u => Off(v, t) <= Off(v, u)
           /\ u <= t /\ t <= Near(v) => Nearer(v, t, u)
           /\ Near(v) < t /\ t <= u => Nearer(v, t, u)
<1> DEFINE s == Scale(v)
           N == Nanos(v)
           q == Near(v)
<1>1. s \in Nat \ {0} /\ N \in Nat /\ q \in Nat /\ q * s <= N /\ N < (q + 1) * s  BY DoubleNumbers
<1>2. /\ \A a \in Int : Off(v, a) = a * s - N
      /\ \A a \in Int : a * s \in Int
  BY <1>1 DEF Off
<1> HIDE DEF s, N, q
<1>3. ASSUME NEW a \in Int, NEW b \in Int, a <= b PROVE a * s <= b * s  BY <1>1, <1>3
<1>4. q \in Int /\ q + 1 \in Int /\ q * s \in Int /\ (q + 1) * s \in Int  BY <1>1, <1>2
<1>5. ASSUME NEW a \in Int
      PROVE  /\ Off(v, a) \in Int
             /\ a <= q => Off(v, a) <= 0 /\ Size(Off(v, a)) = -Off(v, a)
             /\ a > q => Off(v, a) > 0 /\ Size(Off(v, a)) = Off(v, a)
  <2>1. Off(v, a) = a * s - N /\ a * s \in Int  BY <1>2
  <2>2. a <= q => a * s <= q * s  BY <1>3, <1>4
  <2>3. a > q => (q + 1) * s <= a * s
    <3>1. a > q => q + 1 <= a  BY <1>1
    <3>2. QED  BY <1>3, <1>4, <3>1
  <2>4. /\ a <= q => Off(v, a) <= 0
        /\ a > q => Off(v, a) > 0
    BY <1>1, <1>4, <2>1, <2>2, <2>3
  <2>5. Off(v, a) \in Int  BY <1>1, <2>1
  <2>6. QED  BY <2>4, <2>5 DEF Size
<1>6. ASSUME NEW a \in Int, NEW b \in Int, a <= b PROVE Off(v, a) <= Off(v, b)
  BY <1>1, <1>2, <1>3, <1>6
<1>7. u <= t /\ t <= q => Nearer(v, t, u)
  <2>1. SUFFICES ASSUME u <= t, t <= q PROVE Nearer(v, t, u)  OBVIOUS
  <2>2. u <= q  BY <1>1, <2>1
  <2>3. Off(v, u) <= Off(v, t)  BY <1>6, <2>1
  <2>4. QED  BY <1>5, <2>1, <2>2, <2>3 DEF Nearer
<1>8. q < t /\ t <= u => Nearer(v, t, u)
  <2>1. SUFFICES ASSUME q < t, t <= u PROVE Nearer(v, t, u)  OBVIOUS
  <2>2. u > q  BY <1>1, <2>1
  <2>3. Off(v, t) <= Off(v, u)  BY <1>6, <2>1
  <2>4. QED  BY <1>5, <2>1, <2>2, <2>3 DEF Nearer
<1>9. QED  BY <1>2, <1>5, <1>6, <1>7, <1>8 DEF s, N, q

(* The only multiple of the coarsest step is the moment.                   *)
LEMMA OnlyMoment ==
    ASSUME NEW v, IsDouble(v), NEW k \in 0 .. Digits, Coarsest(v, k),
           Down(Latest(v), Tens[k]) - Tens[k] < Earliest(v)
    PROVE  Down(Latest(v), Tens[k]) \in Moments(v)
<1> DEFINE p == Tens[k]
           L == Latest(v)
           t == Down(L, p)
<1>1. p \in Nat \ {0} /\ L \in Int /\ Earliest(v) \in Int  BY StoredRange, DayStartsEven
<1>2. /\ t \in Int /\ t <= L /\ t % p = 0
      /\ \A y \in Int : y % p = 0 /\ y <= L => y <= t
      /\ \A y \in Int : y % p = 0 /\ y < t => y <= t - p
  BY <1>1, DownIsLast
<1>3. t >= Earliest(v) /\ t - p < Earliest(v)  BY DEF Coarsest, Steps
<1> HIDE DEF t, p, L
<1>4. ASSUME NEW u \in Int, Earliest(v) <= u, u <= L, u % p = 0 PROVE Nearer(v, t, u)
  <2>1. u <= t  BY <1>2, <1>4
  <2>2. ~(u < t)  BY <1>1, <1>2, <1>3, <1>4
  <2>3. u = t  BY <1>2, <2>1, <2>2
  <2>4. Size(Off(v, t)) \in Int  BY <1>2, NearerIs DEF Size
  <2>5. QED  BY <2>3, <2>4 DEF Nearer
<1>5. t \in Moments(v)  BY <1>2, <1>3, <1>4, MomentsAre DEF p, L
<1>6. QED  BY <1>5 DEF t, p, L

(* Of several, the nearest is.                                             *)
LEMMA NearestIsMoment ==
    ASSUME NEW v, IsDouble(v), NEW k \in 0 .. Digits, Coarsest(v, k),
           Down(Latest(v), Tens[k]) - Tens[k] >= Earliest(v)
    PROVE  LET t == Nearest(v, Tens[k], FirstStored(v), LastStored(v)) + DayStart(v)
           IN  t \in Moments(v) /\ t \in Int /\ t <= Latest(v) /\ t >= Down(Near(v), Tens[k])
<1> DEFINE p == Tens[k]
           L == Latest(v)
           E == Earliest(v)
           q == Near(v)
           D == DayStart(v)
           s == Scale(v)
           N == Nanos(v)
           first == FirstStored(v)
           last == LastStored(v)
           M == Down(q, p)
           z == Down(L, p)
           t == Nearest(v, p, first, last) + D
<1>1. /\ p \in Nat \ {0} /\ L \in Int /\ E \in Int /\ q \in Nat /\ D \in Nat /\ s \in Nat \ {0}
      /\ N \in Nat /\ E <= q + 1 /\ q <= L
  BY StoredRange, DayStartsEven, DoubleNumbers
<1>2. /\ z \in Int /\ z <= L /\ z % p = 0 /\ z >= E /\ z - p >= E
  BY <1>1, DownIsLast DEF Coarsest, Steps
<1>3. /\ M \in Int /\ M <= q /\ q < M + p /\ M % p = 0 /\ (M + p) % p = 0
      /\ \A y \in Int : y % p = 0 /\ y > M => y >= M + p
  <2>1. q \in Int /\ p \in Nat \ {0}  BY <1>1
  <2> HIDE DEF p, q
  <2>2. QED  BY <2>1, DownIsLast
<1>4. first = E - D /\ last = L - D
  <2>1. first \in Int /\ last \in Int
    <3>1. Below(v) \in Nat /\ Above(v) \in Nat  BY DoubleNumbers, SecondIs
    <3>2. QED  BY <1>1, <3>1 DEF FirstStored, LastStored
  <2>2. QED  BY <1>1, <2>1 DEF Earliest, Latest
<1>5. t = IF M < E THEN M + p ELSE IF M + p > L THEN M
          ELSE IF 2 * N > M * s + (M + p) * s THEN M + p ELSE M
  <2> DEFINE within == q - D
             down == within - (within % p)
             up == down + p
  <2>1. down = M - D  BY <1>1, DayStartsEven
  <2>2. Nearest(v, p, first, last) =
            IF down < first THEN up ELSE IF up > last THEN down
            ELSE IF 2 * N > s * (2 * D + down + up) THEN up ELSE down
    BY DEF Nearest, Near
  <2> HIDE DEF within, down, first, last, s, M, N, p, L, E, q, D
  <2>3. 2 * D + down + up = M + (M + p)  BY <1>1, <1>3, <2>1
  <2>4. s * (M + (M + p)) = M * s + (M + p) * s  BY <1>1, <1>3
  <2>5. /\ down < first <=> M < E
        /\ up > last <=> M + p > L
        /\ up + D = M + p /\ down + D = M
    BY <1>1, <1>3, <1>4, <2>1
  <2>6. QED  BY <2>2, <2>3, <2>4, <2>5
<1> HIDE DEF t, M, z, first, last, s, N, p, L, E, q, D
<1>6. ASSUME NEW x \in Int, x % p = 0, E <= x, x <= L,
             \A u \in Int : E <= u /\ u <= L /\ u % p = 0 => Nearer(v, x, u)
      PROVE  x \in Moments(v)
  BY <1>6, MomentsAre DEF p, E, L
<1>7. /\ Off(v, M) \in Int /\ Size(Off(v, M)) = -Off(v, M)
      /\ Off(v, M + p) \in Int /\ Size(Off(v, M + p)) = Off(v, M + p)
      /\ Off(v, M) = M * s - N /\ Off(v, M + p) = (M + p) * s - N
      /\ M * s \in Int /\ (M + p) * s \in Int
  <2>1. M + p \in Int /\ M + p > q  BY <1>1, <1>3
  <2>2. QED  BY <1>1, <1>3, <2>1, NearerIs DEF q, s, N
<1>8. ASSUME NEW u \in Int PROVE /\ u <= M => Nearer(v, M, u)
                                 /\ u >= M + p => Nearer(v, M + p, u)
  <2>1. M + p \in Int /\ q < M + p  BY <1>1, <1>3
  <2>2. QED  BY <1>3, <2>1, NearerIs DEF q
<1>9. CASE M < E
  <2>1. t = M + p  BY <1>5, <1>9
  <2>2. M + p \in Int /\ E <= M + p /\ M + p <= L
    <3>1. z > M  BY <1>1, <1>2, <1>3, <1>9
    <3>2. z >= M + p  BY <1>2, <1>3, <3>1
    <3>3. QED  BY <1>1, <1>2, <1>3, <3>2
  <2>3. ASSUME NEW u \in Int, E <= u, u <= L, u % p = 0 PROVE Nearer(v, M + p, u)
    <3>1. u > M  BY <1>1, <1>3, <1>9, <2>3
    <3>2. u >= M + p  BY <1>3, <2>3, <3>1
    <3>3. QED  BY <1>8, <3>2
  <2>4. M + p \in Moments(v)  BY <1>3, <1>6, <2>2, <2>3
  <2>5. QED  BY <1>1, <1>3, <2>1, <2>2, <2>4 DEF t, M, first, last, p, L, q, D
<1>10. CASE ~(M < E) /\ M + p > L
  <2>1. t = M /\ M <= L /\ E <= M  BY <1>1, <1>3, <1>5, <1>10
  <2>2. ASSUME NEW u \in Int, E <= u, u <= L, u % p = 0 PROVE Nearer(v, M, u)
    <3>1. u > M => u >= M + p  BY <1>3, <2>2
    <3>2. u <= M  BY <1>1, <1>3, <1>10, <2>2, <3>1
    <3>3. QED  BY <1>8, <3>2
  <2>3. M \in Moments(v)  BY <1>3, <1>6, <2>1, <2>2
  <2>4. QED  BY <1>1, <1>3, <2>1, <2>3 DEF t, M, first, last, p, L, q, D
<1>11. CASE ~(M < E) /\ ~(M + p > L)
  <2>1. M \in Int /\ M + p \in Int /\ E <= M /\ M <= L /\ E <= M + p /\ M + p <= L
    BY <1>1, <1>3, <1>11
  <2>2. ASSUME NEW u \in Int, u % p = 0 PROVE u <= M \/ u >= M + p
    BY <1>3, <2>2
  <2>3. CASE 2 * N > M * s + (M + p) * s
    <3>1. t = M + p  BY <1>5, <1>11, <2>3
    <3>2. Size(Off(v, M + p)) <= Size(Off(v, M))  BY <1>1, <1>7, <2>3
    <3>3. ASSUME NEW u \in Int, E <= u, u <= L, u % p = 0 PROVE Nearer(v, M + p, u)
      <4>1. CASE u >= M + p  BY <1>8, <4>1
      <4>2. CASE u <= M
        <5>1. Nearer(v, M, u)  BY <1>8, <4>2
        <5>2. Size(Off(v, u)) \in Int  BY NearerIs DEF Size
        <5>3. QED  BY <1>7, <3>2, <5>1, <5>2 DEF Nearer
      <4>3. QED  BY <2>2, <3>3, <4>1, <4>2
    <3>4. M + p \in Moments(v)  BY <1>3, <1>6, <2>1, <3>3
    <3>5. QED  BY <1>1, <1>3, <2>1, <3>1, <3>4 DEF t, M, first, last, p, L, q, D
  <2>4. CASE ~(2 * N > M * s + (M + p) * s)
    <3>1. t = M  BY <1>5, <1>11, <2>4
    <3>2. Size(Off(v, M)) <= Size(Off(v, M + p))  BY <1>1, <1>7, <2>4
    <3>3. ASSUME NEW u \in Int, E <= u, u <= L, u % p = 0 PROVE Nearer(v, M, u)
      <4>1. CASE u <= M  BY <1>8, <4>1
      <4>2. CASE u >= M + p
        <5>1. Nearer(v, M + p, u)  BY <1>8, <4>2
        <5>2. Size(Off(v, u)) \in Int  BY NearerIs DEF Size
        <5>3. QED  BY <1>7, <3>2, <5>1, <5>2 DEF Nearer
      <4>3. QED  BY <2>2, <3>3, <4>1, <4>2
    <3>4. M \in Moments(v)  BY <1>3, <1>6, <2>1, <3>3
    <3>5. QED  BY <1>1, <1>3, <2>1, <3>1, <3>4 DEF t, M, first, last, p, L, q, D
  <2>5. QED  BY <2>3, <2>4
<1>12. QED  BY <1>9, <1>10, <1>11

-----------------------------------------------------------------------------
(* Whatever the core's way to it, the time it snaps a double to is one of  *)
(* its moments, on its day or the next, and no second past it.             *)
LEMMA SnappedIsMoment ==
    ASSUME NEW v, IsDouble(v)
    PROVE  /\ Snapped(v) \in 0 .. 2 * Day - 1
           /\ Snapped(v) + DayStart(v) \in Moments(v)
           /\ (Snapped(v) + DayStart(v)) * Scale(v) <= Nanos(v) + Second * Scale(v)
<1> DEFINE L == Latest(v)
           E == Earliest(v)
           q == Near(v)
           D == DayStart(v)
           s == Scale(v)
           N == Nanos(v)
           w == Second
           first == FirstStored(v)
           last == LastStored(v)
           second == last - (last % w)
           step == Step(first, last)
           top == last - (last % step)
           snapped == Snapped(v)
           t == snapped + D
<1>1. /\ w \in Nat \ {0} /\ Day \in Nat \ {0} /\ w <= Day /\ Digits \in Nat
      /\ L \in Int /\ E \in Int /\ E >= 0 /\ q <= L /\ L <= q + w
      /\ q \in Nat /\ D \in Nat /\ s \in Nat \ {0} /\ N \in Nat
      /\ q * s <= N /\ D <= q /\ q < D + Day
  BY SecondIs, StoredRange, StoredWithin, DoubleNumbers
<1>2. w = Tens[Digits] /\ Digits \in 0 .. Digits  BY <1>1, ExcelAssumption
<1>3. first \in Int /\ last \in Int /\ first = E - D /\ last = L - D
  <2>1. first \in Int /\ last \in Int
    <3>1. Below(v) \in Nat /\ Above(v) \in Nat  BY DoubleNumbers, SecondIs
    <3>2. QED  BY <1>1, <3>1 DEF FirstStored, LastStored
  <2>2. QED  BY <1>1, <2>1 DEF Earliest, Latest
<1>4. second = Down(L, w) - D /\ Down(L, w) \in Int
  <2> HIDE DEF L, D, w, last
  <2>1. /\ (L - D) - ((L - D) % Tens[Digits]) = Down(L, Tens[Digits]) - D
        /\ Down(L, Tens[Digits]) \in Int
    BY <1>1, <1>2, DayStartsEven DEF D
  <2>2. QED  BY <1>2, <1>3, <2>1
<1>5. snapped = IF second >= first THEN second
                ELSE IF last < first THEN q - D + (IF 2 * (N % s) >= s THEN 1 ELSE 0)
                ELSE IF top - step < first THEN top ELSE Nearest(v, step, first, last)
  BY DEF Snapped, Near
(* A multiple of a step at or past a time of the day is of the day.        *)
<1>6. ASSUME NEW x \in Int, x >= q, NEW k \in 0 .. Digits PROVE Down(x, Tens[k]) >= D
  <2> DEFINE p == Tens[k]
             y == Down(D, p)
  <2>0. D \in Int  BY <1>1
  <2>1. p \in Nat \ {0} /\ (D - D) - ((D - D) % p) = y - D /\ y \in Int
    <3> HIDE DEF D
    <3>1. QED  BY <2>0, DayStartsEven DEF D
  <2>2. D % p = 0
    <3> HIDE DEF D, p, y
    <3>1. D - D = 0 /\ 0 % p = 0  BY <2>0, <2>1
    <3>2. y = D  BY <2>0, <2>1, <3>1
    <3>3. y % p = 0  BY <2>0, <2>1, DownIsLast DEF y
    <3>4. QED  BY <3>2, <3>3
  <2>3. D \in Int /\ D <= x  BY <1>1, <1>6
  <2> HIDE DEF D
  <2>4. QED  BY <2>1, <2>2, <2>3, DownIsLast DEF p
<1> HIDE DEF t, snapped, top, step, second, first, last, L, E, q, D, s, N, w
<1>7. ASSUME NEW x \in Int, D <= x, x <= q + w, t = x, x \in Moments(v), snapped \in Int
      PROVE  snapped \in 0 .. 2 * Day - 1 /\ t \in Moments(v) /\ t * s <= N + w * s
  <2>1. snapped = x - D  BY <1>1, <1>7 DEF t
  <2>2. (q + w) * s = q * s + w * s /\ q * s \in Int /\ w * s \in Int  BY <1>1
  <2>3. x * s <= (q + w) * s /\ x * s \in Int  BY <1>1, <1>7
  <2>4. QED  BY <1>1, <1>7, <2>1, <2>2, <2>3
<1>8. CASE second >= first
  <2> DEFINE x == Down(L, w)
  <2>1. x \in Int /\ t = x /\ snapped \in Int
    BY <1>1, <1>3, <1>4, <1>5, <1>8 DEF t
  <2>2. x >= E  BY <1>1, <1>3, <1>4, <1>8
  <2>3. x <= L /\ x > L - w  BY <1>1, DownIsLast
  <2>4. Coarsest(v, Digits)
    <3>1. Steps(v, Digits)  BY <1>2, <2>2 DEF Steps, L, E
    <3>2. QED  BY <1>1, <1>2, <3>1 DEF Coarsest
  <2>5. x - w < E
    <3>1. L - E < w  BY StoredWithin DEF L, E, w
    <3>2. QED  BY <1>1, <2>1, <2>3, <3>1
  <2>6. x \in Moments(v)  BY <1>2, <2>4, <2>5, OnlyMoment DEF L, E
  <2>7. D <= x
    <3>1. Down(L, Tens[Digits]) >= D  BY <1>1, <1>2, <1>6
    <3>2. QED  BY <1>2, <3>1
  <2>8. x <= q + w  BY <1>1, <2>1, <2>3
  <2> HIDE DEF x
  <2>9. QED  BY <1>7, <2>1, <2>6, <2>7, <2>8 DEF snapped, t, s, N, w, D
<1>9. ASSUME ~(second >= first) PROVE ~Steps(v, Digits)
  BY <1>1, <1>2, <1>3, <1>4, <1>9 DEF Steps, L, E
<1>10. CASE ~(second >= first) /\ last < first
  <2> DEFINE r == N % s
             x == q + (IF 2 * r >= s THEN 1 ELSE 0)
  <2>1. r \in 0 .. s - 1 /\ N - q * s = r /\ q * s \in Int
    BY <1>1, DoubleNumbers DEF N, s, q
  <2>2. t = x /\ x \in Int /\ snapped \in Int
    <3> HIDE DEF r
    <3>1. snapped = q - D + (IF 2 * r >= s THEN 1 ELSE 0)  BY <1>5, <1>10 DEF r
    <3>2. QED  BY <1>1, <3>1 DEF t
  <2> HIDE DEF r
  <2>3. /\ Off(v, q) = -r /\ Off(v, q + 1) = s - r
        /\ Size(Off(v, q)) = r /\ Size(Off(v, q + 1)) = s - r
    <3>1. q + 1 \in Int /\ q \in Int /\ (q + 1) * s = q * s + s  BY <1>1
    <3>2. Off(v, q) = q * s - N /\ Off(v, q + 1) = (q + 1) * s - N
      BY <3>1, NearerIs DEF s, N
    <3>3. Off(v, q) = -r /\ Off(v, q + 1) = s - r  BY <1>1, <2>1, <3>1, <3>2
    <3>4. QED  BY <1>1, <2>1, <3>3 DEF Size
  <2>4. x \in {q, q + 1} /\ Nearer(v, x, q) /\ Nearer(v, x, q + 1)
    BY <1>1, <2>1, <2>3 DEF Nearer
  <2>5. E > L  BY <1>1, <1>3, <1>10
  <2> HIDE DEF x
  <2>6. x \in Moments(v)  BY <2>4, <2>5, NoMomentStored DEF q, E, L
  <2>7. D <= x /\ x <= q + w  BY <1>1, <2>2, <2>4
  <2>8. QED  BY <1>7, <2>2, <2>6, <2>7 DEF snapped, t, s, N, w, D
<1>11. CASE ~(second >= first) /\ ~(last < first)
  <2>1. E <= L  BY <1>1, <1>3, <1>11
  <2>2. PICK k \in 0 .. Digits : Coarsest(v, k) /\ step = Tens[k]
    BY <1>9, <1>11, <2>1, StepIsCoarsest DEF E, L, step, first, last
  <2> DEFINE p == Tens[k]
             x == Down(L, p)
  <2>3. p \in Nat \ {0} /\ x \in Int /\ top = x - D
    <3>1. /\ Tens[k] \in Nat \ {0}
          /\ (L - D) - ((L - D) % Tens[k]) = Down(L, Tens[k]) - D
          /\ Down(L, Tens[k]) \in Int
      BY <1>1, DayStartsEven DEF D
    <3>2. QED  BY <1>3, <2>2, <3>1 DEF top
  <2>4. x <= L  BY <1>1, <2>3, DownIsLast
  <2>5. CASE top - step < first
    <3>1. t = x /\ snapped \in Int  BY <1>1, <1>5, <1>11, <2>3, <2>5 DEF t
    <3>2. x - p < E  BY <1>1, <1>3, <2>2, <2>3, <2>5
    <3>3. x \in Moments(v)  BY <2>2, <3>2, OnlyMoment DEF L, E
    <3>4. D <= x /\ x <= q + w  BY <1>1, <1>6, <2>3, <2>4
    <3> HIDE DEF x, p
    <3>5. QED  BY <1>7, <2>3, <3>1, <3>3, <3>4 DEF snapped, t, s, N, w, D
  <2>6. CASE ~(top - step < first)
    <3> DEFINE y == Nearest(v, p, first, last) + D
    <3>1. x - p >= E  BY <1>1, <1>3, <2>2, <2>3, <2>6
    <3>2. y \in Moments(v) /\ y \in Int /\ y <= L /\ y >= Down(q, p)
      BY <2>2, <3>1, NearestIsMoment DEF L, E, first, last, D, q
    <3>3. t = y  BY <1>5, <1>11, <2>2, <2>6 DEF t
    <3>4. D <= y /\ y <= q + w
      <4>1. Down(q, p) >= D /\ Down(q, p) \in Int
        <5>1. q \in Int /\ q >= q  BY <1>1
        <5>2. QED  BY <1>6, <5>1, <2>3, DownIsLast
      <4> HIDE DEF y
      <4>2. QED  BY <1>1, <3>2, <4>1
    <3>5. snapped \in Int
      <4>1. Nearest(v, p, first, last) \in Int
        <5>1. q - D \in Int /\ (q - D) % p \in Int  BY <1>1, <2>3
        <5>2. N \div s = q  BY DEF N, s, q, Near
        <5>3. QED  BY <1>1, <2>3, <5>1, <5>2 DEF Nearest, N, s, q, D, Near
      <4>2. QED  BY <1>5, <1>11, <2>2, <2>6, <4>1
    <3> HIDE DEF y, p
    <3>6. QED  BY <1>7, <3>2, <3>3, <3>4, <3>5 DEF snapped, t, s, N, w, D
  <2>7. QED  BY <2>5, <2>6
<1>12. QED  BY <1>8, <1>10, <1>11

(* A double past MaxShift is at midnight.                                  *)
LEMMA NothingIsMoment ==
    ASSUME NEW v, v.mantissa \in Nat, v.shift \in Nat, v.power \in BOOLEAN,
           8 * (v.mantissa + 1) * Day <= Scale(v)
    PROVE  0 \in Moments(v)
<1> DEFINE s == Scale(v)
           N == Nanos(v)
           w == Second
           A == Above(v)
           q == Near(v)
<1>1. /\ s \in Nat \ {0} /\ N \in Nat /\ w \in Nat \ {0} /\ A \in Nat
      /\ 2 * N <= s /\ N + A < s /\ N < s
  <2> DEFINE m == v.mantissa
             x == m * Day
  <2>1. Scale(v) \in Nat \ {0}  BY TwosAre DEF Scale
  <2>2. Second \in Nat \ {0} /\ Day \in Nat \ {0}  BY SecondIs
  <2>3. N = (4 * m) * Day /\ A = 2 * Day  BY DEF Nanos, Days4, Above
  <2>4. 8 * (m + 1) * Day <= s  OBVIOUS
  <2>5. m \in Nat  OBVIOUS
  <2> HIDE DEF m, s, N, A, w
  <2>6. x \in Nat /\ (4 * m) * Day = 4 * x /\ 8 * (m + 1) * Day = 8 * x + 8 * Day  BY <2>2, <2>5
  <2> HIDE DEF x
  <2>7. s \in Nat \ {0} /\ w \in Nat \ {0}  BY <2>1, <2>2 DEF s, w
  <2>8. QED  BY <2>2, <2>3, <2>4, <2>6, <2>7
<1>2. q = 0
  <2>1. q = N \div s  BY DEF Near
  <2> HIDE DEF N, s, q
  <2>2. QED  BY <1>1, <2>1
<1>3. ASSUME NEW t \in Int, t >= 0
      PROVE  Off(v, t) \in Int /\ Off(v, 0) = -N /\ Off(v, 1) = s - N /\ (t >= 1 => ~Stores(v, t))
  <2>1. /\ Off(v, t) = t * s - N /\ Off(v, 0) = 0 * s - N /\ Off(v, 1) = 1 * s - N  BY DEF Off
  <2>2. Stores(v, t) => Off(v, t) <= A
    <3>1. Off(v, t) \in Int /\ A \in Int  BY <1>1, <2>1
    <3>2. QED  BY <3>1 DEF Stores
  <2> HIDE DEF N, s, A
  <2>3. t * s \in Int /\ (t >= 1 => t * s >= s)  BY <1>1, <1>3
  <2>4. QED  BY <1>1, <2>1, <2>2, <2>3
<1>4. Kept(v) \subseteq {0}
  <2>1. Kept(v) \subseteq { t \in Int : t >= 0 /\ Stores(v, t) }
    <3>1. q \in Int /\ Second \in Int  BY <1>1, <1>2
    <3>2. QED  BY <3>1 DEF Kept
  <2>2. QED  BY <1>3, <2>1
<1> DEFINE S == { p \in { Tens[j] : j \in 0 .. Digits } : \E u \in Kept(v) : u % p = 0 }
           step == Max(S)
           fewest == IF Kept(v) = {} THEN {q, q + 1} ELSE { u \in Kept(v) : u % step = 0 }
<1>5. Moments(v) = { u \in fewest : \A y \in fewest : Nearer(v, u, y) }
  BY DEF Moments, Nearer, Kept, Near
<1>6. Off(v, 0) = -N /\ Off(v, 1) = s - N  BY <1>3
<1>7. Nearer(v, 0, 0) /\ Nearer(v, 0, 1)
  <2> HIDE DEF N, s
  <2>1. Size(Off(v, 0)) = N /\ Size(Off(v, 1)) = s - N  BY <1>1, <1>6 DEF Size
  <2>2. QED  BY <1>1, <2>1 DEF Nearer
<1>8. CASE Kept(v) = {}
  <2>1. fewest = {0, 1}  BY <1>2, <1>8
  <2> HIDE DEF fewest
  <2>2. QED  BY <1>5, <1>7, <2>1
<1>9. CASE Kept(v) # {}
  <2>1. Kept(v) = {0}  BY <1>4, <1>9
  <2>2. step = Second
    <3>1. Digits \in Nat /\ Second = Tens[Digits]  BY ExcelAssumption
    <3>2. \A p \in Nat \ {0} : 0 % p = 0  OBVIOUS
    <3>3. \A j \in 0 .. Digits : Tens[j] \in Nat \ {0} /\ Tens[j] <= Second
      <4> SUFFICES ASSUME NEW j \in 0 .. Digits PROVE Tens[j] \in Nat \ {0} /\ Tens[j] <= Second
        OBVIOUS
      <4>1. j \in Nat /\ j <= Digits  BY <3>1
      <4>2. Tens[j] \in Nat \ {0}  BY <4>1, TensAre
      <4>3. PICK c \in Nat \ {0} : Second = c * Tens[j]  BY <3>1, <4>1, TensDivide
      <4> DEFINE p == Tens[j]
      <4>4. p \in Nat /\ Second = c * p  BY <4>2, <4>3
      <4> HIDE DEF p
      <4>5. c * p >= p  BY <4>4
      <4>6. QED  BY <4>2, <4>4, <4>5 DEF p
    <3>4. S = { Tens[j] : j \in 0 .. Digits }  BY <2>1, <3>2, <3>3
    <3> HIDE DEF S
    <3>5. Second \in S /\ S \subseteq Int /\ \A y \in S : y <= Second  BY <3>1, <3>3, <3>4
    <3>6. QED  BY <3>5, MaxIs
  <2> HIDE DEF step
  <2>3. 0 % Second = 0  BY <1>1
  <2>4. fewest = {0}  BY <2>1, <2>2, <2>3
  <2> HIDE DEF fewest
  <2>5. QED  BY <1>5, <1>7, <2>4
<1>10. QED  BY <1>8, <1>9

-----------------------------------------------------------------------------
(* The time a double reads as, and what makes it a right answer.           *)
Time(v) == Snap(v).days * Day + Snap(v).nanos

IsMoment(v) ==
    /\ Snap(v).days \in Nat /\ Snap(v).nanos \in 0 .. Day - 1 /\ Time(v) \in Nat
    /\ Time(v) \div Day = Snap(v).days /\ Time(v) % Day = Snap(v).nanos
    /\ Time(v) \in Moments(v)
    /\ Time(v) * Scale(v) <= Nanos(v) + Second * Scale(v)

LEMMA DaysAndNanos ==
    ASSUME NEW days \in Nat, NEW nanos \in 0 .. Day - 1
    PROVE  /\ days * Day + nanos \in Nat
           /\ (days * Day + nanos) \div Day = days /\ (days * Day + nanos) % Day = nanos
<1> DEFINE t == days * Day + nanos
           Q == t \div Day
           R == t % Day
<1>1. Day \in Nat \ {0}  BY SecondIs
<1>2. days * Day \in Nat /\ nanos \in Nat /\ nanos < Day  BY <1>1
<1>3. t \in Nat  BY <1>2
<1>4. t = Day * Q + R /\ R \in 0 .. Day - 1 /\ Q \in Nat
  <2> HIDE DEF t
  <2>1. QED  BY <1>1, <1>3, Divided
<1>5. (days - Q) * Day = R - nanos
  <2>1. t = days * Day + nanos  OBVIOUS
  <2> HIDE DEF t, Q, R
  <2>2. QED  BY <1>1, <1>2, <1>4, <2>1
<1> HIDE DEF t, Q, R
<1>6. days - Q = 0
  <2> DEFINE k == days - Q
  <2>1. k \in Int /\ k * Day = R - nanos  BY <1>1, <1>4, <1>5
  <2> HIDE DEF k
  <2>2. k >= 1 => k * Day >= Day  BY <1>1, <2>1
  <2>3. k <= -1 => k * Day <= -Day  BY <1>1, <2>1
  <2>4. k = 0  BY <1>1, <1>2, <1>4, <2>1, <2>2, <2>3
  <2>5. QED  BY <2>4 DEF k
<1>7. Q = days  BY <1>4, <1>6
<1>8. R = nanos  BY <1>1, <1>2, <1>4, <1>5, <1>6
<1>9. QED  BY <1>3, <1>7, <1>8 DEF t, Q, R

LEMMA SnapIsMoment ==
    ASSUME NEW v, IsDouble(v), v.shift <= MaxShift
    PROVE  IsMoment(v)
<1> DEFINE x == Snapped(v)
<1>1. /\ WholeDays(v) \in Nat /\ DayStart(v) = WholeDays(v) * Day /\ Day \in Nat \ {0}
      /\ DayStart(v) \in Nat
  BY DoubleNumbers, SecondIs
<1>2. /\ x \in 0 .. 2 * Day - 1 /\ x + DayStart(v) \in Moments(v)
      /\ (x + DayStart(v)) * Scale(v) <= Nanos(v) + Second * Scale(v)
  BY SnappedIsMoment
<1>3. v.shift \in Nat /\ MaxShift \in Nat  BY ExcelAssumption DEF IsDouble
<1>4. /\ x >= Day => Snap(v) = [days |-> WholeDays(v) + 1, nanos |-> x - Day]
      /\ ~(x >= Day) => Snap(v) = [days |-> WholeDays(v), nanos |-> x]
  BY <1>3 DEF Snap
<1> HIDE DEF x
<1>5. /\ Snap(v).days \in Nat /\ Snap(v).nanos \in 0 .. Day - 1
      /\ Snap(v).days * Day + Snap(v).nanos = x + DayStart(v)
  <2>1. CASE x >= Day
    <3>1. Snap(v).days = WholeDays(v) + 1 /\ Snap(v).nanos = x - Day  BY <1>4, <2>1
    <3>2. (WholeDays(v) + 1) * Day = DayStart(v) + Day  BY <1>1
    <3>3. QED  BY <1>1, <1>2, <2>1, <3>1, <3>2
  <2>2. CASE ~(x >= Day)
    <3>1. Snap(v).days = WholeDays(v) /\ Snap(v).nanos = x  BY <1>4, <2>2
    <3>2. QED  BY <1>1, <1>2, <2>2, <3>1
  <2>3. QED  BY <2>1, <2>2
<1>6. /\ Time(v) \in Nat /\ Time(v) \div Day = Snap(v).days /\ Time(v) % Day = Snap(v).nanos
  BY <1>5, DaysAndNanos DEF Time
<1>7. Time(v) = x + DayStart(v)  BY <1>5 DEF Time
<1>8. QED  BY <1>2, <1>5, <1>6, <1>7 DEF IsMoment

LEMMA SnapIsNothing ==
    ASSUME NEW v, v.mantissa \in Nat, v.shift \in Nat, v.power \in BOOLEAN, v.shift > MaxShift,
           8 * (v.mantissa + 1) * Day <= Scale(v)
    PROVE  IsMoment(v)
<1>1. Snap(v) = [days |-> 0, nanos |-> 0]  BY DEF Snap
<1>2. Snap(v).days = 0 /\ Snap(v).nanos = 0  BY <1>1
<1>3. Day \in Nat \ {0} /\ Second \in Nat \ {0}  BY SecondIs
<1>4. 0 \in Nat /\ 0 \in 0 .. Day - 1  BY <1>3
<1>5. 0 * Day + 0 = 0  BY <1>3
<1>6. Time(v) = 0  BY <1>2, <1>5 DEF Time
<1>7. Time(v) \div Day = 0 /\ Time(v) % Day = 0
  BY <1>4, <1>5, DaysAndNanos, <1>6
<1>8. 0 \in Moments(v)  BY NothingIsMoment
<1>9. 0 * Scale(v) <= Nanos(v) + Second * Scale(v)
  <2>1. Scale(v) \in Nat  BY TwosAre DEF Scale
  <2>2. Nanos(v) \in Nat
    <3>1. v.mantissa * Day \in Nat /\ Nanos(v) = (4 * v.mantissa) * Day  BY <1>3 DEF Nanos, Days4
    <3>2. QED  BY <1>3, <3>1
  <2>3. Second * Scale(v) \in Nat /\ 0 * Scale(v) = 0  BY <1>3, <2>1
  <2>4. QED  BY <2>2, <2>3
<1>10. QED  BY <1>2, <1>4, <1>6, <1>7, <1>8, <1>9 DEF IsMoment

-----------------------------------------------------------------------------
(* The doubles asked for.                                                  *)
LEMMA DoublesAre ==
    ASSUME NEW v \in Doubles, v.finite
    PROVE  /\ v.shift \in Nat /\ v.mantissa \in Nat /\ v.power \in BOOLEAN /\ v.negative \in BOOLEAN
           /\ v.mantissa + 1 <= Twos[Precision + 1]
           /\ v.mantissa >= Twos[Precision] \/ v.shift > MaxShift
<1>1. /\ Precision \in Nat /\ Twos[Precision] \in Nat \ {0} /\ Twos[Precision + 1] \in Nat \ {0}
      /\ Shifts \subseteq Nat /\ MaxShift \in Nat
  BY DoublesAssumption, ExcelAssumption, TwosAre
<1>2. CASE \E b \in BOOLEAN, m \in Twos[Precision] .. Twos[Precision + 1] - 1, j \in Shifts :
              v = Double(b, m, j)
  <2>1. PICK b \in BOOLEAN, m \in Twos[Precision] .. Twos[Precision + 1] - 1, j \in Shifts :
              v = Double(b, m, j)
    BY <1>2
  <2>2. v.mantissa = m /\ v.shift = j /\ v.negative = b /\ v.power \in BOOLEAN
    BY <2>1 DEF Double
  <2>3. QED  BY <1>1, <2>1, <2>2
<1>3. CASE \E b \in BOOLEAN : v = Double(b, 0, MaxShift + 1)
  <2>1. PICK b \in BOOLEAN : v = Double(b, 0, MaxShift + 1)  BY <1>3
  <2>2. v.mantissa = 0 /\ v.shift = MaxShift + 1 /\ v.negative = b /\ v.power \in BOOLEAN
    BY <2>1 DEF Double
  <2>3. QED  BY <1>1, <2>1, <2>2
<1>4. v # [Double(FALSE, 0, 0) EXCEPT !.finite = FALSE]  BY DEF Double
<1>5. QED  BY <1>2, <1>3, <1>4 DEF Doubles

(* Whatever is not out of range reads as one of its moments.               *)
LEMMA InRangeIsMoment ==
    ASSUME NEW v \in Doubles, v.finite,
           \/ ~PastTheLast(v)
           \/ ~(Days4(v) * (Day \div Second) > WindowSeconds * Scale(v))
    PROVE  IsMoment(v)
<1> DEFINE m == v.mantissa
           s == Scale(v)
           P == Twos[Precision]
<1>1. /\ v.shift \in Nat /\ m \in Nat /\ v.power \in BOOLEAN
      /\ m + 1 <= Twos[Precision + 1]
      /\ m >= P \/ v.shift > MaxShift
  BY DoublesAre
<1>2. s \in Nat \ {0}  BY <1>1, TwosAre DEF Scale
<1>3. P \in Nat \ {0} /\ Twos[Precision + 1] \in Nat  BY DoublesAssumption, TwosAre
<1>4. /\ Second \in Nat \ {0} /\ Day \in Nat \ {0} /\ Last1900 \in Nat /\ WindowSeconds \in Nat
      /\ MaxShift \in Nat
  BY SecondIs, ExcelAssumption
<1>5. CASE v.shift > MaxShift
  <2>1. 8 * Twos[Precision + 1] * Day <= Twos[MaxShift + 1]  BY DoublesAssumption
  <2>2. Twos[MaxShift + 1] <= s  BY <1>1, <1>4, <1>5, TwosNeverFall DEF Scale
  <2>3. Twos[MaxShift + 1] \in Nat  BY <1>4, TwosAre
  <2> DEFINE B == Twos[Precision + 1]
             Z == Twos[MaxShift + 1]
  <2>4. m + 1 <= B /\ B \in Nat /\ 8 * B * Day <= Z /\ Z <= s /\ Z \in Nat
    BY <1>1, <1>3, <2>1, <2>2, <2>3
  <2> HIDE DEF m, s, B, Z
  <2>5. (m + 1) * Day <= B * Day /\ (m + 1) * Day \in Nat /\ B * Day \in Nat
    BY <1>1, <1>4, <2>4
  <2>6. 8 * (m + 1) * Day = 8 * ((m + 1) * Day) /\ 8 * B * Day = 8 * (B * Day)
    BY <1>1, <1>4, <2>4
  <2>7. 8 * (m + 1) * Day <= s  BY <1>2, <2>4, <2>5, <2>6
  <2>8. 8 * (v.mantissa + 1) * Day <= Scale(v) /\ v.mantissa \in Nat  BY <1>1, <2>7 DEF m, s
  <2>9. QED  BY <1>1, <1>5, <2>8, SnapIsNothing
<1>6. CASE ~(v.shift > MaxShift)
  <2>1. m >= P  BY <1>1, <1>6
  <2>2. 4 * Day < Second * s
    <3>1. PICK c \in Nat \ {0} : Day = c * Second  BY SecondIs
    <3>2. Days4(v) = 4 * m  BY DEF Days4
    <3>3. CASE ~PastTheLast(v)
      <4> DEFINE T == Last1900 + 1
      <4>1. ~(4 * m >= T * s)  BY <3>2, <3>3 DEF PastTheLast
      <4>2. T * Day < P * Second  BY DoublesAssumption
      <4>3. T \in Nat \ {0}  BY <1>4
      <4> HIDE DEF m, s, P, T
      <4>4. T * s \in Nat /\ 4 * m < T * s  BY <1>1, <1>2, <4>1, <4>3
      <4>5. 4 * P < T * s  BY <1>1, <1>3, <2>1, <4>4
      (* 4 Day T < 4 P w < T s w                                           *)
      <4>6. (4 * P) * Second < (T * s) * Second
        BY <1>3, <1>4, <4>4, <4>5, TimesLess
      <4>7. (4 * P) * Second = 4 * (P * Second) /\ P * Second \in Int /\ T * Day \in Int
            /\ (T * s) * Second = (Second * s) * T /\ (4 * Day) * T = 4 * (T * Day)
            /\ Second * s \in Int /\ (Second * s) * T \in Int
        BY <1>2, <1>3, <1>4, <4>3
      <4>8. (4 * Day) * T < (Second * s) * T  BY <4>2, <4>6, <4>7
      <4>9. QED  BY <1>4, <4>3, <4>7, <4>8, TimesLess
    <3>4. CASE ~(Days4(v) * (Day \div Second) > WindowSeconds * Scale(v))
      <4> DEFINE W == WindowSeconds
      <4>1. Day \div Second = c
        <5> DEFINE Q == Day \div Second
                   R == Day % Second
        <5>1. Day = Second * Q + R /\ R \in 0 .. Second - 1 /\ Q \in Nat  BY <1>4, Divided
        <5> HIDE DEF Q, R
        <5>2. (c - Q) * Second = R /\ c - Q \in Int  BY <1>4, <3>1, <5>1
        <5> DEFINE k == c - Q
        <5>3. k \in Int /\ k * Second = R  BY <5>2
        <5> HIDE DEF k
        <5>4. k >= 1 => k * Second >= Second  BY <1>4, <5>3
        <5>5. k <= -1 => k * Second <= -Second  BY <1>4, <5>3
        <5>6. k = 0  BY <1>4, <5>1, <5>3, <5>4, <5>5
        <5>7. c = Q  BY <3>1, <5>1, <5>6 DEF k
        <5>8. QED  BY <5>7 DEF Q
      <4>2. ~((4 * m) * c > W * s)  BY <3>2, <3>4, <4>1
      <4>3. W < P /\ W \in Nat  BY <1>4, DoublesAssumption
      <4>4. c \in Nat \ {0} /\ Day = c * Second  BY <3>1
      <4> HIDE DEF m, s, P, W
      <4>5. W * s < P * s /\ W * s \in Int /\ P * s \in Int  BY <1>2, <1>3, <4>3, TimesLess
      <4>6. (4 * c) * m = (4 * m) * c /\ (4 * m) * c \in Int
        BY <1>1, <4>4
      <4>7. (4 * c) * P <= (4 * c) * m /\ (4 * c) * P \in Int
        BY <1>1, <1>3, <2>1, <4>4
      <4>8. (4 * c) * P < s * P
        <5>1. s * P = P * s  BY <1>2, <1>3
        <5>2. QED  BY <4>2, <4>5, <4>6, <4>7, <5>1
      <4>9. 4 * c < s  BY <1>2, <1>3, <4>4, <4>8, TimesLess
      <4>10. (4 * c) * Second < s * Second  BY <1>2, <1>4, <4>4, <4>9, TimesLess
      <4>11. (4 * c) * Second = 4 * Day /\ s * Second = Second * s  BY <1>2, <1>4, <4>4
      <4>12. QED  BY <4>10, <4>11
    <3>5. QED  BY <3>3, <3>4
  <2>3. IsDouble(v)  BY <1>1, <1>3, <2>1, <2>2 DEF IsDouble
  <2>4. QED  BY <1>1, <1>4, <1>6, <2>3, SnapIsMoment
<1>7. QED  BY <1>5, <1>6

-----------------------------------------------------------------------------
(* SnapsToTheFewestDigits of what one double's door answers.               *)
ReadsAs(v, door, epoch, answer) ==
    LET dateOf(t) == CivilOfSerial(t \div Day, epoch)
    IN  CASE answer.kind = "duration" ->
               Size(answer.seconds * Second + answer.nanos) \in Moments(v)
          [] answer.kind = "time" -> \E t \in Moments(v) : t % Day = answer.nanos
          [] answer.kind = "civil" ->
               \E t \in Moments(v) : t % Day = answer.nanos /\ dateOf(t) = answer.date
          [] answer = OutOfRange /\ door = "serial" /\ ~PastTheLast(v) ->
               \E t \in Moments(v) : dateOf(t) = OutOfRange
          [] answer = OutOfRange /\ (door # "serial" \/ PastTheLast(v)) ->
               Nanos(v) >= Scale(v) * (IF door = "span" THEN WindowSeconds * Second
                                       ELSE (Last1900 + 1) * Day)
          [] answer = Malformed -> door # "span" /\ Negative(v)

LEMMA Refusals ==
    /\ OutOfRange.kind = "fault" /\ Malformed.kind = "fault" /\ OutOfRange # Malformed
    BY DEF OutOfRange, Malformed, Refused

LEMMA ReadsMalformed ==
    ASSUME NEW v, NEW door, NEW epoch, door # "span", Negative(v)
    PROVE  ReadsAs(v, door, epoch, Malformed)
<1>1. Malformed # OutOfRange /\ Malformed = Malformed  BY Refusals
<1>2. Malformed.kind # "duration" /\ Malformed.kind # "time" /\ Malformed.kind # "civil"  BY Refusals
<1>3. QED  BY <1>1, <1>2, Zenon DEF ReadsAs

LEMMA PastIsFar ==
    ASSUME NEW v \in Doubles, v.finite, PastTheLast(v)
    PROVE  Nanos(v) >= Scale(v) * ((Last1900 + 1) * Day)
<1> DEFINE T == Last1900 + 1
           s == Scale(v)
           x == Days4(v)
<1>1. v.mantissa \in Nat /\ v.shift \in Nat  BY DoublesAre
<1>2. s \in Nat \ {0} /\ x \in Nat  BY <1>1, TwosAre DEF Scale, Days4
<1>3. T \in Nat /\ Day \in Nat \ {0}  BY SecondIs, ExcelAssumption
<1>4. x >= T * s  BY DEF PastTheLast
<1> HIDE DEF T, s, x
<1>5. T * s \in Nat  BY <1>2, <1>3
<1>6. x * Day >= (T * s) * Day
  <2> DEFINE g == T * s
  <2>1. g \in Nat /\ x >= g  BY <1>4, <1>5
  <2> HIDE DEF g
  <2>2. x * Day >= g * Day  BY <1>2, <1>3, <2>1
  <2>3. QED  BY <2>2 DEF g
<1>7. (T * s) * Day = s * (T * Day)  BY <1>2, <1>3
<1>8. Nanos(v) = x * Day  BY DEF Nanos, x
<1>9. QED  BY <1>6, <1>7, <1>8 DEF T, s

LEMMA ReadsOutOfRange ==
    ASSUME NEW v, NEW door, NEW epoch,
           IF door = "serial" /\ ~PastTheLast(v)
           THEN \E t \in Moments(v) : CivilOfSerial(t \div Day, epoch) = OutOfRange
           ELSE Nanos(v) >= Scale(v) * (IF door = "span" THEN WindowSeconds * Second
                                        ELSE (Last1900 + 1) * Day)
    PROVE  ReadsAs(v, door, epoch, OutOfRange)
<1>1. OutOfRange # Malformed /\ OutOfRange = OutOfRange  BY Refusals
<1>2. OutOfRange.kind # "duration" /\ OutOfRange.kind # "time" /\ OutOfRange.kind # "civil"
  BY Refusals
<1>3. CASE door = "serial" /\ ~PastTheLast(v)
  <2>1. \E t \in Moments(v) : CivilOfSerial(t \div Day, epoch) = OutOfRange  BY <1>3
  <2>2. QED  BY <1>1, <1>2, <1>3, <2>1, Zenon DEF ReadsAs
<1>4. CASE door # "serial" \/ PastTheLast(v)
  <2>1. Nanos(v) >= Scale(v) * (IF door = "span" THEN WindowSeconds * Second
                                ELSE (Last1900 + 1) * Day)
    BY <1>4
  <2>2. ~(door = "serial" /\ ~PastTheLast(v))  BY <1>4
  <2>3. QED  BY <1>1, <1>2, <1>4, <2>1, <2>2, Zenon DEF ReadsAs
<1>5. QED  BY <1>3, <1>4

(* What each door answers is right, whatever the finite double.            *)
LEMMA SerialReads ==
    ASSUME NEW v \in Doubles, v.finite, NEW epoch
    PROVE  ReadsAs(v, "serial", epoch, ExcelSerialFromFloat64(v, epoch))
<1>1. CASE Negative(v)
  <2>1. ExcelSerialFromFloat64(v, epoch) = Malformed  BY <1>1 DEF ExcelSerialFromFloat64
  <2>2. QED  BY <1>1, <2>1, ReadsMalformed
<1>2. CASE ~Negative(v) /\ PastTheLast(v)
  <2>1. ExcelSerialFromFloat64(v, epoch) = OutOfRange  BY <1>2 DEF ExcelSerialFromFloat64
  <2>2. QED  BY <1>2, <2>1, PastIsFar, ReadsOutOfRange
<1>3. CASE ~Negative(v) /\ ~PastTheLast(v)
  <2> DEFINE t == Time(v)
             date == CivilOfSerial(Snap(v).days, epoch)
  <2>1. t \in Moments(v) /\ t \div Day = Snap(v).days /\ t % Day = Snap(v).nanos
    BY <1>3, InRangeIsMoment DEF IsMoment
  <2>2. CivilOfSerial(t \div Day, epoch) = date  BY <2>1
  <2>3. ExcelSerialFromFloat64(v, epoch) =
          IF date = OutOfRange THEN date
          ELSE [kind |-> "civil", date |-> date, nanos |-> Snap(v).nanos]
    BY <1>3 DEF ExcelSerialFromFloat64
  <2> HIDE DEF t, date
  <2>4. CASE date = OutOfRange
    <3>1. ExcelSerialFromFloat64(v, epoch) = OutOfRange  BY <2>3, <2>4
    <3>2. \E u \in Moments(v) : CivilOfSerial(u \div Day, epoch) = OutOfRange  BY <2>1, <2>2, <2>4
    <3>3. QED  BY <1>3, <3>1, <3>2, ReadsOutOfRange
  <2>5. CASE date # OutOfRange
    <3> DEFINE answer == ExcelSerialFromFloat64(v, epoch)
    <3>1. answer.kind = "civil" /\ answer.date = date /\ answer.nanos = Snap(v).nanos
      BY <2>3, <2>5
    <3>2. \E u \in Moments(v) : u % Day = answer.nanos /\ CivilOfSerial(u \div Day, epoch) = answer.date
      BY <2>1, <2>2, <3>1
    <3>3. answer # OutOfRange /\ answer # Malformed  BY <3>1, Refusals
    <3>4. answer.kind # "duration" /\ answer.kind # "time"  BY <3>1
    <3> HIDE DEF answer
    <3>5. ReadsAs(v, "serial", epoch, answer)  BY <3>1, <3>2, <3>3, <3>4, Zenon DEF ReadsAs
    <3>6. QED  BY <3>5 DEF answer
  <2>6. QED  BY <2>4, <2>5
<1>4. QED  BY <1>1, <1>2, <1>3

LEMMA TimeReads ==
    ASSUME NEW v \in Doubles, v.finite, NEW epoch
    PROVE  ReadsAs(v, "time", epoch, ExcelTime(v))
<1>1. CASE Negative(v)
  <2>1. ExcelTime(v) = Malformed  BY <1>1 DEF ExcelTime
  <2>2. QED  BY <1>1, <2>1, ReadsMalformed
<1>2. CASE ~Negative(v) /\ PastTheLast(v)
  <2>1. ExcelTime(v) = OutOfRange  BY <1>2 DEF ExcelTime
  <2>2. QED  BY <1>2, <2>1, PastIsFar, ReadsOutOfRange
<1>3. CASE ~Negative(v) /\ ~PastTheLast(v)
  <2> DEFINE answer == ExcelTime(v)
  <2>1. Time(v) \in Moments(v) /\ Time(v) % Day = Snap(v).nanos
    BY <1>3, InRangeIsMoment DEF IsMoment
  <2>2. answer = [kind |-> "time", nanos |-> Snap(v).nanos]  BY <1>3 DEF ExcelTime
  <2>3. answer.kind = "time" /\ answer.nanos = Snap(v).nanos  BY <2>2
  <2> HIDE DEF answer
  <2>4. answer # OutOfRange /\ answer # Malformed  BY <2>3, Refusals
  <2>5. answer.kind # "duration" /\ answer.kind # "civil"  BY <2>3
  <2>6. \E t \in Moments(v) : t % Day = answer.nanos  BY <2>1, <2>3
  <2>7. ReadsAs(v, "time", epoch, answer)  BY <2>3, <2>4, <2>5, <2>6, Zenon DEF ReadsAs
  <2>8. QED  BY <2>7 DEF answer
<1>4. QED  BY <1>1, <1>2, <1>3

LEMMA SpanReads ==
    ASSUME NEW v \in Doubles, v.finite, NEW epoch
    PROVE  ReadsAs(v, "span", epoch, ExcelDuration(v))
<1> DEFINE W == WindowSeconds
           w == Second
           s == Scale(v)
           x == Days4(v)
           t == Time(v)
           sign == IF Negative(v) THEN -1 ELSE 1
           answer == ExcelDuration(v)
<1>1. v.mantissa \in Nat /\ v.shift \in Nat  BY DoublesAre
<1>2. s \in Nat \ {0} /\ x \in Nat  BY <1>1, TwosAre DEF Scale, Days4
<1>3. W \in Nat /\ w \in Nat \ {0} /\ Day \in Nat \ {0}  BY SecondIs, ExcelAssumption
<1>4. Nanos(v) = x * Day  BY DEF Nanos
<1>5. answer = IF x * (Day \div w) > W * s \/ t >= (W + 1) * w THEN OutOfRange
               ELSE [ kind |-> "duration", seconds |-> sign * (t \div w), nanos |-> sign * (t % w) ]
  BY DEF ExcelDuration, Time
<1>6. ASSUME x * (Day \div w) > W * s \/ t >= (W + 1) * w, Nanos(v) >= s * (W * w)
      PROVE  ReadsAs(v, "span", epoch, answer)
  <2>1. answer = OutOfRange  BY <1>5, <1>6
  <2>2. Nanos(v) >= Scale(v) * (WindowSeconds * Second)  BY <1>6
  <2> HIDE DEF answer
  <2>3. QED  BY <2>1, <2>2, ReadsOutOfRange
<1>7. CASE x * (Day \div w) > W * s
  <2> DEFINE Q == Day \div w
  <2>1. Day = w * Q + (Day % w) /\ Q \in Nat /\ Day % w \in 0 .. w - 1  BY <1>3, Divided
  <2>2. Day % w = 0  BY ExcelAssumption
  <2>3. x * Q > W * s  BY <1>7
  <2> HIDE DEF Q, W, w, s, x
  <2>4. x * Q \in Int /\ W * s \in Int  BY <1>2, <1>3, <2>1
  <2>5. (W * s) * w < (x * Q) * w  BY <1>3, <2>3, <2>4, TimesLess
  <2>6. (x * Q) * w = x * (w * Q) /\ (W * s) * w = s * (W * w)  BY <1>2, <1>3, <2>1
  <2>7. w * Q = Day  BY <1>3, <2>1, <2>2
  <2>8. s * (W * w) < x * Day  BY <2>5, <2>6, <2>7
  <2>9. Nanos(v) >= s * (W * w)
    <3>1. s * (W * w) \in Int /\ x * Day \in Int  BY <1>2, <1>3
    <3>2. QED  BY <1>4, <2>8, <3>1
  <2>10. QED  BY <1>6, <1>7, <2>9
<1>8. CASE ~(x * (Day \div w) > W * s)
  <2>1. /\ t \in Nat /\ t \in Moments(v) /\ t * s <= Nanos(v) + w * s
    BY <1>8, InRangeIsMoment DEF IsMoment
  <2>2. CASE t >= (W + 1) * w
    <3> HIDE DEF t, W, w, s, x, answer
    <3>1. ((W + 1) * w) * s <= t * s
      <4> DEFINE g == (W + 1) * w
      <4>1. g \in Nat /\ g <= t  BY <1>3, <2>2
      <4> HIDE DEF g
      <4>2. g * s <= t * s  BY <1>2, <2>1, <4>1
      <4>3. QED  BY <4>2 DEF g
    <3>2. ((W + 1) * w) * s = s * (W * w) + w * s  BY <1>2, <1>3
    <3>3. s * (W * w) \in Int /\ w * s \in Int /\ t * s \in Int /\ Nanos(v) \in Int
      BY <1>2, <1>3, <1>4, <2>1
    <3>4. Nanos(v) >= s * (W * w)
      <4> DEFINE p1 == s * (W * w)
                 p2 == w * s
                 p3 == t * s
                 p4 == Nanos(v)
      <4>1. p1 \in Int /\ p2 \in Int /\ p3 \in Int /\ p4 \in Int  BY <3>3
      <4>2. p1 + p2 <= p3 /\ p3 <= p4 + p2  BY <2>1, <3>1, <3>2
      <4> HIDE DEF p1, p2, p3, p4
      <4>3. p4 >= p1  BY <4>1, <4>2
      <4>4. QED  BY <4>3 DEF p4, p1
    <3>5. QED  BY <1>6, <2>2, <3>4 DEF answer
  <2>3. CASE ~(t >= (W + 1) * w)
    <3>1. answer = [ kind |-> "duration", seconds |-> sign * (t \div w), nanos |-> sign * (t % w) ]
      BY <1>5, <1>8, <2>3
    <3> HIDE DEF answer
    <3>2. /\ answer.kind = "duration"
          /\ answer.seconds = sign * (t \div w) /\ answer.nanos = sign * (t % w)
      BY <3>1
    <3>3. Size(answer.seconds * w + answer.nanos) = t
      <4> DEFINE Q == t \div w
                 R == t % w
      <4>1. sign \in {-1, 1}  OBVIOUS
      <4> HIDE DEF t, w, sign
      <4>2. t = w * Q + R /\ Q \in Nat /\ R \in 0 .. w - 1  BY <1>3, <2>1, Divided
      <4>3. answer.seconds = sign * Q /\ answer.nanos = sign * R  BY <3>2
      <4> HIDE DEF Q, R
      <4>4. w * Q \in Nat /\ R \in Nat /\ Q * w = w * Q /\ (-Q) * w = -(w * Q)  BY <1>3, <4>2
      <4>5. CASE sign = 1
        <5>1. answer.seconds = Q /\ answer.nanos = R  BY <4>2, <4>3, <4>5, <4>4
        <5>2. answer.seconds * w + answer.nanos = t  BY <4>2, <4>4, <5>1
        <5>3. QED  BY <2>1, <5>2 DEF Size
      <4>6. CASE sign = -1
        <5>1. answer.seconds = -Q /\ answer.nanos = -R  BY <4>2, <4>3, <4>6, <4>4
        <5>2. answer.seconds * w + answer.nanos = -t  BY <4>2, <4>4, <5>1
        <5>3. QED  BY <2>1, <5>2 DEF Size
      <4>7. QED  BY <4>1, <4>5, <4>6
    <3>4. answer # OutOfRange /\ answer # Malformed  BY <3>2, Refusals
    <3>5. Size(answer.seconds * Second + answer.nanos) \in Moments(v)  BY <2>1, <3>3
    <3>6. answer.kind # "time" /\ answer.kind # "civil"  BY <3>2
    <3>7. ReadsAs(v, "span", epoch, answer)  BY <3>2, <3>4, <3>5, <3>6, Zenon DEF ReadsAs
    <3>8. QED  BY <3>7 DEF answer
  <2>4. QED  BY <2>2, <2>3
<1>9. QED  BY <1>7, <1>8

-----------------------------------------------------------------------------
DoubleDoors == {"serial", "time", "span"}

DoubleInv ==
    asked.kind = "double" =>
        /\ asked.v \in Doubles /\ asked.door \in DoubleDoors
        /\ result # Nothing =>
             result = CASE asked.door = "serial" -> ExcelSerialFromFloat64(asked.v, asked.epoch)
                        [] asked.door = "time"   -> ExcelTime(asked.v)
                        [] asked.door = "span"   -> ExcelDuration(asked.v)

LEMMA DoubleInit == MCInit => DoubleInv
<1> SUFFICES ASSUME MCInit PROVE DoubleInv  OBVIOUS
<1>1. result = Nothing  BY DEF MCInit, AskedToConvert, AskedToRender
<1>2. CASE \E x \in Durations : asked = [kind |-> "duration", d |-> x]
  <2>1. asked.kind = "duration"  BY <1>2
  <2>2. QED  BY <2>1 DEF DoubleInv
<1>3. CASE \E v \in Doubles, door \in {"serial", "time", "span"}, epoch \in 1 .. 2 :
              asked = [kind |-> "double", v |-> v, door |-> door, epoch |-> epoch]
  <2>1. PICK v \in Doubles, door \in {"serial", "time", "span"}, epoch \in 1 .. 2 :
              asked = [kind |-> "double", v |-> v, door |-> door, epoch |-> epoch]
    BY <1>3
  <2>2. asked.v = v /\ asked.door = door  BY <2>1
  <2>3. asked.v \in Doubles /\ asked.door \in DoubleDoors  BY <2>2 DEF DoubleDoors
  <2>4. QED  BY <1>1, <2>3, Zenon DEF DoubleInv
<1>4. CASE \E epoch \in 1 .. 2, y \in Years :
              asked = [ kind |-> "cell", epoch |-> epoch, serial |-> FirstDay(epoch, y),
                        date |-> Date(y, 1, 1) ]
  <2>1. asked.kind = "cell"  BY <1>4
  <2>2. QED  BY <2>1 DEF DoubleInv
<1>5. CASE asked = [kind |-> "decimal"]
  <2>1. asked.kind = "decimal"  BY <1>5
  <2>2. QED  BY <2>1 DEF DoubleInv
<1>6. QED
  <2>1. CASE AskedToConvert  BY <1>2, <1>3, <1>4, <2>1 DEF AskedToConvert
  <2>2. CASE AskedToRender  BY <1>5, <2>2 DEF AskedToRender
  <2>3. QED  BY <2>1, <2>2 DEF MCInit

LEMMA DoubleNext == DoubleInv /\ [MCNext]_<<asked, result, vars>> => DoubleInv'
<1> SUFFICES ASSUME DoubleInv, [MCNext]_<<asked, result, vars>> PROVE DoubleInv'
  OBVIOUS
<1>1. CASE ConvertDuration
  <2>1. asked.kind = "duration" /\ asked' = asked  BY <1>1 DEF ConvertDuration, Answer
  <2>2. QED  BY <2>1 DEF DoubleInv
<1>2. CASE ReadDouble
  <2>1. /\ asked.kind = "double" /\ asked' = asked
        /\ result' = CASE asked.door = "serial" -> ExcelSerialFromFloat64(asked.v, asked.epoch)
                       [] asked.door = "time"   -> ExcelTime(asked.v)
                       [] asked.door = "span"   -> ExcelDuration(asked.v)
    BY <1>2, Zenon DEF ReadDouble, Answer
  <2>2. QED  BY <2>1, Zenon DEF DoubleInv
<1>3. CASE ReadCell
  <2>1. asked.kind = "cell" /\ asked' = asked  BY <1>3 DEF ReadCell, Answer
  <2>2. QED  BY <2>1 DEF DoubleInv
<1>4. CASE NextCell
  <2>1. asked'.kind = "cell"  BY <1>4 DEF NextCell
  <2>2. QED  BY <2>1 DEF DoubleInv
<1>5. CASE Render
  <2>1. asked' = asked /\ result' = result  BY <1>5 DEF Render
  <2>2. QED  BY <2>1, Zenon DEF DoubleInv
<1>6. CASE UNCHANGED <<asked, result, vars>>
  <2>1. asked' = asked /\ result' = result  BY <1>6
  <2>2. QED  BY <2>1, Zenon DEF DoubleInv
<1>7. QED  BY <1>1, <1>2, <1>3, <1>4, <1>5, <1>6 DEF MCNext

LEMMA DoublesReadRight == DoubleInv => SnapsToTheFewestDigits
<1> SUFFICES ASSUME DoubleInv, asked.kind = "double", result # Nothing, asked.v.finite
             PROVE  ReadsAs(asked.v, asked.door, asked.epoch, result)
  BY Zenon DEF SnapsToTheFewestDigits, Answered, ReadsAs
<1>1. asked.v \in Doubles /\ asked.door \in DoubleDoors  BY Zenon DEF DoubleInv
<1>2. CASE asked.door = "serial"
  <2>1. asked.door # "time" /\ asked.door # "span"  BY <1>2
  <2>2. result = ExcelSerialFromFloat64(asked.v, asked.epoch)  BY <1>2, <2>1, Zenon DEF DoubleInv
  <2>3. QED  BY <1>1, <1>2, <2>2, SerialReads
<1>3. CASE asked.door = "time"
  <2>1. asked.door # "serial" /\ asked.door # "span"  BY <1>3
  <2>2. result = ExcelTime(asked.v)  BY <1>3, <2>1, Zenon DEF DoubleInv
  <2>3. QED  BY <1>1, <1>3, <2>2, TimeReads
<1>4. CASE asked.door = "span"
  <2>1. asked.door # "serial" /\ asked.door # "time"  BY <1>4
  <2>2. result = ExcelDuration(asked.v)  BY <1>4, <2>1, Zenon DEF DoubleInv
  <2>3. QED  BY <1>1, <1>4, <2>2, SpanReads
<1>5. QED  BY <1>1, <1>2, <1>3, <1>4 DEF DoubleDoors

(* ExcelSerialFromFloat64, ExcelTime and ExcelDuration read a float64 as a *)
(* time with the fewest fractional-second digits among those it stores,    *)
(* the nearest of them, and refuse only what is out of range, whatever the *)
(* precision, the step and the window (cast.go and the core's fn125).      *)
THEOREM SnapsToTheFewestDigitsHolds == MCSpec => []SnapsToTheFewestDigits
<1>1. MCInit => DoubleInv  BY DoubleInit
<1>2. DoubleInv /\ [MCNext]_<<asked, result, vars>> => DoubleInv'  BY DoubleNext
<1>3. DoubleInv => SnapsToTheFewestDigits  BY DoublesReadRight
<1>4. QED  BY <1>1, <1>2, <1>3, PTL DEF MCSpec
===============================================================================
