-------------------------- MODULE ConstraintsProofs --------------------------
(***************************************************************************)
(* First what the core's judgement of a number and of a text promises, for *)
(* every declaration and value: how a number is rounded, that what is      *)
(* delivered meets the rules and a rejection names one that is broken, and *)
(* that an enum list reads back as it was packed.  Then what               *)
(* NewConstraints and the checked doors promise, whatever the rules, their *)
(* number, their order and the values asked about: a checked door hands    *)
(* the core only what the core accepted, NewConstraints accepts exactly    *)
(* the rules that mean something, and what a checked door answers is true  *)
(* of the rules as they were declared.                                     *)
(***************************************************************************)
EXTENDS Constraints, SequenceLemmas

(* n is a whole number of steps.                                           *)
Multiple(n, step) == \E k \in Int : n = step * k

(* How far each mode may move a number: down, up, or half a step.          *)
NearAsDeclared(n, v, step, mode) ==
    /\ n - v < step /\ v - n < step
    /\ mode \in {Strict, Floor} => n <= v
    /\ mode = Ceiling => n >= v
    /\ mode = Midpoint => 2 * (n - v) <= step /\ 2 * (v - n) <= step

(* Rounding leaves a whole number of steps, as near as the mode allows.    *)
THEOREM RoundedIsAStep ==
    ASSUME NEW v \in Int, NEW step \in Nat \ {0}, NEW mode \in 0..3
    PROVE  /\ Rounded(v, step, mode) \in Int
           /\ Multiple(Rounded(v, step, mode), step)
           /\ NearAsDeclared(Rounded(v, step, mode), v, step, mode)
<1> DEFINE low == v \div step
           rest == v % step
           up == \/ mode = Ceiling /\ 2 * rest # 0
                 \/ mode = Midpoint /\ (2 * rest > step \/ (2 * rest = step /\ low % 2 = 1))
<1>1. low \in Int /\ rest \in Int /\ v = step * low + rest /\ 0 <= rest /\ rest < step
  OBVIOUS
<1>2. low + 1 \in Int /\ step * low \in Int /\ step * (low + 1) = step * low + step
  BY <1>1
<1>3. Rounded(v, step, mode) = step * (IF up THEN low + 1 ELSE low)
  BY DEF Rounded
<1>4. Rounded(v, step, mode) \in Int /\ Multiple(Rounded(v, step, mode), step)
  <2> HIDE DEF low, up
  <2>1. Rounded(v, step, mode) \in {step * low, step * (low + 1)}
    BY <1>3
  <2>2. \A k \in Int : step * k \in Int /\ Multiple(step * k, step)
    BY DEF Multiple
  <2>3. QED  BY <1>1, <1>2, <2>1, <2>2
<1>5. ASSUME up PROVE NearAsDeclared(Rounded(v, step, mode), v, step, mode)
  <2>1. Rounded(v, step, mode) = step * low + step  BY <1>2, <1>3, <1>5
  <2>2. rest # 0 /\ (mode = Ceiling \/ (mode = Midpoint /\ 2 * rest >= step))
    BY <1>1, <1>5
  <2> HIDE DEF low, rest, up
  <2>3. QED  BY <1>1, <1>2, <2>1, <2>2 DEF NearAsDeclared, Strict, Midpoint, Floor, Ceiling
<1>6. ASSUME ~up PROVE NearAsDeclared(Rounded(v, step, mode), v, step, mode)
  <2>1. Rounded(v, step, mode) = step * low  BY <1>2, <1>3, <1>6
  <2>2. (mode = Ceiling => rest = 0) /\ (mode = Midpoint => 2 * rest <= step)
    BY <1>1, <1>6
  <2> HIDE DEF low, rest, up
  <2>3. QED  BY <1>1, <1>2, <2>1, <2>2 DEF NearAsDeclared, Strict, Midpoint, Floor, Ceiling
<1>7. QED  BY <1>4, <1>5, <1>6

(* A multiple of the step has no remainder.                                *)
LEMMA MultipleDivides ==
    ASSUME NEW k \in Int, NEW step \in Nat \ {0}
    PROVE  (step * k) % step = 0 /\ (step * k) \div step = k
<1> DEFINE n == step * k
           low == n \div step
           rest == n % step
<1>1. n \in Int  OBVIOUS
<1> HIDE DEF n
<1>2. low \in Int /\ rest \in Int /\ n = step * low + rest /\ 0 <= rest /\ rest < step
  BY <1>1
<1> HIDE DEF low, rest
<1>3. rest = step * (k - low)
  BY <1>2 DEF n
<1>4. k - low < 1
  <2>1. ASSUME k - low >= 1 PROVE step * (k - low) >= step
    BY <1>2, <2>1
  <2>2. QED  BY <1>2, <1>3, <2>1
<1>5. k - low > -1
  <2>1. ASSUME k - low <= -1 PROVE step * (k - low) <= -step
    BY <1>2, <2>1
  <2>2. QED  BY <1>2, <1>3, <2>1
<1>6. k = low  BY <1>2, <1>4, <1>5
<1>7. rest = 0  BY <1>2, <1>3, <1>6
<1>8. QED  BY <1>6, <1>7 DEF n, low, rest

(* What is a multiple already is left alone, and a tie of Midpoint's goes  *)
(* to the even multiple.                                                   *)
LEMMA RoundedTies ==
    ASSUME NEW v \in Int, NEW step \in Nat \ {0}, NEW mode \in 0..3
    PROVE  /\ Rounded(v, step, mode) % step = 0
           /\ v % step = 0 => Rounded(v, step, mode) = v
           /\ LET moved == Rounded(v, step, mode) - v
              IN  mode = Midpoint /\ 2 * moved \in {-step, step} =>
                    (Rounded(v, step, mode) \div step) % 2 = 0
<1> DEFINE low == v \div step
           rest == v % step
           up == \/ mode = Ceiling /\ 2 * rest # 0
                 \/ mode = Midpoint /\ (2 * rest > step \/ (2 * rest = step /\ low % 2 = 1))
           k == IF up THEN low + 1 ELSE low
           n == Rounded(v, step, mode)
<1>1. low \in Int /\ rest \in Int /\ v = step * low + rest /\ 0 <= rest /\ rest < step
  OBVIOUS
<1>2. n = step * k
  BY DEF Rounded
<1>3. up <=> \/ mode = Ceiling /\ 2 * rest # 0
             \/ mode = Midpoint /\ (2 * rest > step \/ (2 * rest = step /\ low % 2 = 1))
  OBVIOUS
<1> HIDE DEF low, rest, up, n
<1>4. k \in Int  BY <1>1
<1>5. n % step = 0 /\ n \div step = k  BY <1>2, <1>4, MultipleDivides
<1>6. rest = 0 => n = v
  <2>1. rest = 0 => ~up  BY <1>1, <1>3
  <2>2. QED  BY <1>1, <1>2, <2>1
<1>7. ASSUME mode = Midpoint, 2 * (n - v) \in {-step, step} PROVE k % 2 = 0
  <2>1. step * (low + 1) = step * low + step /\ step * low \in Int  BY <1>1
  <2>2. CASE up
    <3>1. n - v = step - rest  BY <1>1, <1>2, <2>1, <2>2
    <3>2. 2 * rest = step  BY <1>1, <1>7, <3>1
    <3>3. low % 2 = 1
      <4>1. ~(2 * rest > step) /\ mode # Ceiling  BY <1>1, <1>7, <3>2 DEF Ceiling, Midpoint
      <4>2. QED  BY <1>3, <2>2, <4>1
    <3>4. QED  BY <1>1, <2>2, <3>3
  <2>3. CASE ~up
    <3>1. n - v = -rest  BY <1>1, <1>2, <2>1, <2>3
    <3>2. 2 * rest = step  BY <1>1, <1>7, <3>1
    <3>3. low % 2 # 1  BY <1>3, <1>7, <2>3, <3>2
    <3>4. QED  BY <1>1, <2>3, <3>3
  <2>4. QED  BY <2>2, <2>3
<1>8. QED  BY <1>5, <1>6, <1>7 DEF n, rest

-----------------------------------------------------------------------------
(* A declaration the core accepted, as far as JudgeNumber reads it.        *)
Declaration(c) ==
    /\ c.lower \in DOMAIN FloatOf /\ c.upper \in DOMAIN FloatOf
    /\ c.rounding \in 0..3
    /\ "multipleOf" \in c.flags => c.multipleOf \in Nat \ {0}

(* Every declared bound holds of n, its limits as given.                   *)
InBounds(c, n, limits) ==
    \A kind \in c.flags \cap (Lowers \cup Uppers) : Within(kind, n, limits[Bounds[kind]])

Limits(c) == [lower |-> FloatOf[c.lower], upper |-> FloatOf[c.upper]]

LEMMA NotBroken ==
    ASSUME NEW c, NEW n, NEW limits, Broken(c.flags, n, limits) = {}
    PROVE  InBounds(c, n, limits)
  BY DEF Broken, InBounds

(* What is delivered came of an exact decimal every declared rule holds    *)
(* of: in the bounds, a whole number of steps as near as the mode allows,  *)
(* listed when there is a list, held by the door's type; and at a float    *)
(* door the float of it is in the bounds as floats too.                    *)
THEOREM DeliveredMeetsTheRules ==
    ASSUME NEW through \in {"integer", "float", "decimal"},
           NEW c, Declaration(c), NEW v \in Int,
           JudgeNumber(through, c, v).status = "value"
    PROVE  LET n == Exact(c, v)
               out == JudgeNumber(through, c, v)
           IN  /\ InBounds(c, n, c)
               /\ "multipleOf" \in c.flags =>
                     /\ Multiple(n, c.multipleOf)
                     /\ NearAsDeclared(n, v, c.multipleOf, c.rounding)
               /\ "multipleOf" \notin c.flags => n = v
               /\ "enum" \in c.flags => Listed(c, n)
               /\ Holds(through, n)
               /\ out.value = IF through = "float" THEN FloatOf[n] ELSE n
               /\ out.adjusted = (n # v)
               /\ through = "float" => InBounds(c, FloatOf[n], Limits(c))
               /\ n # v => c.rounding # Strict
<1> DEFINE n == Exact(c, v)
           outside == Broken(c.flags, n, c)
<1>1. /\ ~(n # v /\ c.rounding = Strict)
      /\ outside = {}
      /\ ~("enum" \in c.flags /\ ~Listed(c, n))
      /\ Holds(through, n)
      /\ Again(through, c, n) = {}
      /\ JudgeNumber(through, c, v)
           = Delivers(IF through = "float" THEN FloatOf[n] ELSE n, n # v, NoEntry)
  BY DEF JudgeNumber, Breaks, Faults, Delivers
<1>2. InBounds(c, n, c)
  BY <1>1, NotBroken
<1>3. ASSUME "multipleOf" \in c.flags
      PROVE  Multiple(n, c.multipleOf) /\ NearAsDeclared(n, v, c.multipleOf, c.rounding)
  BY <1>3, RoundedIsAStep DEF Exact, Declaration
<1>4. "multipleOf" \notin c.flags => n = v
  BY DEF Exact
<1>5. through = "float" => InBounds(c, FloatOf[n], Limits(c))
  BY <1>1, NotBroken DEF Again, Limits
<1>6. QED
  BY <1>1, <1>2, <1>3, <1>4, <1>5 DEF Delivers

(* A number that is refused breaks the rule that is named; a fault says    *)
(* that the type no longer holds it.                                       *)
LEMMA RefusedNumberBreaksARule ==
    ASSUME NEW through, NEW c, NEW v
    PROVE  LET n == Exact(c, v)
               out == JudgeNumber(through, c, v)
           IN  /\ out.status = "violation" =>
                     \/ out.keyword = "multipleOf" /\ n # v /\ c.rounding = Strict
                     \/ /\ out.keyword \in c.flags \cap (Lowers \cup Uppers)
                        /\ \/ ~Within(out.keyword, n, c[Bounds[out.keyword]])
                           \/ /\ through = "float"
                              /\ ~Within(out.keyword, FloatOf[n], Limits(c)[Bounds[out.keyword]])
                     \/ out.keyword = "enum" /\ "enum" \in c.flags /\ ~Listed(c, n)
               /\ out.status = "fault" => ~Holds(through, n) /\ ~(n # v /\ c.rounding = Strict)
<1> DEFINE n == Exact(c, v)
           out == JudgeNumber(through, c, v)
           outside == Broken(c.flags, n, c)
           again == Again(through, c, n)
           first == CHOOSE kind \in outside : TRUE
           second == CHOOSE kind \in again : TRUE
<1>1. outside # {} => first \in outside
  <2> HIDE DEF outside
  <2>1. QED  OBVIOUS
<1>2. again # {} => second \in again
  <2> HIDE DEF again
  <2>1. QED  OBVIOUS
<1>3. first \in outside => /\ first \in c.flags \cap (Lowers \cup Uppers)
                           /\ ~Within(first, n, c[Bounds[first]])
  <2> HIDE DEF first, n
  <2>1. QED  BY DEF Broken
<1>4. second \in again => /\ through = "float"
                          /\ second \in c.flags \cap (Lowers \cup Uppers)
                          /\ ~Within(second, FloatOf[n], Limits(c)[Bounds[second]])
  <2> HIDE DEF second, n
  <2>1. QED  BY DEF Again, Broken, Limits
<1>5. out = IF n # v /\ c.rounding = Strict THEN Breaks("multipleOf")
            ELSE IF outside # {} THEN Breaks(first)
            ELSE IF "enum" \in c.flags /\ ~Listed(c, n) THEN Breaks("enum")
            ELSE IF ~Holds(through, n) THEN Faults("OutOfRange")
            ELSE IF again # {} THEN Breaks(second)
            ELSE Delivers(IF through = "float" THEN FloatOf[n] ELSE n, n # v, NoEntry)
  BY DEF JudgeNumber
<1> HIDE DEF n, out, outside, again, first, second
<1>6. /\ out.status = "violation" =>
            \/ out.keyword = "multipleOf" /\ n # v /\ c.rounding = Strict
            \/ outside # {} /\ out.keyword = first
            \/ out.keyword = "enum" /\ "enum" \in c.flags /\ ~Listed(c, n)
            \/ again # {} /\ out.keyword = second
      /\ out.status = "fault" => ~Holds(through, n) /\ ~(n # v /\ c.rounding = Strict)
  <2>1. \A k : Breaks(k).status = "violation" /\ Breaks(k).keyword = k
    BY DEF Breaks
  <2>2. Faults("OutOfRange").status = "fault"
    BY DEF Faults
  <2>3. \A a, b, e : Delivers(a, b, e).status = "value"
    BY DEF Delivers
  <2>4. "violation" # "fault" /\ "violation" # "value" /\ "fault" # "value"
    OBVIOUS
  <2>5. QED  BY <1>5, <2>1, <2>2, <2>3, <2>4, Zenon
<1>7. QED  BY <1>1, <1>2, <1>3, <1>4, <1>6 DEF n, out
-----------------------------------------------------------------------------
(* EntriesOf's recursion unfolds: an entry, then what follows it.          *)
LEMMA ReadUnfolds ==
    ASSUME NEW packed \in Seq(Nat)
    PROVE  \E read :
              /\ EntriesOf(packed) = read[1]
              /\ \A at \in Nat \ {0} :
                    read[at] = IF at > Len(packed) THEN <<>>
                               ELSE <<SubSeq(packed, at + 1, at + packed[at])>>
                                      \o read[at + 1 + packed[at]]
<1> DEFINE n == Len(packed)
           piece(at) == <<SubSeq(packed, at + 1, at + packed[at])>>
           next(at) == at + 1 + packed[at]
           Rhs(g, at) == IF at > n THEN <<>> ELSE piece(at) \o g[next(at)]
           Sol(g, k) == \A at \in Nat \ {0} : at + k > n => g[at] = Rhs(g, at)
           S == { k \in Nat : \E g : Sol(g, k) }
<1>1. n \in Nat
  BY LenProperties
<1>2. \A at \in Nat \ {0} : at <= n => next(at) \in Nat \ {0} /\ next(at) > at
  <2> SUFFICES ASSUME NEW at \in Nat \ {0}, at <= n PROVE next(at) \in Nat \ {0} /\ next(at) > at
    OBVIOUS
  <2>1. at \in 1 .. Len(packed)  BY <1>1
  <2>2. packed[at] \in Nat  BY <2>1, ElementOfSeq
  <2>3. QED  BY <2>2
<1> DEFINE read == CHOOSE g : g = [at \in Nat \ {0} |-> Rhs(g, at)]
<1>3. EntriesOf(packed) = read[1]
  BY DEF EntriesOf
<1> HIDE DEF n, piece, next
<1>4. 0 \in S
  <2>1. Sol([at \in Nat \ {0} |-> <<>>], 0)
    BY <1>1
  <2>2. QED  BY <2>1
<1>5. ASSUME NEW k \in S PROVE k + 1 \in S
  <2>1. k \in Nat  OBVIOUS
  <2>2. PICK g : Sol(g, k)  OBVIOUS
  <2> DEFINE new == Rhs(g, n - k)
             h == [at \in Nat \ {0} |-> IF at = n - k THEN new ELSE g[at]]
  <2>3. \A at \in Nat \ {0} : h[at] = IF at = n - k THEN new ELSE g[at]
    <3> HIDE DEF new
    <3>1. QED  OBVIOUS
  <2> HIDE DEF h, S
  <2>4. ASSUME NEW at \in Nat \ {0}, at + (k + 1) > n PROVE h[at] = Rhs(h, at)
    <3>1. at > n => Rhs(h, at) = <<>> /\ Rhs(g, at) = <<>>
      OBVIOUS
    <3>2. at <= n => next(at) \in Nat \ {0} /\ next(at) # n - k
      BY <1>1, <1>2, <2>1, <2>4
    <3>3. at <= n => h[next(at)] = g[next(at)]
      BY <2>3, <3>2
    <3>4. Rhs(h, at) = Rhs(g, at)
      BY <1>1, <3>1, <3>3
    <3>5. CASE at = n - k
      BY <2>3, <3>4, <3>5
    <3>6. CASE at # n - k
      <4>1. at + k > n  BY <1>1, <2>1, <2>4, <3>6
      <4>2. h[at] = g[at]  BY <2>3, <3>6
      <4>3. g[at] = Rhs(g, at)  BY <2>2, <4>1
      <4>4. QED  BY <3>4, <4>2, <4>3
    <3>7. QED  BY <3>5, <3>6
  <2>5. Sol(h, k + 1)  BY <2>4
  <2> HIDE DEF Sol
  <2>6. QED  BY <2>1, <2>5 DEF S
<1>6. S = Nat
  <2> HIDE DEF S
  <2>1. S \subseteq Nat  BY DEF S
  <2>2. QED  BY <1>4, <1>5, <2>1, NatInd
<1>7. PICK g : \A at \in Nat \ {0} : g[at] = Rhs(g, at)
  <2>1. n \in S  BY <1>1, <1>6
  <2>2. PICK g : Sol(g, n)  BY <2>1
  <2>3. \A at \in Nat \ {0} : at + n > n  BY <1>1
  <2>4. QED  BY <2>2, <2>3
<1> DEFINE f == [at \in Nat \ {0} |-> g[at]]
<1>8. f = [at \in Nat \ {0} |-> Rhs(f, at)]
  <2>1. ASSUME NEW at \in Nat \ {0} PROVE Rhs(f, at) = g[at]
    <3>1. CASE at > n  BY <1>7, <3>1
    <3>2. CASE ~(at > n)
      <4>1. next(at) \in Nat \ {0}  BY <1>1, <1>2, <3>2
      <4>2. f[next(at)] = g[next(at)]  BY <4>1
      <4> HIDE DEF f
      <4>3. QED  BY <1>7, <3>2, <4>2
    <3>3. QED  BY <3>1, <3>2
  <2>2. QED  BY <2>1, Zenon
<1>9. read = [at \in Nat \ {0} |-> Rhs(read, at)]
  BY <1>8
<1> HIDE DEF read
<1>10. \A at \in Nat \ {0} : read[at] = Rhs(read, at)
  BY <1>9
<1>11. QED  BY <1>3, <1>10, Zenon DEF n, piece, next

(* A list packed as a length and that many bytes for each entry reads back *)
(* as it was: the core sees the entries the caller declared, at their own  *)
(* indices (checked.go's pack, the core's reading of the enum list).       *)
THEOREM ListReadsBack ==
    ASSUME NEW b \in Seq(Seq(Nat))
    PROVE  EntriesOf(FlattenSeq([i \in DOMAIN b |-> <<Len(b[i])>> \o b[i]])) = b
<1> DEFINE n == Len(b)
           pieces == [i \in DOMAIN b |-> <<Len(b[i])>> \o b[i]]
           packed == FlattenSeq(pieces)
<1>1. n \in Nat /\ DOMAIN b = 1 .. n
  BY LenProperties
<1>2. \A i \in 1 .. n : b[i] \in Seq(Nat) /\ Len(b[i]) \in Nat
  BY ElementOfSeq, LenProperties
<1>3. \A i \in 1 .. n : /\ pieces[i] \in Seq(Nat) /\ Len(pieces[i]) = 1 + Len(b[i])
                        /\ pieces[i][1] = Len(b[i])
                        /\ \A j \in 1 .. Len(b[i]) : pieces[i][1 + j] = b[i][j]
  <2> SUFFICES ASSUME NEW i \in 1 .. n
               PROVE  /\ pieces[i] \in Seq(Nat) /\ Len(pieces[i]) = 1 + Len(b[i])
                      /\ pieces[i][1] = Len(b[i])
                      /\ \A j \in 1 .. Len(b[i]) : pieces[i][1 + j] = b[i][j]
    OBVIOUS
  <2>1. pieces[i] = <<Len(b[i])>> \o b[i]  BY <1>1
  <2>2. b[i] \in Seq(Nat) /\ Len(b[i]) \in Nat  BY <1>2
  <2>3. <<Len(b[i])>> \in Seq(Nat) /\ Len(<<Len(b[i])>>) = 1  BY <2>2
  <2> HIDE DEF pieces
  <2>4. /\ pieces[i] \in Seq(Nat) /\ Len(pieces[i]) = 1 + Len(b[i])
        /\ \A j \in 1 .. 1 + Len(b[i]) :
              pieces[i][j] = IF j <= 1 THEN <<Len(b[i])>>[j] ELSE b[i][j - 1]
    BY <2>1, <2>2, <2>3, ConcatProperties
  <2>5. pieces[i][1] = Len(b[i])
    BY <2>2, <2>4
  <2>6. ASSUME NEW j \in 1 .. Len(b[i]) PROVE pieces[i][1 + j] = b[i][j]
    <3>1. 1 + j \in 1 .. 1 + Len(b[i]) /\ ~(1 + j <= 1) /\ (1 + j) - 1 = j  BY <2>2
    <3>2. QED  BY <2>4, <3>1
  <2>7. QED  BY <2>4, <2>5, <2>6
<1>4. pieces \in Seq(Seq(Nat)) /\ Len(pieces) = n
  <2>1. pieces \in [1 .. n -> Seq(Nat)]
    BY <1>1, <1>3
  <2> HIDE DEF pieces
  <2>2. QED  BY <1>1, <2>1
<1> HIDE DEF pieces
<1> HIDE DEF n
(* The lengths of the prefixes, of the entries and of the whole.           *)
<1> DEFINE size == [i \in 1 .. n |-> Len(b[i])]
           total == Len(packed)
<1>5. /\ packed \in Seq(Nat)
      /\ \E len \in [0 .. n -> 0 .. total] :
            /\ len[0] = 0 /\ len[n] = total
            /\ \A i \in 1 .. n :
                  /\ len[i] = len[i - 1] + Len(pieces[i])
                  /\ \A j \in 1 .. Len(pieces[i]) : packed[len[i - 1] + j] = pieces[i][j]
  <2>1. /\ FlattenSeq(pieces) \in Seq(Nat)
        /\ \E len \in [0 .. Len(pieces) -> 0 .. Len(FlattenSeq(pieces))] :
              /\ len[0] = 0 /\ len[Len(pieces)] = Len(FlattenSeq(pieces))
              /\ \A i \in 1 .. Len(pieces) :
                    /\ len[i] = len[i - 1] + Len(pieces[i])
                    /\ \A j \in 1 .. Len(pieces[i]) :
                          FlattenSeq(pieces)[len[i - 1] + j] = pieces[i][j]
    BY <1>4, FlattenLays, ZenonT(40)
  <2>2. QED  BY <1>4, <2>1
<1>6. PICK len \in [0 .. n -> 0 .. total] :
         /\ len[0] = 0 /\ len[n] = total
         /\ \A i \in 1 .. n :
               /\ len[i] = len[i - 1] + Len(pieces[i])
               /\ \A j \in 1 .. Len(pieces[i]) : packed[len[i - 1] + j] = pieces[i][j]
  BY <1>5
<1>7. packed \in Seq(Nat) /\ total \in Nat
  BY <1>5, LenProperties
<1>8. \A i \in 1 .. n : size[i] = Len(b[i]) /\ size[i] \in Nat
  BY <1>2
<1> HIDE DEF packed, size, total
<1>9. ASSUME NEW i \in 1 .. n
      PROVE  /\ len[i] = len[i - 1] + 1 + size[i]
             /\ len[i - 1] \in Nat /\ len[i] \in Nat /\ len[i] <= total
             /\ \A j \in 1 .. 1 + size[i] : packed[len[i - 1] + j] = pieces[i][j]
  <2>1. i - 1 \in 0 .. n /\ i \in 0 .. n  BY <1>1 DEF n
  <2>2. len[i - 1] \in 0 .. total /\ len[i] \in 0 .. total  BY <2>1
  <2>3. Len(pieces[i]) = 1 + size[i]  BY <1>3, <1>8
  <2>4. len[i] = len[i - 1] + (1 + size[i])  BY <1>6, <2>3
  <2>5. \A j \in 1 .. 1 + size[i] : packed[len[i - 1] + j] = pieces[i][j]
    BY <1>6, <2>3
  <2>6. size[i] \in Nat  BY <1>8
  <2>7. len[i] = len[i - 1] + 1 + size[i] /\ len[i - 1] \in Nat /\ len[i] \in Nat /\ len[i] <= total
    <3> DEFINE l == len[i - 1]
               m == len[i]
               z == size[i]
    <3>1. l \in 0 .. total /\ m \in 0 .. total /\ m = l + (1 + z) /\ z \in Nat
      BY <2>2, <2>4, <2>6
    <3> HIDE DEF l, m, z
    <3>2. m = l + 1 + z /\ l \in Nat /\ m \in Nat /\ m <= total
      BY <1>7, <3>1
    <3>3. QED  BY <3>2 DEF l, m, z
  <2>8. QED  BY <2>5, <2>7, Zenon
(* Where each entry begins, and what is there.                             *)
<1> DEFINE start == [i \in 1 .. n + 1 |-> len[i - 1] + 1]
<1>10. /\ start[1] = 1 /\ start[n + 1] = total + 1
       /\ \A i \in 1 .. n : /\ start[i] \in Nat \ {0} /\ start[i] <= total
                              /\ len[i - 1] = start[i] - 1 /\ len[i] = start[i] + size[i]
                              /\ start[i + 1] = start[i] + 1 + size[i]
  <2>1. n \in Nat  BY <1>1
  <2>2. start[1] = 1
    <3>1. 1 \in 1 .. n + 1 /\ 1 - 1 = 0  BY <2>1
    <3>2. start[1] = len[0] + 1  BY <3>1
    <3>3. QED  BY <1>6, <3>2
  <2>3. start[n + 1] = total + 1
    <3>1. n + 1 \in 1 .. n + 1 /\ (n + 1) - 1 = n  BY <2>1
    <3>2. start[n + 1] = len[n] + 1  BY <3>1
    <3>3. QED  BY <1>6, <3>2
  <2>4. ASSUME NEW i \in 1 .. n
        PROVE  /\ start[i] \in Nat \ {0} /\ start[i] <= total
               /\ len[i - 1] = start[i] - 1 /\ len[i] = start[i] + size[i]
               /\ start[i + 1] = start[i] + 1 + size[i]
    <3>1. i \in 1 .. n + 1 /\ i + 1 \in 1 .. n + 1 /\ (i + 1) - 1 = i /\ i - 1 \in 0 .. n /\ i \in 0 .. n
      BY <2>1
    <3>2. start[i] = len[i - 1] + 1 /\ start[i + 1] = len[i] + 1
      BY <3>1
    <3> HIDE DEF start
    <3>3. len[i] = len[i - 1] + 1 + size[i]  BY <1>9
    <3>4. len[i - 1] \in Nat /\ len[i] \in Nat /\ size[i] \in Nat  BY <1>8, <1>9
    <3>5. len[i] <= total  BY <1>9
    <3> DEFINE at == start[i]
               next == start[i + 1]
               before == len[i - 1]
               after == len[i]
               z == size[i]
    <3>6. /\ at = before + 1 /\ next = after + 1 /\ after = before + 1 + z
          /\ before \in Nat /\ after \in Nat /\ z \in Nat /\ after <= total
      BY <3>2, <3>3, <3>4, <3>5
    <3> HIDE DEF at, next, before, after, z
    <3>7. /\ at \in Nat \ {0} /\ at <= total /\ before = at - 1 /\ after = at + z
          /\ next = at + 1 + z
      BY <1>7, <3>6
    <3>8. QED  BY <3>7 DEF at, next, before, after, z
  <2>5. QED  BY <2>2, <2>3, <2>4
<1> HIDE DEF start
<1>11. ASSUME NEW i \in 1 .. n
       PROVE  /\ packed[start[i]] = size[i]
              /\ SubSeq(packed, start[i] + 1, start[i] + size[i]) = b[i]
  <2> DEFINE at == start[i]
             z == size[i]
             piece == pieces[i]
             before == len[i - 1]
  <2>1. i \in 0 .. n  BY <1>1
  <2>2. /\ at \in Nat \ {0} /\ before = at - 1 /\ len[i] = at + z /\ z \in Nat /\ total \in Nat
        /\ at + z <= total
    <3>1. len[i] <= total  BY <1>9
    <3>2. QED  BY <1>7, <1>10, <1>8, <3>1
  <2>3. \A j \in 1 .. z : piece[1 + j] = b[i][j]
    BY <1>3, <1>8
  <2>4. b[i] \in Seq(Nat) /\ Len(b[i]) = z /\ piece[1] = z
    BY <1>2, <1>3, <1>8
  <2>6. \A j \in 1 .. 1 + z : packed[before + j] = piece[j]
    BY <1>9
  <2> HIDE DEF at, z, piece, before
  <2>7. ASSUME NEW j \in 0 .. z PROVE packed[at + j] = piece[1 + j]
    <3>1. at + j = before + (1 + j) /\ 1 + j \in 1 .. 1 + z
      BY <2>2
    <3>2. packed[before + (1 + j)] = piece[1 + j]  BY <2>6, <3>1
    <3>3. QED  BY <3>1, <3>2
  <2>8. packed[at] = z
    <3>1. 0 \in 0 .. z /\ at + 0 = at /\ 1 + 0 = 1  BY <2>2
    <3>2. packed[at + 0] = piece[1 + 0]  BY <2>7, <3>1
    <3>3. QED  BY <2>4, <3>1, <3>2
  <2> DEFINE low == at + 1
             high == at + z
  <2>9. low \in Int /\ high \in Int /\ high <= total /\ 1 <= low /\ high - low + 1 = z
    BY <2>2
  <2>10. ASSUME NEW j \in low .. high PROVE packed[j] \in Nat
    <3>1. j \in 1 .. total  BY <2>2
    <3>2. j \in 1 .. Len(packed)  BY <3>1 DEF total
    <3>3. QED  BY <1>7, <3>2, ElementOfSeq
  <2>11. \A j \in 1 .. z : low + j - 1 = at + j /\ j \in 0 .. z
    BY <2>2
  <2> HIDE DEF low, high
  <2> DEFINE part == SubSeq(packed, low, high)
  <2>12. /\ part \in Seq(Nat)
         /\ Len(part) = IF low <= high THEN high - low + 1 ELSE 0
         /\ \A j \in 1 .. high - low + 1 : part[j] = packed[low + j - 1]
    BY <2>9, <2>10, SubSeqProperties
  <2> HIDE DEF part
  <2>13. Len(part) = z  BY <2>2, <2>9, <2>12
  <2>14. ASSUME NEW j \in 1 .. z PROVE part[j] = b[i][j]
    <3>1. part[j] = packed[low + j - 1]  BY <2>9, <2>12
    <3>2. packed[at + j] = piece[1 + j]  BY <2>7, <2>11
    <3>3. QED  BY <2>3, <2>11, <3>1, <3>2
  <2>15. part = b[i]  BY <2>4, <2>12, <2>13, <2>14, SeqEqual
  <2>16. QED  BY <2>8, <2>15 DEF at, z, part, low, high
<1>12. n \in Nat /\ b \in Seq(Seq(Nat)) /\ Len(b) = n  BY <1>1 DEF n
<1>13. PICK read :
         /\ EntriesOf(packed) = read[1]
         /\ \A j \in Nat \ {0} :
               read[j] = IF j > Len(packed) THEN <<>>
                         ELSE <<SubSeq(packed, j + 1, j + packed[j])>> \o read[j + 1 + packed[j]]
  BY <1>7, ReadUnfolds
<1>14. \A j \in Nat \ {0} :
          read[j] = IF j > total THEN <<>>
                    ELSE <<SubSeq(packed, j + 1, j + packed[j])>> \o read[j + 1 + packed[j]]
  BY <1>13 DEF total
<1> DEFINE C == { k \in Nat : k <= n => read[start[n + 1 - k]] = SubSeq(b, n + 1 - k, n) }
<1>15. 0 \in C
  <2>1. n + 1 - 0 = n + 1  BY <1>12
  <2>2. total + 1 \in Nat \ {0} /\ total + 1 > total  BY <1>7
  <2>3. read[start[n + 1]] = <<>>  BY <1>10, <1>14, <2>2
  <2>4. SubSeq(b, n + 1, n) = <<>>  BY <1>12, SubSeqEmpty
  <2>5. QED  BY <2>1, <2>3, <2>4
<1>16. ASSUME NEW k \in C PROVE k + 1 \in C
  <2>1. k \in Nat /\ (k <= n => read[start[n + 1 - k]] = SubSeq(b, n + 1 - k, n))  OBVIOUS
  <2> HIDE DEF C
  <2>2. ASSUME k + 1 <= n PROVE read[start[n + 1 - (k + 1)]] = SubSeq(b, n + 1 - (k + 1), n)
    <3> DEFINE i == n - k
    <3>1. i \in 1 .. n /\ n + 1 - (k + 1) = i /\ n + 1 - k = i + 1 /\ k <= n
      BY <1>12, <2>1, <2>2
    <3> HIDE DEF i
    <3>2. read[start[i + 1]] = SubSeq(b, i + 1, n)  BY <2>1, <3>1
    <3> DEFINE at == start[i]
    <3>3. at \in Nat \ {0} /\ ~(at > total) /\ start[i + 1] = at + 1 + size[i] /\ packed[at] = size[i]
      BY <1>7, <1>10, <1>11, <3>1
    <3>4. SubSeq(packed, at + 1, at + size[i]) = b[i]
      BY <1>11, <3>1
    <3> HIDE DEF at
    <3>5. read[at] = <<SubSeq(packed, at + 1, at + packed[at])>> \o read[at + 1 + packed[at]]
      BY <1>14, <3>3
    <3>6. read[at] = <<b[i]>> \o SubSeq(b, i + 1, n)
      BY <3>2, <3>3, <3>4, <3>5
    <3>7. SubSeq(b, i, n) = <<b[i]>> \o SubSeq(b, i + 1, n)
      <4>1. i \in 1 .. Len(b) /\ n \in i .. Len(b)  BY <1>12, <3>1
      <4>2. QED  BY <1>12, <4>1, SubSeqRecursiveFirst
    <3>8. QED  BY <3>1, <3>6, <3>7 DEF at
  <2>3. QED  BY <2>1, <2>2 DEF C
<1>17. C = Nat
  <2> HIDE DEF C
  <2>1. C \subseteq Nat  BY DEF C
  <2>2. QED  BY <1>15, <1>16, <2>1, NatInd
<1>18. read[1] = SubSeq(b, 1, n)
  <2>1. n \in C  BY <1>12, <1>17
  <2>2. n + 1 - n = 1 /\ n <= n  BY <1>12
  <2>3. QED  BY <1>10, <2>1, <2>2
<1>19. SubSeq(b, 1, n) = b
  BY <1>12, SubSeqFull
<1>20. EntriesOf(packed) = b
  BY <1>13, <1>18, <1>19
<1>21. QED
  BY <1>20 DEF packed, pieces

-----------------------------------------------------------------------------
LEMMA InkInside ==
    ASSUME NEW T, NEW s \in Seq(T)
    PROVE  Ink(s) \subseteq 1 .. Len(s) /\ Len(s) \in Nat
  BY LenProperties DEF Ink

(* What trimming leaves begins and ends in ink, or is empty.               *)
LEMMA TrimmedEdges ==
    ASSUME NEW T, NEW s \in Seq(T), Ink(s) # {}
    PROVE  /\ Trimmed(s) \in Seq(T) /\ Trimmed(s) # <<>>
           /\ Trimmed(s)[1] \notin White /\ Last(Trimmed(s)) \notin White
<1> DEFINE low == Min(Ink(s))
           high == Max(Ink(s))
           part == SubSeq(s, low, high)
<1>1. Ink(s) \subseteq 1 .. Len(s) /\ Len(s) \in Nat
  BY InkInside
<1>2. low \in Ink(s) /\ \A n \in Ink(s) : low <= n
  <2>1. Ink(s) \subseteq Nat  BY <1>1
  <2>2. QED  BY <2>1, MinIsLeast
<1>3. high \in Ink(s)
  <2>1. Ink(s) \subseteq 0 .. Len(s)  BY <1>1
  <2>2. QED  BY <1>1, <2>1, MaxIsGreatest
<1>4. low \in 1 .. Len(s) /\ high \in 1 .. Len(s) /\ low <= high
  BY <1>1, <1>2, <1>3
<1>5. s[low] \notin White /\ s[high] \notin White
  BY <1>2, <1>3 DEF Ink
<1>6. Trimmed(s) = part
  BY DEF Trimmed
<1> HIDE DEF low, high
<1>7. \A i \in low .. high : s[i] \in T
  <2>1. ASSUME NEW i \in low .. high PROVE i \in 1 .. Len(s)
    BY <1>1, <1>4
  <2>2. QED  BY <2>1, ElementOfSeq
<1>8. /\ part \in Seq(T) /\ Len(part) = high - low + 1
      /\ \A i \in 1 .. high - low + 1 : part[i] = s[low + i - 1]
  BY <1>4, <1>7, SubSeqProperties
<1> HIDE DEF part
<1> DEFINE size == high - low + 1
<1>9. size \in Nat /\ 1 \in 1 .. size /\ size \in 1 .. size /\ low + 1 - 1 = low /\ low + size - 1 = high
  BY <1>4
<1>10. part[1] = s[low] /\ part[size] = s[high]
  BY <1>8, <1>9
<1>11. part # <<>>
  <2>1. Len(part) # 0  BY <1>8, <1>9
  <2>2. QED  BY <2>1, EmptySeq
<1>12. Last(part) = s[high]
  BY <1>8, <1>10 DEF Last
<1>13. QED
  BY <1>5, <1>6, <1>8, <1>10, <1>11, <1>12

(* A text whose edges are ink is its own trimming, and no other is.        *)
LEMMA TrimmedKeeps ==
    ASSUME NEW T, NEW s \in Seq(T), s # <<>>
    PROVE  Trimmed(s) = s <=> s[1] \notin White /\ Last(s) \notin White
<1>1. Ink(s) \subseteq 1 .. Len(s) /\ Len(s) \in Nat /\ Len(s) # 0
  BY InkInside, EmptySeq
<1>2. ASSUME s[1] \notin White, Last(s) \notin White PROVE Trimmed(s) = s
  <2>1. 1 \in Ink(s) /\ Len(s) \in Ink(s)
    <3>1. DOMAIN s = 1 .. Len(s)  BY LenProperties
    <3>2. 1 \in 1 .. Len(s) /\ Len(s) \in 1 .. Len(s)  BY <1>1
    <3>3. QED  BY <1>2, <3>1, <3>2 DEF Ink, Last
  <2>2. Min(Ink(s)) = 1
    <3>1. Ink(s) \subseteq Nat  BY <1>1
    <3>2. Min(Ink(s)) \in Ink(s) /\ Min(Ink(s)) <= 1  BY <2>1, <3>1, MinIsLeast
    <3>3. QED  BY <1>1, <3>2
  <2>3. Max(Ink(s)) = Len(s)
    <3>1. Ink(s) \subseteq 0 .. Len(s)  BY <1>1
    <3>2. Max(Ink(s)) \in Ink(s) /\ Len(s) <= Max(Ink(s))  BY <1>1, <2>1, <3>1, MaxIsGreatest
    <3>3. QED  BY <1>1, <3>2
  <2>4. Trimmed(s) = SubSeq(s, 1, Len(s))
    BY <2>1, <2>2, <2>3 DEF Trimmed
  <2>5. QED  BY <2>4, SubSeqFull
<1>3. ASSUME Trimmed(s) = s PROVE s[1] \notin White /\ Last(s) \notin White
  <2>1. Ink(s) # {}  BY <1>3 DEF Trimmed
  <2>2. QED  BY <1>3, <2>1, TrimmedEdges
<1>4. QED  BY <1>2, <1>3

LEMMA TrimmedTwice ==
    ASSUME NEW T, NEW s \in Seq(T)
    PROVE  Trimmed(s) \in Seq(T) /\ Trimmed(Trimmed(s)) = Trimmed(s)
<1>1. CASE Ink(s) = {}
  <2>1. Trimmed(s) = <<>>  BY <1>1 DEF Trimmed
  <2>2. Ink(<<>>) = {}  BY DEF Ink
  <2>3. Trimmed(<<>>) = <<>>  BY <2>2 DEF Trimmed
  <2>4. QED  BY <2>1, <2>3
<1>2. CASE Ink(s) # {}
  <2>1. /\ Trimmed(s) \in Seq(T) /\ Trimmed(s) # <<>>
        /\ Trimmed(s)[1] \notin White /\ Last(Trimmed(s)) \notin White
    BY <1>2, TrimmedEdges
  <2>2. QED  BY <2>1, TrimmedKeeps
<1>3. QED  BY <1>1, <1>2

(* The code points are the bytes but those that continue one.              *)
LEMMA CodePointsCount ==
    ASSUME NEW T, NEW s \in Seq(T)
    PROVE  /\ CodePoints(s) \in Nat
           /\ CodePoints(s) = Len(s) - Cardinality({ i \in DOMAIN s : s[i] \in Continuation })
<1> DEFINE all == DOMAIN s
           some == { i \in DOMAIN s : s[i] \in Continuation }
           rest == { i \in DOMAIN s : s[i] \notin Continuation }
<1>1. all = 1 .. Len(s) /\ Len(s) \in Nat
  BY LenProperties
<1>2. IsFiniteSet(all) /\ Cardinality(all) = Len(s)
  BY <1>1, FS_Interval, SMTT(30)
<1>3. rest = all \ some /\ all \cap some = some /\ IsFiniteSet(rest) /\ IsFiniteSet(some)
  BY <1>2, FS_Subset
<1> HIDE DEF all, some, rest
<1>4. Cardinality(rest) = Cardinality(all) - Cardinality(some)
  <2>1. Cardinality(all \ some) = Cardinality(all) - Cardinality(all \cap some)
    BY <1>2, FS_Difference
  <2>2. QED  BY <1>3, <2>1
<1>5. Cardinality(rest) \in Nat  BY <1>3, FS_CardinalityType
<1>6. QED  BY <1>2, <1>4, <1>5 DEF CodePoints, rest, some

-----------------------------------------------------------------------------
(* The text that is judged.                                                *)
Judged(c, given) == IF "trim" \in c.flags THEN Trimmed(given) ELSE given

(* A declaration, as far as JudgeText reads it: one with an enum list      *)
(* carries bytes that read back as entries.                                *)
TextDeclaration(c) ==
    /\ c.minLength \in Int /\ c.maxLength \in Int
    /\ "enum" \in c.flags => EntriesOf(c.packedText) \in Seq(Seq(Nat))

LEMMA MatchingListed ==
    ASSUME NEW c, TextDeclaration(c), NEW text
    PROVE  /\ "enum" \notin c.flags => Matching(c, text) = {}
           /\ Matching(c, text) # {} =>
                 Min(Matching(c, text)) \in Matching(c, text) /\ Min(Matching(c, text)) \in Nat \ {0}
<1>1. ASSUME "enum" \notin c.flags PROVE Matching(c, text) = {}
  BY <1>1 DEF Matching
<1>2. ASSUME "enum" \in c.flags PROVE Matching(c, text) \subseteq Nat \ {0}
  <2>1. EntriesOf(c.packedText) \in Seq(Seq(Nat))  BY <1>2 DEF TextDeclaration
  <2>2. DOMAIN EntriesOf(c.packedText) = 1 .. Len(EntriesOf(c.packedText))
    BY <2>1, LenProperties
  <2>3. QED  BY <1>2, <2>2 DEF Matching
<1>3. ASSUME Matching(c, text) # {}
      PROVE  Min(Matching(c, text)) \in Matching(c, text) /\ Min(Matching(c, text)) \in Nat \ {0}
  <2>1. Matching(c, text) \subseteq Nat \ {0}  BY <1>1, <1>2, <1>3
  <2>2. Matching(c, text) \subseteq Nat  BY <2>1
  <2>3. Min(Matching(c, text)) \in Matching(c, text)  BY <1>3, <2>2, MinIsLeast
  <2>4. QED  BY <2>1, <2>3
<1>4. QED  BY <1>1, <1>3

(* A text that is delivered meets every rule declared: it is trimmed when  *)
(* that is declared, its code points are within the lengths, and the entry *)
(* reported is one it matches (internal/core/core.go, fn132's text door).  *)
THEOREM DeliveredTextMeetsTheRules ==
    ASSUME NEW c, TextDeclaration(c), NEW given \in Seq(Nat),
           JudgeText(c, given).status = "value"
    PROVE  LET text == Judged(c, given)
               out == JudgeText(c, given)
           IN  /\ out.value = text /\ text # <<>> /\ Utf8(given)
               /\ "minLength" \in c.flags => CodePoints(text) >= c.minLength
               /\ "maxLength" \in c.flags => CodePoints(text) <= c.maxLength
               /\ "trim" \in c.flags => Trimmed(text) = text
               /\ "enum" \in c.flags => out.entry \in Matching(c, text) /\ out.entry # NoEntry
               /\ "enum" \notin c.flags => out.entry = NoEntry
<1> DEFINE text == Judged(c, given)
           points == CodePoints(text)
           entry == IF Matching(c, text) = {} THEN NoEntry ELSE Min(Matching(c, text))
<1>1. text \in Seq(Nat)
  BY TrimmedTwice DEF Judged
<1>2. points \in Nat
  BY <1>1, CodePointsCount
<1>3. /\ text # <<>> /\ Utf8(given)
      /\ ~("minLength" \in c.flags /\ points < c.minLength)
      /\ ~("maxLength" \in c.flags /\ points > c.maxLength)
      /\ ~("enum" \in c.flags /\ Matching(c, text) = {})
      /\ JudgeText(c, given) = Delivers(text, FALSE, entry)
  BY DEF JudgeText, Judged, Faults, Breaks, Delivers
<1>4. "trim" \in c.flags => Trimmed(text) = text
  BY TrimmedTwice DEF Judged
<1>5. "enum" \in c.flags => entry \in Matching(c, text) /\ entry # NoEntry
  BY <1>3, MatchingListed DEF NoEntry
<1>6. "enum" \notin c.flags => entry = NoEntry
  BY MatchingListed
<1> HIDE DEF text, points, entry
<1>7. /\ JudgeText(c, given).value = text /\ JudgeText(c, given).entry = entry
  BY <1>3 DEF Delivers
<1>8. /\ "minLength" \in c.flags => points >= c.minLength
      /\ "maxLength" \in c.flags => points <= c.maxLength
  BY <1>2, <1>3 DEF TextDeclaration
<1>9. QED
  BY <1>3, <1>4, <1>5, <1>6, <1>7, <1>8, Zenon DEF text, points

(* A text that is refused breaks the rule that is named, or there is       *)
(* nothing to judge.                                                       *)
LEMMA RefusedTextBreaksARule ==
    ASSUME NEW c, NEW given
    PROVE  LET text == Judged(c, given)
               out == JudgeText(c, given)
           IN  /\ out.status = "violation" =>
                     \/ out.keyword = "minLength" /\ "minLength" \in c.flags /\ CodePoints(text) < c.minLength
                     \/ out.keyword = "maxLength" /\ "maxLength" \in c.flags /\ CodePoints(text) > c.maxLength
                     \/ out.keyword = "enum" /\ "enum" \in c.flags /\ Matching(c, text) = {}
               /\ out.status = "fault" => given = <<>> \/ ~Utf8(given) \/ text = <<>>
  BY DEF JudgeText, Judged, Faults, Breaks, Delivers

-----------------------------------------------------------------------------
(* What a caller holds is the zero Constraints or an accepted declaration. *)
IInv ==
    /\ held.size = 0 \/ held \in judged
    /\ JudgedBeforeUse

LEMMA InitIInv == Init => IInv
  BY DEF Init, IInv, JudgedBeforeUse, ZeroDeclaration

(* A refusal leaves the zero Constraints.                                  *)
LEMMA RefuseKeeps ==
    ASSUME NEW code, IInv, Refuse(code)
    PROVE  IInv'
  BY DEF IInv, Refuse, JudgedBeforeUse, ZeroDeclaration

(* A rule taken changes the declaration being built, which nobody holds.   *)
LEMMA LayKeeps ==
    ASSUME NEW kind, NEW decl, IInv, Lay(kind, decl)
    PROVE  IInv'
  BY DEF IInv, Lay, JudgedBeforeUse

LEMMA NextIInv == IInv /\ [Next]_vars => IInv'
<1> SUFFICES ASSUME IInv, [Next]_vars PROVE IInv'
  OBVIOUS
<1>1. CASE NewConstraints
  BY <1>1 DEF NewConstraints, IInv, JudgedBeforeUse
<1>2. ASSUME NEW r \in Rules,
             ZeroRule(r) \/ DeclaredTwice(r) \/ TakeBound(r) \/ TakeRounding(r)
               \/ TakeTrim(r) \/ TakeLength(r) \/ TakeEnum(r)
      PROVE  IInv'
  <2>1. CASE ZeroRule(r) \/ DeclaredTwice(r)
    BY <2>1, RefuseKeeps DEF ZeroRule, DeclaredTwice
  <2>2. CASE TakeBound(r)
    BY <2>2, RefuseKeeps, LayKeeps DEF TakeBound
  <2>3. CASE TakeRounding(r) \/ TakeTrim(r)
    BY <2>3, LayKeeps DEF TakeRounding, TakeTrim
  <2>4. CASE TakeLength(r)
    BY <2>4, RefuseKeeps, LayKeeps DEF TakeLength
  <2>5. CASE TakeEnum(r)
    BY <2>5, RefuseKeeps, LayKeeps DEF TakeEnum
  <2>6. QED  BY <1>2, <2>1, <2>2, <2>3, <2>4, <2>5
<1>3. CASE RulesDone
  BY <1>3 DEF RulesDone, IInv, JudgedBeforeUse
<1>4. CASE ConstraintsCheck
  <2>1. CASE Refusal(door, d, TRUE) # 0
    BY <1>4, <2>1, RefuseKeeps DEF ConstraintsCheck
  <2>2. CASE Refusal(door, d, TRUE) = 0
    BY <1>4, <2>2 DEF ConstraintsCheck, IInv, JudgedBeforeUse
  <2>3. QED  BY <2>1, <2>2
<1>5. ASSUME NEW given, Check(given) PROVE IInv'
  BY <1>5 DEF Check, IInv, JudgedBeforeUse
<1>6. CASE UNCHANGED vars
  BY <1>6 DEF vars, IInv, JudgedBeforeUse
<1>7. QED
  BY <1>1, <1>2, <1>3, <1>4, <1>5, <1>6 DEF Next

(* A declaration the core has not accepted never crosses to a checked      *)
(* door, not even when the caller ignored NewConstraints's error or never  *)
(* called it.                                                              *)
THEOREM OnlyJudgedCross == Spec => []JudgedBeforeUse
<1>1. IInv => JudgedBeforeUse
  BY DEF IInv
<1>2. QED
  BY InitIInv, NextIInv, <1>1, PTL DEF Spec

-----------------------------------------------------------------------------
(* The numbers and the texts of a declaration's enum list.                 *)
NumbersOf(decl) == IF decl.decimals = Nothing THEN <<>> ELSE decl.decimals
TextsOf(decl) == IF decl.packedText = Nothing THEN <<>> ELSE EntriesOf(decl.packedText)

(* A declaration that passes every check of the core's.                    *)
Passes(dr, decl, complete) ==
    /\ decl.size # 0
    /\ decl.flags \subseteq Taken[dr]
    /\ ~(Lowers \subseteq decl.flags) /\ ~(Uppers \subseteq decl.flags)
    /\ ~(decl.flags \cap Lowers # {} /\ decl.flags \cap Uppers # {} /\ decl.lower >= decl.upper)
    /\ "multipleOf" \in decl.flags \/ decl.rounding = Strict
    /\ "multipleOf" \in decl.flags => ~(decl.multipleOf <= 0)
    /\ ~(Lengths \subseteq decl.flags /\ decl.minLength > decl.maxLength)
    /\ \A kind \in decl.flags \cap DOMAIN Bounds : Fits(dr, decl[Bounds[kind]])
    /\ \A i \in DOMAIN NumbersOf(decl) : Fits(dr, NumbersOf(decl)[i])
    /\ \A i \in DOMAIN TextsOf(decl) : Utf8(TextsOf(decl)[i])
    /\ complete => IsInjective(NumbersOf(decl)) /\ EntriesApart(TextsOf(decl))
    /\ ~(decl.rounding > Ceiling)
    /\ "enum" \in decl.flags <=> NumbersOf(decl) \o TextsOf(decl) # <<>>
    /\ \A i \in DOMAIN TextsOf(decl) :
          /\ TextsOf(decl)[i] # <<>>
          /\ "trim" \in decl.flags => Trimmed(TextsOf(decl)[i]) = TextsOf(decl)[i]

(* The first check that fails gives the code, and there is none when all   *)
(* are passed.                                                             *)
LEMMA RefusalIsTheFirst ==
    ASSUME NEW dr, NEW decl, NEW complete \in BOOLEAN
    PROVE  /\ Refusal(dr, decl, complete) \in 0 .. 13
           /\ Refusal(dr, decl, complete) = 0 <=> Passes(dr, decl, complete)
<1> DEFINE has(kind) == kind \in decl.flags
           sided(kinds) == decl.flags \cap kinds # {}
           numbers == NumbersOf(decl)
           texts == TextsOf(decl)
           used == { decl[Bounds[kind]] : kind \in decl.flags \cap DOMAIN Bounds }
           f1 == decl.size = 0
           f2 == ~(decl.flags \subseteq Taken[dr])
           f3 == Lowers \subseteq decl.flags
           f4 == Uppers \subseteq decl.flags
           f5 == sided(Lowers) /\ sided(Uppers) /\ decl.lower >= decl.upper
           f6 == ~has("multipleOf") /\ decl.rounding # Strict
           f7 == has("multipleOf") /\ decl.multipleOf <= 0
           f8 == Lengths \subseteq decl.flags /\ decl.minLength > decl.maxLength
           f9 == \E n \in used \cup ToSet(numbers) : ~Fits(dr, n)
           f10 == \E i \in DOMAIN texts : ~Utf8(texts[i])
           f11 == complete /\ ~(IsInjective(numbers) /\ EntriesApart(texts))
           f12 == decl.rounding > Ceiling
           f13 == ~has("enum") /\ numbers \o texts # <<>>
           f14 == has("enum") /\ numbers \o texts = <<>>
           f15 == \E i \in DOMAIN texts :
                     texts[i] = <<>> \/ (has("trim") /\ Trimmed(texts[i]) # texts[i])
           finding(code, found) == [code |-> code, found |-> found]
           findings ==
             << finding(11, f1), finding(1, f2), finding(2, f3), finding(3, f4),
                finding(4, f5), finding(6, f6), finding(5, f7), finding(7, f8),
                finding(8, f9), finding(9, f10), finding(10, f11), finding(11, f12),
                finding(11, f13), finding(12, f14), finding(13, f15) >>
           found == { i \in DOMAIN findings : findings[i].found }
<1>1. Refusal(dr, decl, complete) = IF found = {} THEN 0 ELSE findings[Min(found)].code
  BY DEF Refusal, NumbersOf, TextsOf, Lengths
<1>2. Passes(dr, decl, complete) <=> ~(f1 \/ f2 \/ f3 \/ f4 \/ f5 \/ f6 \/ f7 \/ f8 \/ f9 \/ f10
                                       \/ f11 \/ f12 \/ f13 \/ f14 \/ f15)
  <2>1. f9 <=> \/ \E kind \in decl.flags \cap DOMAIN Bounds : ~Fits(dr, decl[Bounds[kind]])
               \/ \E i \in DOMAIN numbers : ~Fits(dr, numbers[i])
    BY DEF ToSet
  <2> HIDE DEF f9
  <2>2. QED  BY <2>1, Zenon DEF Passes
<1> HIDE DEF f1, f2, f3, f4, f5, f6, f7, f8, f9, f10, f11, f12, f13, f14, f15
<1>3. DOMAIN findings = 1 .. 15
  OBVIOUS
<1>4. \A i \in 1 .. 15 : findings[i].code \in 1 .. 13
  OBVIOUS
<1>5. found = {} <=> ~(f1 \/ f2 \/ f3 \/ f4 \/ f5 \/ f6 \/ f7 \/ f8 \/ f9 \/ f10
                       \/ f11 \/ f12 \/ f13 \/ f14 \/ f15)
  OBVIOUS
<1> HIDE DEF findings
<1>6. found # {} => Min(found) \in 1 .. 15
  <2>1. found \subseteq 1 .. 15  BY <1>3
  <2> HIDE DEF found
  <2>2. found \subseteq Nat  BY <2>1
  <2>3. QED  BY <2>1, <2>2, MinIsLeast
<1> HIDE DEF found
<1>7. (IF found = {} THEN 0 ELSE findings[Min(found)].code) \in 0 .. 13
  BY <1>4, <1>6
<1>8. (IF found = {} THEN 0 ELSE findings[Min(found)].code) = 0 <=> found = {}
  BY <1>4, <1>6
<1>9. QED
  BY <1>1, <1>2, <1>5, <1>7, <1>8, Zenon

-----------------------------------------------------------------------------
(* The declarations a layout can hold.                                     *)
Declarations ==
    [size : {0, 1}, flags : SUBSET Kinds, rounding : Nat,
     minLength : 0 .. MaxUint32, maxLength : 0 .. MaxUint32,
     lower : DOMAIN FloatOf, upper : DOMAIN FloatOf, multipleOf : DOMAIN FloatOf,
     decimals : Seq(DOMAIN FloatOf) \cup {Nothing},
     packedText : Seq(Nat) \cup {Nothing}, texts : Seq(Entry) \cup {Nothing}]

(* Where an enum list is laid: as decimals, or packed at the text door.    *)
BearsList(dr, decl, r) ==
    /\ decl.decimals = IF r.entries # <<>> /\ dr # "text" THEN Decimals(r.entries) ELSE Nothing
    /\ decl.packedText = IF r.entries # <<>> /\ dr = "text" THEN Packed(r.entries) ELSE Nothing
    /\ decl.texts = IF r.entries # <<>> /\ dr = "text" THEN r.entries ELSE Nothing
    /\ dr # "text" => NotADecimal \notin Range(Decimals(r.entries))
    /\ dr = "text" /\ r.entries # <<>> => ~r.numbers

(* A declaration bears a rule: its slot holds what the rule says, but that *)
(* the later of two lower bounds has the slot of both.                     *)
Bears(dr, decl, r) ==
    /\ r.kind \in DOMAIN Bounds => r.text.decimal # NotADecimal
    /\ r.kind \in Lowers => decl.lower = r.text.decimal \/ Lowers \subseteq decl.flags
    /\ r.kind \in Uppers => decl.upper = r.text.decimal \/ Uppers \subseteq decl.flags
    /\ r.kind = "multipleOf" => decl.multipleOf = r.text.decimal
    /\ r.kind = "rounding" => decl.rounding = r.rounding
    /\ r.kind \in Lengths => r.length \in 0 .. MaxUint32
    /\ r.kind = "minLength" => decl.minLength = r.length
    /\ r.kind = "maxLength" => decl.maxLength = r.length
    /\ r.kind = "enum" => BearsList(dr, decl, r)

(* The rules so far are each laid out, once, and nothing else is.          *)
Laid(rs, dr, decl) ==
    /\ decl \in Declarations /\ decl.size = 1
    /\ \A i \in DOMAIN rs : rs[i].kind \in Kinds
    /\ \A i, j \in DOMAIN rs : rs[i].kind = rs[j].kind => i = j
    /\ \A kind \in Kinds : kind \in decl.flags <=>
          kind # "rounding" /\ \E i \in DOMAIN rs : rs[i].kind = kind
    /\ \A i \in DOMAIN rs : Bears(dr, decl, rs[i])
    /\ (\A i \in DOMAIN rs : rs[i].kind # "rounding") => decl.rounding = 0
    /\ "enum" \notin decl.flags =>
          decl.decimals = Nothing /\ decl.packedText = Nothing /\ decl.texts = Nothing

(* What a checked door answers by the declaration it is handed.            *)
Judgement(dr, c, given) ==
    IF dr = "text" THEN CheckedText(c, JudgeText(c, given)) ELSE JudgeNumber(dr, c, given)

TypeInv ==
    /\ phase \in {"idle", "building", "checking", "done"}
    /\ door \in Door
    /\ rules \in Seq(Rules)

Unjudged == phase # "done" => refusal = Nothing /\ held = ZeroDeclaration

BeforeAny == phase = "idle" => rules = <<>> /\ seen = {}

LaidOut ==
    phase # "idle" /\ refusal = Nothing =>
        /\ Laid(rules, door, d)
        /\ \A kind \in Kinds :
              kind \in seen <=> \E i \in DOMAIN rules : rules[i].kind = kind

Accepted ==
    phase = "done" /\ refusal = Nothing => held = d /\ Passes(door, d, TRUE)

Refused ==
    refusal # Nothing => phase = "done" /\ held = ZeroDeclaration /\ ~Meaningful(rules, door)

AnsweredByIt ==
    answer \in {Nothing, Panic} \/ (/\ phase = "done" /\ refusal = Nothing
                                    /\ asked \in Askable
                                    /\ answer = Judgement(door, held, asked))

ConstraintsInv ==
    TypeInv /\ Unjudged /\ BeforeAny /\ LaidOut /\ Accepted /\ Refused /\ AnsweredByIt

-----------------------------------------------------------------------------
(* The slot of each bound.                                                 *)
LEMMA BoundsCases ==
    /\ DOMAIN Bounds = Lowers \cup Uppers \cup {"multipleOf"}
    /\ \A kind \in Lowers : Bounds[kind] = "lower"
    /\ \A kind \in Uppers : Bounds[kind] = "upper"
    /\ Bounds["multipleOf"] = "multipleOf"
<1>1. "minimum" # "maximum" /\ "minimum" # "exclusiveMaximum" /\ "exclusiveMinimum" # "maximum"
      /\ "exclusiveMinimum" # "exclusiveMaximum" /\ "multipleOf" # "minimum" /\ "multipleOf" # "maximum"
      /\ "multipleOf" # "exclusiveMinimum" /\ "multipleOf" # "exclusiveMaximum"
  OBVIOUS
<1>2. QED  BY <1>1, Zenon DEF Bounds, Lowers, Uppers

(* What a rule's list crosses as, and that it reads back.                  *)
LEMMA ListLaid ==
    ASSUME NEW e \in Seq(Entry)
    PROVE  /\ DOMAIN e = 1 .. Len(e)
           /\ DOMAIN Decimals(e) = DOMAIN e
           /\ NotADecimal \notin Range(Decimals(e)) =>
                 Decimals(e) \in Seq(DOMAIN FloatOf) /\ Decimals(e) # Nothing
           /\ Packed(e) \in Seq(Nat) /\ Packed(e) # Nothing
           /\ EntriesOf(Packed(e)) = [i \in DOMAIN e |-> e[i].bytes]
           /\ [i \in DOMAIN e |-> e[i].bytes] \in Seq(Seq(Nat))
<1> DEFINE b == [i \in DOMAIN e |-> e[i].bytes]
           pieces == [i \in DOMAIN b |-> <<Len(b[i])>> \o b[i]]
<1>1. DOMAIN e = 1 .. Len(e) /\ Len(e) \in Nat /\ \A i \in DOMAIN e : e[i] \in Entry
  OBVIOUS
<1>2. \A i \in DOMAIN e : e[i].bytes \in Seq(Nat) /\ e[i].decimal \in DOMAIN FloatOf \cup {NotADecimal}
  BY <1>1 DEF Entry
<1>3. b \in Seq(Seq(Nat)) /\ DOMAIN b = DOMAIN e /\ \A i \in DOMAIN e : b[i] = e[i].bytes
  BY <1>1, <1>2
<1>4. Packed(e) = FlattenSeq(pieces)
  BY <1>3 DEF Packed
<1>5. EntriesOf(Packed(e)) = b
  BY <1>3, <1>4, ListReadsBack
<1>6. pieces \in Seq(Seq(Nat))
  <2>1. \A i \in DOMAIN b : b[i] \in Seq(Nat)  BY <1>2, <1>3
  <2>2. DOMAIN b = 1 .. Len(e)  BY <1>1, <1>3
  <2> HIDE DEF b
  <2>3. \A i \in DOMAIN b : <<Len(b[i])>> \o b[i] \in Seq(Nat)  BY <2>1
  <2>4. QED  BY <1>1, <2>2, <2>3
<1>7. Packed(e) \in Seq(Nat)
  <2> HIDE DEF pieces
  <2>1. Len(pieces) \in 0 .. Len(pieces)  BY <1>6
  <2>2. PICK f \in [0 .. Len(pieces) -> Seq(Nat)] : FlattenSeq(pieces) = f[Len(pieces)]
    BY <1>6, FlattenUnfolds
  <2>3. QED  BY <1>4, <2>1, <2>2
<1>8. ASSUME NotADecimal \notin Range(Decimals(e))
      PROVE  Decimals(e) \in Seq(DOMAIN FloatOf) /\ Decimals(e) # Nothing
  <2>1. DOMAIN Decimals(e) = DOMAIN e /\ \A i \in DOMAIN e : Decimals(e)[i] = e[i].decimal
    BY DEF Decimals
  <2>2. \A i \in DOMAIN e : Decimals(e)[i] \in DOMAIN FloatOf
    BY <1>2, <1>8, <2>1 DEF Range
  <2>3. Decimals(e) = [i \in 1 .. Len(e) |-> Decimals(e)[i]]
    BY <1>1 DEF Decimals
  <2>4. Decimals(e) \in Seq(DOMAIN FloatOf)
    BY <1>1, <2>2, <2>3
  <2>5. Decimals(e) \in Seq(Int)
    BY <2>4, NumberAssumption
  <2>6. QED  BY <2>4, <2>5, ConstraintsAssumption
<1>9. Packed(e) # Nothing
  BY <1>7, ConstraintsAssumption
<1>10. QED
  BY <1>1, <1>3, <1>5, <1>7, <1>8, <1>9 DEF Decimals

(* One more rule laid out, the slots of the others left alone.             *)
LEMMA LaidMore ==
    ASSUME NEW rs \in Seq(Rules), NEW r \in Rules, r.kind \in Kinds, NEW dr, NEW decl, NEW more,
           Laid(rs, dr, decl),
           \A i \in DOMAIN rs : rs[i].kind # r.kind,
           more \in Declarations, more.size = 1,
           more.flags = decl.flags \cup ({r.kind} \ {"rounding"}),
           Bears(dr, more, r),
           r.kind \notin Lowers => more.lower = decl.lower,
           r.kind \notin Uppers => more.upper = decl.upper,
           r.kind # "multipleOf" => more.multipleOf = decl.multipleOf,
           r.kind # "rounding" => more.rounding = decl.rounding,
           r.kind # "minLength" => more.minLength = decl.minLength,
           r.kind # "maxLength" => more.maxLength = decl.maxLength,
           r.kind # "enum" => /\ more.decimals = decl.decimals
                              /\ more.packedText = decl.packedText /\ more.texts = decl.texts
    PROVE  Laid(Append(rs, r), dr, more)
<1> DEFINE all == Append(rs, r)
           n == Len(rs)
<1>1. n \in Nat /\ DOMAIN rs = 1 .. n /\ DOMAIN all = 1 .. n + 1
      /\ all[n + 1] = r /\ \A i \in 1 .. n : all[i] = rs[i]
  OBVIOUS
<1> HIDE DEF all, n
<1>2. \A i \in 1 .. n + 1 : i = n + 1 \/ i \in 1 .. n
  BY <1>1
<1>3. \A i \in DOMAIN all : all[i].kind \in Kinds
  BY <1>1, <1>2 DEF Laid
<1>4. \A i, j \in DOMAIN all : all[i].kind = all[j].kind => i = j
  <2>1. \A i, j \in 1 .. n : rs[i].kind = rs[j].kind => i = j  BY <1>1 DEF Laid
  <2>2. QED  BY <1>1, <1>2, <2>1
<1>5. \A kind \in Kinds : kind \in more.flags <=>
          kind # "rounding" /\ \E i \in DOMAIN all : all[i].kind = kind
  <2>1. ASSUME NEW kind \in Kinds
        PROVE  (\E i \in DOMAIN all : all[i].kind = kind)
                 <=> (kind = r.kind \/ \E i \in DOMAIN rs : rs[i].kind = kind)
    <3>1. n + 1 \in 1 .. n + 1 /\ 1 .. n \subseteq 1 .. n + 1  BY <1>1
    <3>2. QED  BY <1>1, <1>2, <3>1
  <2>2. \A kind \in Kinds : kind \in decl.flags <=>
          kind # "rounding" /\ \E i \in DOMAIN rs : rs[i].kind = kind
    BY DEF Laid
  <2>3. QED  BY <2>1, <2>2
<1>6. ASSUME NEW i \in 1 .. n PROVE Bears(dr, more, rs[i])
  <2> DEFINE s == rs[i]
  <2>1. Bears(dr, decl, s) /\ s.kind # r.kind /\ s.kind \in Kinds
    BY <1>1 DEF Laid
  <2>2. s.kind # "rounding" => s.kind \in decl.flags
    <3>1. \A kind \in Kinds : kind \in decl.flags <=>
            kind # "rounding" /\ \E j \in DOMAIN rs : rs[j].kind = kind
      BY DEF Laid
    <3>2. QED  BY <1>1, <2>1, <3>1
  <2> HIDE DEF s
  <2>3. s.kind \in Lowers => more.lower = s.text.decimal \/ Lowers \subseteq more.flags
    BY <2>1, <2>2 DEF Bears, Lowers
  <2>4. s.kind \in Uppers => more.upper = s.text.decimal \/ Uppers \subseteq more.flags
    BY <2>1, <2>2 DEF Bears, Uppers
  <2>5. s.kind = "enum" => BearsList(dr, more, s)
    BY <2>1 DEF Bears, BearsList
  <2>6. QED  BY <2>1, <2>3, <2>4, <2>5 DEF Bears, s
<1>7. \A i \in DOMAIN all : Bears(dr, more, all[i])
  BY <1>1, <1>2, <1>6
<1>8. (\A i \in DOMAIN all : all[i].kind # "rounding") => more.rounding = 0
  <2>1. n + 1 \in 1 .. n + 1 /\ 1 .. n \subseteq 1 .. n + 1  BY <1>1
  <2>2. QED  BY <1>1, <2>1 DEF Laid
<1>9. "enum" \notin more.flags =>
          more.decimals = Nothing /\ more.packedText = Nothing /\ more.texts = Nothing
  BY DEF Laid
<1>10. QED
  BY <1>3, <1>4, <1>5, <1>7, <1>8, <1>9 DEF Laid, all

(* A refusal keeps the invariant when the rules, the last one included,    *)
(* mean nothing.                                                           *)
LEMMA RefuseKeepsInv ==
    ASSUME NEW code, code # Nothing, ConstraintsInv, phase # "idle", phase # "done",
           refusal = Nothing, Refuse(code),
           rules' \in Seq(Rules), ~Meaningful(rules', door)
    PROVE  ConstraintsInv'
<1>1. /\ TypeInv' /\ Unjudged' /\ BeforeAny' /\ LaidOut' /\ Accepted'
  BY DEF ConstraintsInv, TypeInv, Unjudged, BeforeAny, LaidOut, Accepted, Refuse
<1>2. Refused'
  BY DEF Refuse, Refused, Meaningful
<1>3. AnsweredByIt'
  BY DEF ConstraintsInv, AnsweredByIt, Refuse
<1>4. QED  BY <1>1, <1>2, <1>3 DEF ConstraintsInv

(* A rule taken keeps it when the declaration bears that rule too.         *)
LEMMA LayKeepsInv ==
    ASSUME NEW r \in Rules, NEW kinds, kinds \subseteq Kinds, ConstraintsInv,
           First(r, kinds), NEW decl, Lay(r.kind, decl),
           Laid(rules, door, d) => Laid(rules', door, d')
    PROVE  ConstraintsInv'
<1>1. phase = "building" /\ refusal = Nothing /\ Laid(rules, door, d)
  BY DEF First, Reach, ConstraintsInv, Unjudged, LaidOut
<1>2. /\ rules' = Append(rules, r) /\ rules \in Seq(Rules) /\ rules' \in Seq(Rules)
      /\ door' = door /\ phase' = phase /\ refusal' = refusal /\ held' = held
      /\ answer' = answer /\ seen' = seen \cup {r.kind} /\ r.kind \in Kinds
  BY DEF First, Reach, ConstraintsInv, TypeInv, Lay
<1>3. \A kind \in Kinds : kind \in seen' <=> \E i \in DOMAIN rules' : rules'[i].kind = kind
  <2> DEFINE all == Append(rules, r)
             n == Len(rules)
  <2>1. n \in Nat /\ DOMAIN rules = 1 .. n /\ DOMAIN all = 1 .. n + 1
        /\ all[n + 1] = r /\ \A i \in 1 .. n : all[i] = rules[i]
    BY <1>2
  <2>2. \A kind \in Kinds : kind \in seen <=> \E i \in DOMAIN rules : rules[i].kind = kind
    BY <1>1 DEF ConstraintsInv, LaidOut
  <2> HIDE DEF all, n
  <2>3. \A i \in 1 .. n + 1 : i = n + 1 \/ i \in 1 .. n  BY <2>1
  <2>4. n + 1 \in 1 .. n + 1 /\ 1 .. n \subseteq 1 .. n + 1  BY <2>1
  <2>5. rules' = all  BY <1>2 DEF all
  <2>6. QED  BY <1>2, <2>1, <2>2, <2>3, <2>4, <2>5
<1>4. LaidOut'
  BY <1>1, <1>2, <1>3 DEF LaidOut
<1>5. TypeInv' /\ Unjudged' /\ BeforeAny' /\ Accepted' /\ Refused' /\ AnsweredByIt'
  BY <1>1, <1>2 DEF ConstraintsInv, TypeInv, Unjudged, BeforeAny, Accepted, Refused, AnsweredByIt
<1>6. QED  BY <1>4, <1>5 DEF ConstraintsInv

(* What is known when the loop takes a rule of a kind it has not met.      *)
LEMMA NewKind ==
    ASSUME NEW r \in Rules, NEW kinds, kinds \subseteq Kinds, ConstraintsInv, First(r, kinds)
    PROVE  /\ phase = "building" /\ refusal = Nothing /\ Laid(rules, door, d) /\ d \in Declarations
           /\ d.size = 1
           /\ rules \in Seq(Rules) /\ rules' = Append(rules, r) /\ r.kind \in kinds
           /\ rules' \in Seq(Rules) /\ door \in Door
           /\ \A i \in DOMAIN rules : rules[i].kind # r.kind
<1>1. phase = "building" /\ refusal = Nothing /\ Laid(rules, door, d)
  BY DEF First, Reach, ConstraintsInv, Unjudged, LaidOut
<1>2. /\ rules \in Seq(Rules) /\ rules' = Append(rules, r) /\ r.kind \in kinds /\ r.kind \notin seen
      /\ rules' \in Seq(Rules) /\ door \in Door
  BY DEF First, Reach, ConstraintsInv, TypeInv
<1>3. \A kind \in Kinds : kind \in seen <=> \E i \in DOMAIN rules : rules[i].kind = kind
  BY <1>1 DEF ConstraintsInv, LaidOut
<1>4. QED  BY <1>1, <1>2, <1>3 DEF Laid

(* The argument the loop is at is one of the rules.                        *)
LEMMA LastRule ==
    ASSUME NEW rs \in Seq(Rules), NEW r
    PROVE  /\ Len(rs) + 1 \in DOMAIN Append(rs, r) /\ Append(rs, r)[Len(rs) + 1] = r
           /\ \A i \in DOMAIN rs : i \in DOMAIN Append(rs, r) /\ Append(rs, r)[i] = rs[i]
                                   /\ i # Len(rs) + 1
           /\ r \in ToSet(Append(rs, r))
<1> DEFINE n == Len(rs)
           all == Append(rs, r)
<1>1. n \in Nat /\ DOMAIN rs = 1 .. n /\ DOMAIN all = 1 .. n + 1
      /\ all[n + 1] = r /\ \A i \in 1 .. n : all[i] = rs[i]
  OBVIOUS
<1> HIDE DEF n, all
<1>2. n + 1 \in 1 .. n + 1 /\ \A i \in 1 .. n : i \in 1 .. n + 1 /\ i # n + 1
  BY <1>1
<1>3. QED  BY <1>1, <1>2 DEF ToSet, n, all

LEMMA ZeroRuleKeeps ==
    ASSUME NEW r \in Rules, ConstraintsInv, ZeroRule(r)
    PROVE  ConstraintsInv'
<1>1. phase = "building" /\ refusal = Nothing /\ rules \in Seq(Rules) /\ rules' = Append(rules, r)
      /\ rules' \in Seq(Rules) /\ r.kind = ZeroKind /\ Refuse(Own)
  BY DEF ZeroRule, Reach, ConstraintsInv, TypeInv, Unjudged
<1>2. ~Meaningful(rules', door)
  BY <1>1, LastRule DEF Meaningful
<1>3. Own # Nothing  BY ConstraintsAssumption DEF Own
<1>4. QED  BY <1>1, <1>2, <1>3, RefuseKeepsInv

LEMMA DeclaredTwiceKeeps ==
    ASSUME NEW r \in Rules, ConstraintsInv, DeclaredTwice(r)
    PROVE  ConstraintsInv'
<1>1. phase = "building" /\ refusal = Nothing /\ rules \in Seq(Rules) /\ rules' = Append(rules, r)
      /\ rules' \in Seq(Rules) /\ r.kind \in Kinds /\ r.kind \in seen /\ Refuse(Own)
  BY DEF DeclaredTwice, Reach, ConstraintsInv, TypeInv, Unjudged
<1>2. PICK i \in DOMAIN rules : rules[i].kind = r.kind
  BY <1>1 DEF ConstraintsInv, LaidOut
<1>3. ~(\A k, j \in DOMAIN rules' : rules'[k].kind = rules'[j].kind => k = j)
  BY <1>1, <1>2, LastRule
<1>4. ~Meaningful(rules', door)
  BY <1>3 DEF Meaningful
<1>5. Own # Nothing  BY ConstraintsAssumption DEF Own
<1>6. QED  BY <1>1, <1>4, <1>5, RefuseKeepsInv

LEMMA TakeBoundKeeps ==
    ASSUME NEW r \in Rules, ConstraintsInv, TakeBound(r)
    PROVE  ConstraintsInv'
<1> DEFINE kinds == DOMAIN Bounds
<1>1. First(r, kinds) /\ kinds \subseteq Kinds
  BY BoundsCases DEF TakeBound, Kinds
<1>2. /\ phase = "building" /\ refusal = Nothing /\ Laid(rules, door, d) /\ d \in Declarations
      /\ d.size = 1 /\ rules \in Seq(Rules) /\ rules' = Append(rules, r) /\ r.kind \in kinds
      /\ rules' \in Seq(Rules) /\ \A i \in DOMAIN rules : rules[i].kind # r.kind
  BY <1>1, NewKind
<1>3. r.text \in Entry /\ r.kind \in Kinds
  BY <1>1, <1>2, ConstraintsAssumption
<1>4. CASE r.text.decimal = NotADecimal
  <2>1. Refuse(8) /\ 8 # Nothing  BY <1>4, ConstraintsAssumption DEF TakeBound
  <2>2. ~Meaningful(rules', door)
    BY <1>2, <1>4, LastRule DEF Meaningful
  <2>3. QED  BY <1>2, <2>1, <2>2, RefuseKeepsInv
<1>5. CASE r.text.decimal # NotADecimal
  <2> DEFINE slot == Bounds[r.kind]
             base == [d EXCEPT ![slot] = r.text.decimal]
  <2>1. Lay(r.kind, base)
    BY <1>5 DEF TakeBound
  <2>2. d' = [base EXCEPT !.flags = @ \cup ({r.kind} \ {"rounding"})]
    BY <2>1 DEF Lay
  <2>3. r.text.decimal \in DOMAIN FloatOf
    BY <1>3, <1>5 DEF Entry
  <2>4. r.kind \in Lowers \/ r.kind \in Uppers \/ r.kind = "multipleOf"
    BY <1>2, BoundsCases
  <2>5. /\ r.kind \in Lowers => slot = "lower"
        /\ r.kind \in Uppers => slot = "upper"
        /\ r.kind = "multipleOf" => slot = "multipleOf"
    BY BoundsCases
  <2>6. Laid(rules', door, d')
    <3>1. ASSUME r.kind \in Lowers PROVE Laid(rules', door, d')
      <4>1. d' = [d EXCEPT !.lower = r.text.decimal, !.flags = @ \cup {r.kind}]
        BY <2>2, <2>5, <3>1 DEF Lowers
      <4>2. /\ d' \in Declarations /\ d'.size = 1 /\ d'.flags = d.flags \cup ({r.kind} \ {"rounding"})
            /\ d'.lower = r.text.decimal
            /\ \A f \in {"upper", "multipleOf", "rounding", "minLength", "maxLength",
                         "decimals", "packedText", "texts"} : d'[f] = d[f]
        BY <1>2, <1>3, <2>3, <3>1, <4>1 DEF Declarations, Lowers
      <4>3. Bears(door, d', r)
        BY <1>5, <3>1, <4>2 DEF Bears, Lowers, Uppers, Lengths
      <4>4. QED  BY <1>2, <1>3, <3>1, <4>2, <4>3, LaidMore DEF Lowers
    <3>2. ASSUME r.kind \in Uppers PROVE Laid(rules', door, d')
      <4>1. d' = [d EXCEPT !.upper = r.text.decimal, !.flags = @ \cup {r.kind}]
        BY <2>2, <2>5, <3>2 DEF Uppers
      <4>2. /\ d' \in Declarations /\ d'.size = 1 /\ d'.flags = d.flags \cup ({r.kind} \ {"rounding"})
            /\ d'.upper = r.text.decimal
            /\ \A f \in {"lower", "multipleOf", "rounding", "minLength", "maxLength",
                         "decimals", "packedText", "texts"} : d'[f] = d[f]
        BY <1>2, <1>3, <2>3, <3>2, <4>1 DEF Declarations, Uppers
      <4>3. Bears(door, d', r)
        BY <1>5, <3>2, <4>2 DEF Bears, Lowers, Uppers, Lengths
      <4>4. QED  BY <1>2, <1>3, <3>2, <4>2, <4>3, LaidMore DEF Uppers, Lowers
    <3>3. ASSUME r.kind = "multipleOf" PROVE Laid(rules', door, d')
      <4>1. d' = [d EXCEPT !.multipleOf = r.text.decimal, !.flags = @ \cup {r.kind}]
        BY <2>2, <2>5, <3>3
      <4>2. /\ d' \in Declarations /\ d'.size = 1 /\ d'.flags = d.flags \cup ({r.kind} \ {"rounding"})
            /\ d'.multipleOf = r.text.decimal
            /\ \A f \in {"lower", "upper", "rounding", "minLength", "maxLength",
                         "decimals", "packedText", "texts"} : d'[f] = d[f]
        BY <1>2, <1>3, <2>3, <3>3, <4>1 DEF Declarations
      <4>3. Bears(door, d', r)
        BY <1>5, <3>3, <4>2 DEF Bears, Lowers, Uppers, Lengths
      <4>4. QED  BY <1>2, <1>3, <3>3, <4>2, <4>3, LaidMore DEF Uppers, Lowers
    <3>4. QED  BY <2>4, <3>1, <3>2, <3>3
  <2>7. QED  BY <1>1, <2>1, <2>6, LayKeepsInv
<1>6. QED  BY <1>4, <1>5

LEMMA TakeRoundingKeeps ==
    ASSUME NEW r \in Rules, ConstraintsInv, TakeRounding(r)
    PROVE  ConstraintsInv'
<1> DEFINE base == [d EXCEPT !.rounding = r.rounding]
<1>1. First(r, {"rounding"}) /\ {"rounding"} \subseteq Kinds /\ Lay(r.kind, base)
  BY DEF TakeRounding, Kinds
<1>2. /\ Laid(rules, door, d) /\ d \in Declarations
      /\ d.size = 1 /\ rules \in Seq(Rules) /\ rules' = Append(rules, r) /\ r.kind = "rounding"
      /\ \A i \in DOMAIN rules : rules[i].kind # r.kind
  <2>1. r.kind \in {"rounding"}  BY <1>1, NewKind
  <2>2. QED  BY <1>1, <2>1, NewKind
<1>3. r.rounding \in Nat /\ r.kind \in Kinds
  BY <1>1, <1>2, ConstraintsAssumption
<1>4. d' = [d EXCEPT !.rounding = r.rounding]
  BY <1>1, <1>2 DEF Lay, Declarations
<1>5. /\ d' \in Declarations /\ d'.size = 1 /\ d'.flags = d.flags \cup ({r.kind} \ {"rounding"})
      /\ d'.rounding = r.rounding
      /\ \A f \in {"lower", "upper", "multipleOf", "minLength", "maxLength",
                   "decimals", "packedText", "texts"} : d'[f] = d[f]
  BY <1>2, <1>3, <1>4 DEF Declarations
<1>6. Bears(door, d', r)
  BY <1>2, <1>5, BoundsCases DEF Bears, Lowers, Uppers, Lengths
<1>7. Laid(rules', door, d')
  BY <1>2, <1>3, <1>5, <1>6, LaidMore DEF Lowers, Uppers
<1>8. QED  BY <1>1, <1>7, LayKeepsInv

LEMMA TakeTrimKeeps ==
    ASSUME NEW r \in Rules, ConstraintsInv, TakeTrim(r)
    PROVE  ConstraintsInv'
<1>1. First(r, {"trim"}) /\ {"trim"} \subseteq Kinds /\ Lay(r.kind, d)
  BY DEF TakeTrim, Kinds
<1>2. /\ Laid(rules, door, d) /\ d \in Declarations
      /\ d.size = 1 /\ rules \in Seq(Rules) /\ rules' = Append(rules, r) /\ r.kind = "trim"
      /\ \A i \in DOMAIN rules : rules[i].kind # r.kind
  <2>1. r.kind \in {"trim"}  BY <1>1, NewKind
  <2>2. QED  BY <1>1, <2>1, NewKind
<1>3. r.kind \in Kinds
  BY <1>1, <1>2
<1>4. d' = [d EXCEPT !.flags = @ \cup ({r.kind} \ {"rounding"})]
  BY <1>1 DEF Lay
<1>5. /\ d' \in Declarations /\ d'.size = 1 /\ d'.flags = d.flags \cup ({r.kind} \ {"rounding"})
      /\ \A f \in {"lower", "upper", "multipleOf", "rounding", "minLength", "maxLength",
                   "decimals", "packedText", "texts"} : d'[f] = d[f]
  BY <1>2, <1>3, <1>4 DEF Declarations
<1>6. Bears(door, d', r)
  BY <1>2, BoundsCases DEF Bears, Lowers, Uppers, Lengths
<1>7. Laid(rules', door, d')
  BY <1>2, <1>3, <1>5, <1>6, LaidMore
<1>8. QED  BY <1>1, <1>7, LayKeepsInv

LEMMA TakeLengthKeeps ==
    ASSUME NEW r \in Rules, ConstraintsInv, TakeLength(r)
    PROVE  ConstraintsInv'
<1>1. First(r, Lengths) /\ Lengths \subseteq Kinds
  BY DEF TakeLength, Kinds, Lengths
<1>2. /\ phase = "building" /\ refusal = Nothing /\ Laid(rules, door, d) /\ d \in Declarations
      /\ d.size = 1 /\ rules \in Seq(Rules) /\ rules' = Append(rules, r) /\ r.kind \in Lengths
      /\ rules' \in Seq(Rules) /\ \A i \in DOMAIN rules : rules[i].kind # r.kind
  BY <1>1, NewKind
<1>3. r.kind \in Kinds
  BY <1>1, <1>2
<1>4. CASE r.length \notin 0 .. MaxUint32
  <2>1. Refuse(Own) /\ Own # Nothing  BY <1>4, ConstraintsAssumption DEF TakeLength, Own
  <2>2. ~Meaningful(rules', door)
    BY <1>2, <1>4, LastRule DEF Meaningful
  <2>3. QED  BY <1>2, <2>1, <2>2, RefuseKeepsInv
<1>5. CASE r.length \in 0 .. MaxUint32
  <2> DEFINE base == [d EXCEPT ![r.kind] = r.length]
  <2>1. Lay(r.kind, base)
    BY <1>5 DEF TakeLength
  <2>2. d' = [base EXCEPT !.flags = @ \cup ({r.kind} \ {"rounding"})]
    BY <2>1 DEF Lay
  <2>3. Laid(rules', door, d')
    <3>1. ASSUME r.kind = "minLength" PROVE Laid(rules', door, d')
      <4>1. d' = [d EXCEPT !.minLength = r.length, !.flags = @ \cup {r.kind}]
        BY <2>2, <3>1
      <4>2. /\ d' \in Declarations /\ d'.size = 1 /\ d'.flags = d.flags \cup ({r.kind} \ {"rounding"})
            /\ d'.minLength = r.length
            /\ \A f \in {"lower", "upper", "multipleOf", "rounding", "maxLength",
                         "decimals", "packedText", "texts"} : d'[f] = d[f]
        BY <1>2, <1>3, <1>5, <3>1, <4>1 DEF Declarations
      <4>3. Bears(door, d', r)
        BY <1>5, <3>1, <4>2, BoundsCases DEF Bears, Lowers, Uppers
      <4>4. QED  BY <1>2, <1>3, <3>1, <4>2, <4>3, LaidMore DEF Lowers, Uppers
    <3>2. ASSUME r.kind = "maxLength" PROVE Laid(rules', door, d')
      <4>1. d' = [d EXCEPT !.maxLength = r.length, !.flags = @ \cup {r.kind}]
        BY <2>2, <3>2
      <4>2. /\ d' \in Declarations /\ d'.size = 1 /\ d'.flags = d.flags \cup ({r.kind} \ {"rounding"})
            /\ d'.maxLength = r.length
            /\ \A f \in {"lower", "upper", "multipleOf", "rounding", "minLength",
                         "decimals", "packedText", "texts"} : d'[f] = d[f]
        BY <1>2, <1>3, <1>5, <3>2, <4>1 DEF Declarations
      <4>3. Bears(door, d', r)
        BY <1>5, <3>2, <4>2, BoundsCases DEF Bears, Lowers, Uppers
      <4>4. QED  BY <1>2, <1>3, <3>2, <4>2, <4>3, LaidMore DEF Lowers, Uppers
    <3>3. QED  BY <1>2, <3>1, <3>2 DEF Lengths
  <2>4. QED  BY <1>1, <2>1, <2>3, LayKeepsInv
<1>6. QED  BY <1>4, <1>5

LEMMA TakeEnumKeeps ==
    ASSUME NEW r \in Rules, ConstraintsInv, TakeEnum(r)
    PROVE  ConstraintsInv'
<1> DEFINE e == r.entries
<1>1. First(r, {"enum"}) /\ {"enum"} \subseteq Kinds
  BY DEF TakeEnum, Kinds
<1>2. /\ phase = "building" /\ refusal = Nothing /\ Laid(rules, door, d) /\ d \in Declarations
      /\ d.size = 1 /\ rules \in Seq(Rules) /\ rules' = Append(rules, r) /\ r.kind = "enum"
      /\ rules' \in Seq(Rules) /\ door \in Door /\ \A i \in DOMAIN rules : rules[i].kind # r.kind
  <2>1. r.kind \in {"enum"}  BY <1>1, NewKind
  <2>2. QED  BY <1>1, <2>1, NewKind
<1>3. r.kind \in Kinds /\ e \in Seq(Entry)
  BY <1>1, <1>2, ConstraintsAssumption
<1>4. /\ DOMAIN e = 1 .. Len(e) /\ DOMAIN Decimals(e) = DOMAIN e
      /\ NotADecimal \notin Range(Decimals(e)) => Decimals(e) \in Seq(DOMAIN FloatOf)
      /\ Packed(e) \in Seq(Nat)
  BY <1>3, ListLaid
<1>5. d.decimals = Nothing /\ d.packedText = Nothing /\ d.texts = Nothing
  <2>1. "enum" \notin d.flags
    BY <1>1, <1>2 DEF Laid
  <2>2. QED  BY <1>2, <2>1 DEF Laid
<1>6. ASSUME NEW decl, Lay(r.kind, decl), decl \in Declarations, decl.size = 1,
             BearsList(door, decl, r),
             \A f \in {"flags", "lower", "upper", "multipleOf", "rounding", "minLength", "maxLength"} :
                decl[f] = d[f]
      PROVE  ConstraintsInv'
  <2>1. d' = [decl EXCEPT !.flags = @ \cup ({r.kind} \ {"rounding"})]
    BY <1>6 DEF Lay
  <2>2. /\ d' \in Declarations /\ d'.size = 1 /\ d'.flags = d.flags \cup ({r.kind} \ {"rounding"})
        /\ d'.decimals = decl.decimals /\ d'.packedText = decl.packedText /\ d'.texts = decl.texts
        /\ \A f \in {"lower", "upper", "multipleOf", "rounding", "minLength", "maxLength"} :
              d'[f] = d[f]
    BY <1>3, <1>6, <2>1 DEF Declarations
  <2>3. BearsList(door, d', r)
    BY <1>6, <2>2 DEF BearsList
  <2>4. Bears(door, d', r)
    BY <1>2, <2>3, BoundsCases DEF Bears, Lowers, Uppers, Lengths
  <2>5. Laid(rules', door, d')
    BY <1>2, <1>3, <2>2, <2>4, LaidMore
  <2>6. QED  BY <1>1, <1>6, <2>5, LayKeepsInv
<1>7. CASE e = <<>> /\ Lay(r.kind, d)
  <2>1. Range(Decimals(e)) = {}
    BY <1>4, <1>7 DEF Range
  <2>2. BearsList(door, d, r)
    BY <1>5, <1>7, <2>1 DEF BearsList
  <2>3. QED  BY <1>2, <1>6, <1>7, <2>2
<1>8. CASE e # <<>> /\ door # "text"
  <2>1. CASE NotADecimal \in Range(Decimals(e))
    <3>1. Refuse(8) /\ 8 # Nothing  BY <1>8, <2>1, ConstraintsAssumption DEF TakeEnum
    <3>2. \E i \in DOMAIN e : e[i].decimal = NotADecimal
      BY <1>4, <2>1 DEF Range, Decimals
    <3>3. ~Meaningful(rules', door)
      <4>1. r \in ToSet(rules')  BY <1>2, LastRule
      <4>2. CASE door = "integer"
        BY <1>2, <3>2, <4>1, <4>2 DEF Meaningful
      <4>3. CASE door # "integer"
        <5>1. "enum" \notin Taken[door]
          BY <1>2, <1>8, <4>3 DEF Taken, Door, Lowers, Uppers
        <5>2. QED  BY <1>2, <4>1, <5>1 DEF Meaningful
      <4>4. QED  BY <4>2, <4>3
    <3>4. QED  BY <1>2, <3>1, <3>3, RefuseKeepsInv
  <2>2. CASE NotADecimal \notin Range(Decimals(e))
    <3> DEFINE decl == [d EXCEPT !.decimals = Decimals(e)]
    <3>1. Lay(r.kind, decl)  BY <1>8, <2>2 DEF TakeEnum
    <3>2. /\ decl \in Declarations /\ decl.size = 1
          /\ decl.decimals = Decimals(e) /\ decl.packedText = Nothing /\ decl.texts = Nothing
          /\ \A f \in {"flags", "lower", "upper", "multipleOf", "rounding", "minLength", "maxLength"} :
                decl[f] = d[f]
      BY <1>2, <1>4, <1>5, <2>2 DEF Declarations
    <3>3. BearsList(door, decl, r)
      BY <1>8, <2>2, <3>2 DEF BearsList
    <3> HIDE DEF decl
    <3>4. QED  BY <1>6, <3>1, <3>2, <3>3
  <2>3. QED  BY <2>1, <2>2
<1>9. CASE e # <<>> /\ door = "text"
  <2>1. CASE r.numbers
    <3>1. Refuse(Own) /\ Own # Nothing  BY <1>9, <2>1, ConstraintsAssumption DEF TakeEnum, Own
    <3>2. r \in ToSet(rules')  BY <1>2, LastRule
    <3>3. ~Meaningful(rules', door)
      BY <1>2, <1>9, <2>1, <3>2 DEF Meaningful
    <3>4. QED  BY <1>2, <3>1, <3>3, RefuseKeepsInv
  <2>2. CASE ~r.numbers
    <3> DEFINE decl == [d EXCEPT !.packedText = Packed(e), !.texts = e]
    <3>1. Lay(r.kind, decl)  BY <1>9, <2>2 DEF TakeEnum
    <3>2. /\ decl \in Declarations /\ decl.size = 1
          /\ decl.decimals = Nothing /\ decl.packedText = Packed(e) /\ decl.texts = e
          /\ \A f \in {"flags", "lower", "upper", "multipleOf", "rounding", "minLength", "maxLength"} :
                decl[f] = d[f]
      BY <1>2, <1>3, <1>4, <1>5 DEF Declarations
    <3>3. BearsList(door, decl, r)
      BY <1>9, <2>2, <3>2 DEF BearsList
    <3> HIDE DEF decl
    <3>4. QED  BY <1>6, <3>1, <3>2, <3>3
  <2>3. QED  BY <2>1, <2>2
<1>10. QED  BY <1>7, <1>8, <1>9 DEF TakeEnum

(* Rules are told apart by their kinds, and a flag stands for one.         *)
LEMMA LaidRules ==
    ASSUME NEW rs \in Seq(Rules), NEW dr, NEW decl, Laid(rs, dr, decl)
    PROVE  /\ \A r \in ToSet(rs) : r \in Rules /\ r.kind \in Kinds /\ Bears(dr, decl, r)
           /\ \A r, s \in ToSet(rs) : r.kind = s.kind => r = s
           /\ \A r \in ToSet(rs) : r.kind # "rounding" => r.kind \in decl.flags
           /\ \A kind \in decl.flags : \E r \in ToSet(rs) : r.kind = kind
           /\ "rounding" \notin decl.flags
           /\ (\A r \in ToSet(rs) : r.kind # "rounding") => decl.rounding = 0
<1>1. DOMAIN rs = 1 .. Len(rs) /\ \A i \in DOMAIN rs : rs[i] \in Rules
  OBVIOUS
<1>2. ToSet(rs) = { rs[i] : i \in DOMAIN rs }
  BY DEF ToSet
<1>3. decl.flags \subseteq Kinds
  BY DEF Laid, Declarations
<1>4. \A r \in ToSet(rs) : r \in Rules /\ r.kind \in Kinds /\ Bears(dr, decl, r)
  BY <1>1, <1>2 DEF Laid
<1>5. \A r, s \in ToSet(rs) : r.kind = s.kind => r = s
  BY <1>2 DEF Laid
<1>6. \A kind \in Kinds : kind \in decl.flags <=>
          kind # "rounding" /\ \E i \in DOMAIN rs : rs[i].kind = kind
  BY DEF Laid
<1>7. (\A i \in DOMAIN rs : rs[i].kind # "rounding") => decl.rounding = 0
  BY DEF Laid
<1>8. "rounding" \in Kinds  BY DEF Kinds
<1>9. \A kind \in decl.flags : \E r \in ToSet(rs) : r.kind = kind
  BY <1>2, <1>3, <1>6
<1>10. QED
  BY <1>2, <1>4, <1>5, <1>6, <1>7, <1>8, <1>9

(* What the core reads of the list: the rule's own decimals or bytes.      *)
LEMMA ListRead ==
    ASSUME NEW rs \in Seq(Rules), NEW dr, NEW decl, Laid(rs, dr, decl)
    PROVE  /\ "enum" \notin decl.flags => NumbersOf(decl) = <<>> /\ TextsOf(decl) = <<>>
           /\ \A r \in ToSet(rs) : r.kind = "enum" =>
                 /\ r.entries \in Seq(Entry)
                 /\ NumbersOf(decl) = IF dr # "text" THEN Decimals(r.entries) ELSE <<>>
                 /\ TextsOf(decl) = IF dr = "text"
                                    THEN [i \in DOMAIN r.entries |-> r.entries[i].bytes] ELSE <<>>
<1>1. "enum" \notin decl.flags => NumbersOf(decl) = <<>> /\ TextsOf(decl) = <<>>
  BY DEF Laid, NumbersOf, TextsOf
<1>2. ASSUME NEW r \in ToSet(rs), r.kind = "enum"
      PROVE  /\ r.entries \in Seq(Entry)
             /\ NumbersOf(decl) = IF dr # "text" THEN Decimals(r.entries) ELSE <<>>
             /\ TextsOf(decl) = IF dr = "text"
                                THEN [i \in DOMAIN r.entries |-> r.entries[i].bytes] ELSE <<>>
  <2> DEFINE e == r.entries
  <2>1. e \in Seq(Entry)
    BY <1>2, LaidRules, ConstraintsAssumption
  <2>2. BearsList(dr, decl, r)
    BY <1>2, LaidRules DEF Bears
  <2>3. /\ NotADecimal \notin Range(Decimals(e)) => Decimals(e) # Nothing
        /\ Packed(e) # Nothing /\ EntriesOf(Packed(e)) = [i \in DOMAIN e |-> e[i].bytes]
    BY <2>1, ListLaid
  <2>4. e = <<>> => Decimals(e) = <<>> /\ [i \in DOMAIN e |-> e[i].bytes] = <<>>
    BY DEF Decimals
  <2> HIDE DEF e
  <2>5. NumbersOf(decl) = IF dr # "text" THEN Decimals(e) ELSE <<>>
    BY <2>2, <2>3, <2>4 DEF BearsList, NumbersOf, e
  <2>6. TextsOf(decl) = IF dr = "text" THEN [i \in DOMAIN e |-> e[i].bytes] ELSE <<>>
    BY <2>2, <2>3, <2>4 DEF BearsList, TextsOf, e
  <2>7. QED  BY <2>1, <2>5, <2>6 DEF e
<1>3. QED  BY <1>1, <1>2

(* The slots of the bounds, where no two rules share one.                  *)
LEMMA SlotsHold ==
    ASSUME NEW rs \in Seq(Rules), NEW dr, NEW decl, Laid(rs, dr, decl),
           ~(Lowers \subseteq decl.flags), ~(Uppers \subseteq decl.flags)
    PROVE  \A r \in ToSet(rs) :
              /\ r.kind \in Lowers => decl.lower = r.text.decimal
              /\ r.kind \in Uppers => decl.upper = r.text.decimal
              /\ r.kind = "multipleOf" => decl.multipleOf = r.text.decimal
              /\ r.kind \in DOMAIN Bounds => decl[Bounds[r.kind]] = r.text.decimal
<1> SUFFICES ASSUME NEW r \in ToSet(rs)
             PROVE  /\ r.kind \in Lowers => decl.lower = r.text.decimal
                    /\ r.kind \in Uppers => decl.upper = r.text.decimal
                    /\ r.kind = "multipleOf" => decl.multipleOf = r.text.decimal
                    /\ r.kind \in DOMAIN Bounds => decl[Bounds[r.kind]] = r.text.decimal
  OBVIOUS
<1>1. /\ r.kind \in Lowers => decl.lower = r.text.decimal
      /\ r.kind \in Uppers => decl.upper = r.text.decimal
      /\ r.kind = "multipleOf" => decl.multipleOf = r.text.decimal
  <2>1. Bears(dr, decl, r)  BY LaidRules
  <2>2. QED  BY <2>1 DEF Bears
<1>2. QED  BY <1>1, BoundsCases

(* What a declaration that passes the core's checks was laid out from      *)
(* means something, and what means something passes.                       *)
LEMMA PassingIsMeaningful ==
    ASSUME NEW rs \in Seq(Rules), NEW dr \in Door, NEW decl, Laid(rs, dr, decl),
           Passes(dr, decl, TRUE)
    PROVE  Meaningful(rs, dr)
<1> DEFINE declared == ToSet(rs)
           of(kinds) == { r \in declared : r.kind \in kinds }
<1>1. \A r \in declared : r \in Rules /\ r.kind \in Kinds /\ Bears(dr, decl, r)
                          /\ (r.kind # "rounding" => r.kind \in decl.flags)
  BY LaidRules
<1>2. \A r, s \in declared : r.kind = s.kind => r = s
  BY LaidRules
<1>3. ~(Lowers \subseteq decl.flags) /\ ~(Uppers \subseteq decl.flags)
  BY DEF Passes
<1>4. \A r \in declared :
         /\ r.kind \in Lowers => decl.lower = r.text.decimal
         /\ r.kind \in Uppers => decl.upper = r.text.decimal
         /\ r.kind = "multipleOf" => decl.multipleOf = r.text.decimal
         /\ r.kind \in DOMAIN Bounds => decl[Bounds[r.kind]] = r.text.decimal
  BY <1>3, SlotsHold
<1>5. \A r \in declared : r.kind # ZeroKind
  BY <1>1 DEF Kinds, ZeroKind, Lowers, Uppers
<1>6. \A i, j \in DOMAIN rs : rs[i].kind = rs[j].kind => i = j
  BY DEF Laid
<1>7. ASSUME NEW r \in declared
      PROVE  \/ r.kind \in Taken[dr]
             \/ r.kind = "rounding" /\ (r.rounding = 0 \/ dr # "text")
  <2>1. CASE r.kind # "rounding"  BY <1>1, <2>1 DEF Passes
  <2>2. CASE r.kind = "rounding" /\ dr = "text"
    <3>1. "multipleOf" \notin Taken[dr]  BY <2>2 DEF Taken
    <3>2. decl.rounding = Strict  BY <3>1 DEF Passes
    <3>3. QED  BY <1>1, <2>2, <3>2 DEF Bears, Strict
  <2>3. QED  BY <2>1, <2>2
<1>8. \A r \in of(DOMAIN Bounds) : r.text.decimal # NotADecimal /\ Fits(dr, r.text.decimal)
  <2>1. ASSUME NEW r \in declared, r.kind \in DOMAIN Bounds
        PROVE  r.text.decimal # NotADecimal /\ Fits(dr, r.text.decimal)
    <3>1. r.kind # "rounding"  BY <2>1, BoundsCases DEF Lowers, Uppers
    <3>2. r.kind \in decl.flags \cap DOMAIN Bounds  BY <1>1, <2>1, <3>1
    <3>3. Fits(dr, decl[Bounds[r.kind]])  BY <3>2 DEF Passes
    <3>4. QED  BY <1>1, <1>4, <2>1, <3>3 DEF Bears
  <2>2. QED  BY <2>1
<1>9. \A r \in of(Lengths) : r.length \in 0 .. MaxUint32
  BY <1>1 DEF Bears
<1>10. \A r \in of({"minLength"}), s \in of({"maxLength"}) : r.length <= s.length
  <2>1. ASSUME NEW r \in declared, r.kind = "minLength", NEW s \in declared, s.kind = "maxLength"
        PROVE  r.length <= s.length
    <3>1. Lengths \subseteq decl.flags  BY <1>1, <2>1 DEF Lengths
    <3>2. ~(decl.minLength > decl.maxLength)  BY <3>1 DEF Passes
    <3>3. decl.minLength = r.length /\ decl.maxLength = s.length  BY <1>1, <2>1 DEF Bears
    <3>4. decl.minLength \in Int /\ decl.maxLength \in Int
      BY ConstraintsAssumption DEF Laid, Declarations
    <3>5. QED  BY <3>2, <3>3, <3>4
  <2>2. QED  BY <2>1
<1>11. \A r, s \in of(Lowers) : r = s
  BY <1>1, <1>2, <1>3 DEF Lowers
<1>12. \A r, s \in of(Uppers) : r = s
  BY <1>1, <1>2, <1>3 DEF Uppers
<1>13. decl.lower \in Int /\ decl.upper \in Int /\ decl.multipleOf \in Int /\ decl.rounding \in Nat
  BY NumberAssumption DEF Laid, Declarations
<1>14. \A low \in of(Lowers), up \in of(Uppers) : low.text.decimal < up.text.decimal
  <2>1. ASSUME NEW low \in declared, low.kind \in Lowers, NEW up \in declared, up.kind \in Uppers
        PROVE  low.text.decimal < up.text.decimal
    <3>1. low.kind \in decl.flags /\ up.kind \in decl.flags  BY <1>1, <2>1 DEF Lowers, Uppers
    <3>2. decl.flags \cap Lowers # {} /\ decl.flags \cap Uppers # {}  BY <2>1, <3>1
    <3>3. ~(decl.lower >= decl.upper)  BY <3>2 DEF Passes
    <3>4. QED  BY <1>4, <1>13, <2>1, <3>3
  <2>2. QED  BY <2>1
<1>15. \A r \in of({"multipleOf"}) : r.text.decimal > 0
  <2>1. ASSUME NEW r \in declared, r.kind = "multipleOf" PROVE r.text.decimal > 0
    <3>1. "multipleOf" \in decl.flags  BY <1>1, <2>1
    <3>2. ~(decl.multipleOf <= 0)  BY <3>1 DEF Passes
    <3>3. QED  BY <1>4, <1>13, <2>1, <3>2
  <2>2. QED  BY <2>1
<1>16. \A r \in of({"rounding"}) : r.rounding \in 0 .. 3 /\ (r.rounding # 0 => of({"multipleOf"}) # {})
  <2>1. ASSUME NEW r \in declared, r.kind = "rounding"
        PROVE  r.rounding \in 0 .. 3 /\ (r.rounding # 0 => of({"multipleOf"}) # {})
    <3>1. r.rounding = decl.rounding  BY <1>1, <2>1 DEF Bears
    <3>2. ~(decl.rounding > Ceiling)  BY DEF Passes
    <3>3. r.rounding \in 0 .. 3  BY <1>13, <3>1, <3>2 DEF Ceiling
    <3>4. r.rounding # 0 => "multipleOf" \in decl.flags  BY <3>1 DEF Passes, Strict
    <3>5. "multipleOf" \in decl.flags => \E s \in declared : s.kind = "multipleOf"  BY LaidRules
    <3>6. QED  BY <3>3, <3>4, <3>5
  <2>2. QED  BY <2>1
<1>17. \A r \in of({"enum"}) :
              LET e == r.entries IN
              /\ e # <<>>
              /\ dr = "integer" =>
                    /\ \A i \in DOMAIN e : e[i].decimal # NotADecimal /\ Fits(dr, e[i].decimal)
                    /\ \A i, j \in DOMAIN e : e[i].decimal = e[j].decimal => i = j
              /\ dr = "text" =>
                    /\ ~r.numbers
                    /\ \A i \in DOMAIN e :
                          /\ Utf8(e[i].bytes) /\ e[i].bytes # <<>>
                          /\ of({"trim"}) # {} =>
                                e[i].bytes[1] \notin White /\ Last(e[i].bytes) \notin White
                    /\ \A i, j \in DOMAIN e : Fold(e[i].bytes) = Fold(e[j].bytes) => i = j
  <2>1. SUFFICES ASSUME NEW r \in declared, r.kind = "enum"
        PROVE  LET e == r.entries IN
              /\ e # <<>>
              /\ dr = "integer" =>
                    /\ \A i \in DOMAIN e : e[i].decimal # NotADecimal /\ Fits(dr, e[i].decimal)
                    /\ \A i, j \in DOMAIN e : e[i].decimal = e[j].decimal => i = j
              /\ dr = "text" =>
                    /\ ~r.numbers
                    /\ \A i \in DOMAIN e :
                          /\ Utf8(e[i].bytes) /\ e[i].bytes # <<>>
                          /\ of({"trim"}) # {} =>
                                e[i].bytes[1] \notin White /\ Last(e[i].bytes) \notin White
                    /\ \A i, j \in DOMAIN e : Fold(e[i].bytes) = Fold(e[j].bytes) => i = j
    BY Zenon
  <2> DEFINE e == r.entries
             numbers == NumbersOf(decl)
             texts == TextsOf(decl)
  <2>2. "enum" \in decl.flags  BY <1>1, <2>1
  <2>3. /\ e \in Seq(Entry)
        /\ numbers = IF dr # "text" THEN Decimals(e) ELSE <<>>
        /\ texts = IF dr = "text" THEN [i \in DOMAIN e |-> e[i].bytes] ELSE <<>>
    BY <2>1, ListRead
  <2>4. /\ numbers \o texts # <<>>
        /\ \A i \in DOMAIN numbers : Fits(dr, numbers[i])
        /\ \A i \in DOMAIN texts : Utf8(texts[i]) /\ texts[i] # <<>>
        /\ \A i \in DOMAIN texts : "trim" \in decl.flags => Trimmed(texts[i]) = texts[i]
        /\ IsInjective(numbers) /\ EntriesApart(texts)
    BY <2>2 DEF Passes
  <2>5. BearsList(dr, decl, r)  BY <1>1, <2>1 DEF Bears
  <2> HIDE DEF numbers, texts, e
  <2>6. e # <<>>
    <3>1. ASSUME e = <<>> PROVE FALSE
      <4>1. Decimals(e) = <<>> /\ [i \in DOMAIN e |-> e[i].bytes] = <<>>  BY <3>1 DEF Decimals
      <4>2. numbers = <<>> /\ texts = <<>>  BY <2>3, <4>1
      <4>3. QED  BY <2>4, <4>2
    <3>2. QED  BY <3>1
  <2>7. ASSUME dr = "integer"
        PROVE  /\ \A i \in DOMAIN e : e[i].decimal # NotADecimal /\ Fits(dr, e[i].decimal)
               /\ \A i, j \in DOMAIN e : e[i].decimal = e[j].decimal => i = j
    <3>1. numbers = [i \in DOMAIN e |-> e[i].decimal]  BY <2>3, <2>7 DEF Decimals
    <3>2. \A i \in DOMAIN e : e[i].decimal # NotADecimal
      BY <2>5, <2>7 DEF BearsList, Range, Decimals, e
    <3>3. QED  BY <2>4, <3>1, <3>2 DEF IsInjective
  <2>8. ASSUME dr = "text"
        PROVE  /\ ~r.numbers
               /\ \A i \in DOMAIN e :
                     /\ Utf8(e[i].bytes) /\ e[i].bytes # <<>>
                     /\ of({"trim"}) # {} =>
                           e[i].bytes[1] \notin White /\ Last(e[i].bytes) \notin White
               /\ \A i, j \in DOMAIN e : Fold(e[i].bytes) = Fold(e[j].bytes) => i = j
    <3>1. DOMAIN texts = DOMAIN e /\ \A i \in DOMAIN e : texts[i] = e[i].bytes
      BY <2>3, <2>8
    <3>2. ~r.numbers
      BY <2>5, <2>6, <2>8 DEF BearsList, e
    <3>3. ASSUME NEW i \in DOMAIN e, of({"trim"}) # {}
          PROVE  e[i].bytes[1] \notin White /\ Last(e[i].bytes) \notin White
      <4>1. "trim" \in decl.flags  BY <1>1, <3>3
      <4>2. e[i] \in Entry
        BY <2>3
      <4>3. e[i].bytes \in Seq(Nat)
        BY <4>2 DEF Entry
      <4>4. texts[i] # <<>> /\ Trimmed(texts[i]) = texts[i] /\ texts[i] = e[i].bytes
        BY <2>4, <3>1, <4>1
      <4>5. QED  BY <4>3, <4>4, TrimmedKeeps
    <3>4. \A i, j \in DOMAIN e : Fold(e[i].bytes) = Fold(e[j].bytes) => i = j
      BY <2>4, <3>1 DEF EntriesApart, IsInjective
    <3>5. QED  BY <2>4, <3>1, <3>2, <3>3, <3>4
  <2>9. QED  BY <2>6, <2>7, <2>8, Zenon DEF e
<1>18. QED
  BY <1>5, <1>6, <1>7, <1>8, <1>9, <1>10, <1>11, <1>12, <1>14, <1>15, <1>16, <1>17, Zenon
     DEF Meaningful

(* And what was laid out from rules that mean something passes.            *)
LEMMA MeaningfulPasses ==
    ASSUME NEW rs \in Seq(Rules), NEW dr \in Door, NEW decl, Laid(rs, dr, decl),
           Meaningful(rs, dr)
    PROVE  Passes(dr, decl, TRUE)
<1> DEFINE declared == ToSet(rs)
           numbers == NumbersOf(decl)
           texts == TextsOf(decl)
<1>1. \A r \in declared : r \in Rules /\ r.kind \in Kinds /\ Bears(dr, decl, r)
                          /\ (r.kind # "rounding" => r.kind \in decl.flags)
  BY LaidRules
<1>2. \A kind \in decl.flags : \E r \in declared : r.kind = kind
  BY LaidRules
<1>3. "rounding" \notin decl.flags /\ decl.size # 0
  <2>1. decl.size = 1  BY DEF Laid
  <2>2. QED  BY <2>1, LaidRules
<1>4. /\ \A r \in declared : r.kind \in Taken[dr] \/ (r.kind = "rounding" /\ (r.rounding = 0 \/ dr # "text"))
      /\ \A r \in declared : r.kind \in DOMAIN Bounds => Fits(dr, r.text.decimal)
      /\ \A r, s \in declared : r.kind = "minLength" /\ s.kind = "maxLength" => r.length <= s.length
      /\ \A r, s \in declared : r.kind \in Lowers /\ s.kind \in Lowers => r = s
      /\ \A r, s \in declared : r.kind \in Uppers /\ s.kind \in Uppers => r = s
      /\ \A r, s \in declared : r.kind \in Lowers /\ s.kind \in Uppers => r.text.decimal < s.text.decimal
      /\ \A r \in declared : r.kind = "multipleOf" => r.text.decimal > 0
      /\ \A r \in declared : r.kind = "rounding" =>
            /\ r.rounding \in 0 .. 3
            /\ r.rounding # 0 => \E s \in declared : s.kind = "multipleOf"
  BY DEF Meaningful
<1>5. decl.flags \subseteq Taken[dr]
  BY <1>2, <1>3, <1>4
<1>6. ~(Lowers \subseteq decl.flags)
  <2>1. ASSUME Lowers \subseteq decl.flags PROVE FALSE
    <3>1. PICK r \in declared : r.kind = "minimum"  BY <1>2, <2>1 DEF Lowers
    <3>2. PICK s \in declared : s.kind = "exclusiveMinimum"  BY <1>2, <2>1 DEF Lowers
    <3>3. QED  BY <1>4, <3>1, <3>2 DEF Lowers
  <2>2. QED  BY <2>1
<1>7. ~(Uppers \subseteq decl.flags)
  <2>1. ASSUME Uppers \subseteq decl.flags PROVE FALSE
    <3>1. PICK r \in declared : r.kind = "maximum"  BY <1>2, <2>1 DEF Uppers
    <3>2. PICK s \in declared : s.kind = "exclusiveMaximum"  BY <1>2, <2>1 DEF Uppers
    <3>3. QED  BY <1>4, <3>1, <3>2 DEF Uppers
  <2>2. QED  BY <2>1
<1>8. \A r \in declared :
         /\ r.kind \in Lowers => decl.lower = r.text.decimal
         /\ r.kind \in Uppers => decl.upper = r.text.decimal
         /\ r.kind = "multipleOf" => decl.multipleOf = r.text.decimal
         /\ r.kind \in DOMAIN Bounds => decl[Bounds[r.kind]] = r.text.decimal
  BY <1>6, <1>7, SlotsHold
<1>9. /\ decl.lower \in Int /\ decl.upper \in Int /\ decl.multipleOf \in Int /\ decl.rounding \in Nat
      /\ decl.minLength \in Int /\ decl.maxLength \in Int
  BY NumberAssumption, ConstraintsAssumption DEF Laid, Declarations
<1>10. ~(decl.flags \cap Lowers # {} /\ decl.flags \cap Uppers # {} /\ decl.lower >= decl.upper)
  <2>1. ASSUME decl.flags \cap Lowers # {}, decl.flags \cap Uppers # {} PROVE decl.lower < decl.upper
    <3>1. PICK low \in declared : low.kind \in Lowers  BY <1>2, <2>1
    <3>2. PICK up \in declared : up.kind \in Uppers  BY <1>2, <2>1
    <3>3. QED  BY <1>4, <1>8, <3>1, <3>2
  <2>2. QED  BY <1>9, <2>1
<1>11. "multipleOf" \in decl.flags \/ decl.rounding = Strict
  <2>1. ASSUME decl.rounding # 0 PROVE "multipleOf" \in decl.flags
    <3>1. PICK r \in declared : r.kind = "rounding"  BY <2>1, LaidRules
    <3>2. r.rounding # 0  BY <1>1, <2>1, <3>1 DEF Bears
    <3>3. QED  BY <1>1, <1>4, <3>1, <3>2
  <2>2. QED  BY <2>1 DEF Strict
<1>12. "multipleOf" \in decl.flags => ~(decl.multipleOf <= 0)
  <2>1. ASSUME "multipleOf" \in decl.flags PROVE ~(decl.multipleOf <= 0)
    <3>1. PICK r \in declared : r.kind = "multipleOf"  BY <1>2, <2>1
    <3>2. QED  BY <1>4, <1>8, <1>9, <3>1
  <2>2. QED  BY <2>1
<1>13. ~(Lengths \subseteq decl.flags /\ decl.minLength > decl.maxLength)
  <2>1. ASSUME Lengths \subseteq decl.flags PROVE decl.minLength <= decl.maxLength
    <3>1. PICK r \in declared : r.kind = "minLength"  BY <1>2, <2>1 DEF Lengths
    <3>2. PICK s \in declared : s.kind = "maxLength"  BY <1>2, <2>1 DEF Lengths
    <3>3. QED  BY <1>1, <1>4, <3>1, <3>2 DEF Bears
  <2>2. QED  BY <1>9, <2>1
<1>14. \A kind \in decl.flags \cap DOMAIN Bounds : Fits(dr, decl[Bounds[kind]])
  BY <1>2, <1>4, <1>8
<1>15. ~(decl.rounding > Ceiling)
  <2>1. CASE \A r \in declared : r.kind # "rounding"
    <3>1. decl.rounding = 0  BY <2>1, LaidRules
    <3>2. QED  BY <3>1 DEF Ceiling
  <2>2. CASE \E r \in declared : r.kind = "rounding"
    <3>1. PICK r \in declared : r.kind = "rounding"  BY <2>2
    <3>2. decl.rounding \in 0 .. 3  BY <1>1, <1>4, <3>1 DEF Bears
    <3>3. QED  BY <3>2 DEF Ceiling
  <2>3. QED  BY <2>1, <2>2
<1>16. /\ \A i \in DOMAIN numbers : Fits(dr, numbers[i])
       /\ \A i \in DOMAIN texts : Utf8(texts[i])
       /\ IsInjective(numbers) /\ EntriesApart(texts)
       /\ "enum" \in decl.flags <=> numbers \o texts # <<>>
       /\ \A i \in DOMAIN texts :
             /\ texts[i] # <<>>
             /\ "trim" \in decl.flags => Trimmed(texts[i]) = texts[i]
  <2>1. CASE "enum" \notin decl.flags
    <3>1. numbers = <<>> /\ texts = <<>>  BY <2>1, ListRead
    <3> HIDE DEF numbers, texts
    <3>2. QED  BY <2>1, <3>1 DEF IsInjective, EntriesApart
  <2>2. CASE "enum" \in decl.flags
    <3>1. PICK r \in declared : r.kind = "enum"  BY <1>2, <2>2
    <3> DEFINE e == r.entries
    <3>2. /\ e \in Seq(Entry)
          /\ numbers = IF dr # "text" THEN Decimals(e) ELSE <<>>
          /\ texts = IF dr = "text" THEN [i \in DOMAIN e |-> e[i].bytes] ELSE <<>>
      BY <3>1, ListRead
    <3>3. dr \in {"integer", "text"}
      <4>1. "enum" \in Taken[dr]  BY <1>4, <3>1
      <4>2. QED  BY <4>1 DEF Taken, Door, Lowers, Uppers
    <3>4. /\ e # <<>>
          /\ dr = "integer" =>
                /\ \A i \in DOMAIN e : e[i].decimal # NotADecimal /\ Fits(dr, e[i].decimal)
                /\ \A i, j \in DOMAIN e : e[i].decimal = e[j].decimal => i = j
          /\ dr = "text" =>
                /\ \A i \in DOMAIN e : Utf8(e[i].bytes) /\ e[i].bytes # <<>>
                /\ \A i, j \in DOMAIN e : Fold(e[i].bytes) = Fold(e[j].bytes) => i = j
      BY <3>1 DEF Meaningful
    <3>5. ASSUME dr = "text", NEW i \in DOMAIN e, NEW s \in declared, s.kind = "trim"
          PROVE  e[i].bytes[1] \notin White /\ Last(e[i].bytes) \notin White
      <4>1. { q \in ToSet(rs) : q.kind \in {"trim"} } # {}  BY <3>5
      <4>2. QED  BY <3>1, <3>5, <4>1 DEF Meaningful
    <3> HIDE DEF numbers, texts, e
    <3>6. CASE dr = "integer"
      <4>1. numbers = [i \in DOMAIN e |-> e[i].decimal] /\ texts = <<>>
        BY <3>2, <3>6 DEF Decimals
      <4>2. DOMAIN e = 1 .. Len(e) /\ Len(e) \in Nat /\ Len(e) # 0
        BY <3>2, <3>4
      <4>3. numbers \o texts # <<>>
        <5>1. Len(numbers) = Len(e)  BY <4>1, <4>2
        <5>2. numbers \o texts = numbers  BY <4>1, <4>2
        <5>3. QED  BY <4>2, <5>1, <5>2
      <4>4. QED  BY <2>2, <3>4, <3>6, <4>1, <4>3 DEF IsInjective, EntriesApart
    <3>7. CASE dr = "text"
      <4>1. numbers = <<>> /\ texts = [i \in DOMAIN e |-> e[i].bytes]
        BY <3>2, <3>7
      <4>2. DOMAIN e = 1 .. Len(e) /\ Len(e) \in Nat /\ Len(e) # 0
        BY <3>2, <3>4
      <4>3. numbers \o texts # <<>>
        <5>1. Len(texts) = Len(e)  BY <4>1, <4>2
        <5>2. numbers \o texts = texts  BY <4>1, <4>2
        <5>3. QED  BY <4>2, <5>1, <5>2
      <4>4. IsInjective(numbers)  BY <4>1 DEF IsInjective
      <4>5. EntriesApart(texts)  BY <3>4, <3>7, <4>1 DEF IsInjective, EntriesApart
      <4>6. ASSUME NEW i \in DOMAIN e, "trim" \in decl.flags
            PROVE  Trimmed(e[i].bytes) = e[i].bytes
        <5>1. PICK s \in declared : s.kind = "trim"  BY <1>2, <4>6
        <5>2. e[i].bytes[1] \notin White /\ Last(e[i].bytes) \notin White
          BY <3>5, <3>7, <5>1
        <5>3. e[i] \in Entry  BY <3>2
        <5>4. e[i].bytes \in Seq(Nat)  BY <5>3 DEF Entry
        <5>5. e[i].bytes # <<>>  BY <3>4, <3>7
        <5>6. QED  BY <5>2, <5>4, <5>5, TrimmedKeeps
      <4>7. DOMAIN numbers = {} /\ DOMAIN texts = DOMAIN e /\ \A i \in DOMAIN e : texts[i] = e[i].bytes
        BY <4>1
      <4>8. \A i \in DOMAIN texts :
               /\ Utf8(texts[i]) /\ texts[i] # <<>>
               /\ "trim" \in decl.flags => Trimmed(texts[i]) = texts[i]
        <5>1. SUFFICES ASSUME NEW i \in DOMAIN e
                       PROVE  /\ Utf8(e[i].bytes) /\ e[i].bytes # <<>>
                              /\ "trim" \in decl.flags => Trimmed(e[i].bytes) = e[i].bytes
          BY <4>7
        <5>2. QED  BY <3>4, <3>7, <4>6
      <4>9. QED  BY <2>2, <4>3, <4>4, <4>5, <4>7, <4>8
    <3>8. QED  BY <3>3, <3>6, <3>7
  <2>3. QED  BY <2>1, <2>2
<1>17. QED
  BY <1>3, <1>5, <1>6, <1>7, <1>10, <1>11, <1>12, <1>13, <1>14, <1>15, <1>16 DEF Passes

(* The core accepts what was laid out exactly when the rules mean          *)
(* something, whatever their number and order.                             *)
LEMMA CoreTakesTheMeaningful ==
    ASSUME NEW rs \in Seq(Rules), NEW dr \in Door, NEW decl, Laid(rs, dr, decl)
    PROVE  Refusal(dr, decl, TRUE) = 0 <=> Meaningful(rs, dr)
  BY PassingIsMeaningful, MeaningfulPasses, RefusalIsTheFirst

-----------------------------------------------------------------------------
LEMMA InitConstraints == Init => ConstraintsInv
<1> SUFFICES ASSUME Init PROVE ConstraintsInv
  OBVIOUS
<1>1. rules = <<>> /\ <<>> \in Seq(Rules)
  BY DEF Init
<1>2. QED
  BY <1>1 DEF Init, ConstraintsInv, TypeInv, Unjudged, BeforeAny, LaidOut, Accepted, Refused,
              AnsweredByIt

LEMMA NewConstraintsKeeps ==
    ASSUME ConstraintsInv, NewConstraints
    PROVE  ConstraintsInv'
<1>1. rules = <<>> /\ seen = {} /\ refusal = Nothing /\ held = ZeroDeclaration
  BY DEF NewConstraints, ConstraintsInv, BeforeAny, Unjudged
<1>2. d' = [ZeroDeclaration EXCEPT !.size = 1]
  BY DEF NewConstraints
<1>3. d' \in Declarations /\ d'.size = 1 /\ d'.flags = {} /\ d'.rounding = 0
      /\ d'.decimals = Nothing /\ d'.packedText = Nothing /\ d'.texts = Nothing
  BY <1>2, ConstraintsAssumption DEF ZeroDeclaration, Declarations
<1>4. DOMAIN rules = {}
  BY <1>1
<1>5. Laid(rules, door, d')
  BY <1>3, <1>4 DEF Laid
<1>6. QED
  BY <1>1, <1>4, <1>5
     DEF NewConstraints, ConstraintsInv, TypeInv, Unjudged, BeforeAny, LaidOut, Accepted, Refused,
         AnsweredByIt

LEMMA ConstraintsCheckKeeps ==
    ASSUME ConstraintsInv, ConstraintsCheck
    PROVE  ConstraintsInv'
<1>1. /\ phase = "checking" /\ refusal = Nothing /\ Laid(rules, door, d)
      /\ rules \in Seq(Rules) /\ rules' = rules /\ door \in Door
  BY DEF ConstraintsCheck, ConstraintsInv, Unjudged, LaidOut, TypeInv
<1>2. CASE Refusal(door, d, TRUE) # 0
  <2> DEFINE code == Refusal(door, d, TRUE)
  <2>1. Refuse(code)  BY <1>2 DEF ConstraintsCheck
  <2>2. code \in 0 .. 13  BY RefusalIsTheFirst
  <2> HIDE DEF code
  <2>3. code # Nothing  BY <2>2, ConstraintsAssumption
  <2>4. ~Meaningful(rules', door)
    BY <1>1, <1>2, CoreTakesTheMeaningful
  <2>5. QED  BY <1>1, <2>1, <2>3, <2>4, RefuseKeepsInv
<1>3. CASE Refusal(door, d, TRUE) = 0
  <2>1. /\ phase' = "done" /\ held' = d
        /\ rules' = rules /\ door' = door /\ seen' = seen /\ d' = d /\ refusal' = refusal
        /\ answer' = answer
    BY <1>3 DEF ConstraintsCheck
  <2>2. Passes(door, d, TRUE)  BY <1>3, RefusalIsTheFirst
  <2>3. LaidOut' /\ Accepted'
    BY <1>1, <2>1, <2>2 DEF ConstraintsInv, LaidOut, Accepted
  <2>4. TypeInv' /\ Unjudged' /\ BeforeAny' /\ Refused' /\ AnsweredByIt'
    BY <1>1, <2>1 DEF ConstraintsInv, TypeInv, Unjudged, BeforeAny, Refused, AnsweredByIt
  <2>5. QED  BY <2>3, <2>4 DEF ConstraintsInv
<1>4. QED  BY <1>2, <1>3

LEMMA CheckKeeps ==
    ASSUME ConstraintsInv, NEW given \in Askable, Check(given)
    PROVE  ConstraintsInv'
<1>1. /\ phase' = phase /\ door' = door /\ rules' = rules /\ seen' = seen /\ d' = d
      /\ refusal' = refusal /\ held' = held /\ asked' = given
  BY DEF Check
<1>2. TypeInv' /\ Unjudged' /\ BeforeAny' /\ LaidOut' /\ Accepted' /\ Refused'
  BY <1>1 DEF ConstraintsInv, TypeInv, Unjudged, BeforeAny, LaidOut, Accepted, Refused
<1>3. AnsweredByIt'
  <2>1. CASE held.size = 0
    BY <2>1 DEF Check, AnsweredByIt
  <2>2. CASE held.size # 0
    <3>1. phase = "done" /\ refusal = Nothing
      BY <2>2 DEF Check, ConstraintsInv, Unjudged, Refused, ZeroDeclaration
    <3>2. answer' = Answer(given)  BY <2>2 DEF Check
    <3>3. Askable' = Askable  BY <1>1 DEF Askable
    <3>4. Answer(given) = Panic \/ Answer(given) = Judgement(door, held, given)
      BY DEF Answer, Judgement
    <3>5. answer' = Panic \/ answer' = Judgement(door', held', asked')
      BY <1>1, <3>2, <3>4
    <3>6. QED  BY <1>1, <3>1, <3>3, <3>5 DEF AnsweredByIt
  <2>3. QED  BY <2>1, <2>2
<1>4. QED  BY <1>2, <1>3 DEF ConstraintsInv

LEMMA NextConstraints == ConstraintsInv /\ [Next]_vars => ConstraintsInv'
<1> SUFFICES ASSUME ConstraintsInv, [Next]_vars PROVE ConstraintsInv'
  OBVIOUS
<1>1. CASE NewConstraints
  BY <1>1, NewConstraintsKeeps
<1>2. ASSUME NEW r \in Rules,
             ZeroRule(r) \/ DeclaredTwice(r) \/ TakeBound(r) \/ TakeRounding(r)
               \/ TakeTrim(r) \/ TakeLength(r) \/ TakeEnum(r)
      PROVE  ConstraintsInv'
  BY <1>2, ZeroRuleKeeps, DeclaredTwiceKeeps, TakeBoundKeeps, TakeRoundingKeeps, TakeTrimKeeps,
     TakeLengthKeeps, TakeEnumKeeps
<1>3. CASE RulesDone
  BY <1>3 DEF RulesDone, ConstraintsInv, TypeInv, Unjudged, BeforeAny, LaidOut, Accepted, Refused,
              AnsweredByIt
<1>4. CASE ConstraintsCheck
  BY <1>4, ConstraintsCheckKeeps
<1>5. ASSUME NEW given \in Askable, Check(given) PROVE ConstraintsInv'
  BY <1>5, CheckKeeps
<1>6. CASE UNCHANGED vars
  BY <1>6 DEF vars, ConstraintsInv, TypeInv, Unjudged, BeforeAny, LaidOut, Accepted, Refused,
              AnsweredByIt, Askable
<1>7. QED
  BY <1>1, <1>2, <1>3, <1>4, <1>5, <1>6 DEF Next

(* The invariant holds of every state NewConstraints and Check reach.      *)
THEOREM ConstraintsInvariant == Spec => []ConstraintsInv
  BY InitConstraints, NextConstraints, PTL DEF Spec

(* NewConstraints accepts exactly the rules that mean something at the     *)
(* door, whatever their number and order: what it refuses means nothing,   *)
(* what it accepts does (checked.go, NewConstraints).                      *)
THEOREM AcceptsExactlyTheMeaningful == Spec => []AcceptsTheMeaningful
<1>1. ConstraintsInv => AcceptsTheMeaningful
  <2> SUFFICES ASSUME ConstraintsInv, phase = "done" PROVE Built <=> Meaningful(rules, door)
    BY DEF AcceptsTheMeaningful
  <2>1. CASE refusal = Nothing
    <3>1. Laid(rules, door, d) /\ Passes(door, d, TRUE) /\ rules \in Seq(Rules) /\ door \in Door
      BY <2>1 DEF ConstraintsInv, LaidOut, Accepted, TypeInv
    <3>2. QED  BY <2>1, <3>1, PassingIsMeaningful DEF Built
  <2>2. CASE refusal # Nothing
    BY <2>2 DEF ConstraintsInv, Refused, Built
  <2>3. QED  BY <2>1, <2>2
<1>2. QED
  BY <1>1, ConstraintsInvariant, PTL

(* What is known of a Constraints that was built.                          *)
LEMMA BuiltFacts ==
    ASSUME ConstraintsInv, phase = "done", refusal = Nothing
    PROVE  /\ Laid(rules, door, held) /\ Passes(door, held, TRUE)
           /\ rules \in Seq(Rules) /\ door \in Door
           /\ held \in Declarations /\ Meaningful(rules, door)
<1>1. /\ Laid(rules, door, held) /\ Passes(door, held, TRUE)
      /\ rules \in Seq(Rules) /\ door \in Door
  BY DEF ConstraintsInv, LaidOut, Accepted, TypeInv
<1>2. held \in Declarations  BY <1>1 DEF Laid
<1>3. Meaningful(rules, door)  BY <1>1, PassingIsMeaningful
<1>4. QED  BY <1>1, <1>2, <1>3

(* A Constraints says what its rules said: no bound is lost where two      *)
(* kinds share a slot, none is reported that was not declared, and the     *)
(* enum list reads back, entry by entry (the accessors, pack).             *)
THEOREM HeldAsDeclared == Spec => []HoldsWhatWasDeclared
<1>1. ConstraintsInv => HoldsWhatWasDeclared
  <2> SUFFICES ASSUME ConstraintsInv, phase = "done", refusal = Nothing
               PROVE  /\ \A kind \in Kinds \ {"rounding"} :
                            IF Declared(kind) = {} THEN Accessor(held, kind) = Nothing
                            ELSE Declared(kind) = { r \in ToSet(rules) :
                                        r.kind = kind /\ Worth(r) = Accessor(held, kind) }
                      /\ \A r \in Declared("enum") :
                            IF door = "text"
                            THEN /\ EntriesOf(held.packedText) = [i \in DOMAIN r.entries |-> r.entries[i].bytes]
                                 /\ held.texts = r.entries
                            ELSE held.decimals = Decimals(r.entries)
    BY Zenon DEF HoldsWhatWasDeclared, Built
  <2>1. /\ Laid(rules, door, held) /\ Passes(door, held, TRUE) /\ rules \in Seq(Rules)
        /\ Meaningful(rules, door) /\ door \in Door
    BY BuiltFacts
  <2>2. /\ \A r \in ToSet(rules) : /\ r.kind \in Kinds /\ Bears(door, held, r)
                                   /\ r.kind # "rounding" => r.kind \in held.flags
        /\ \A kind \in held.flags : \E r \in ToSet(rules) : r.kind = kind
    BY <2>1, LaidRules
  <2>3. ~(Lowers \subseteq held.flags) /\ ~(Uppers \subseteq held.flags)
    BY <2>1 DEF Passes
  <2>4. \A r \in ToSet(rules) : r.kind \in DOMAIN Bounds => held[Bounds[r.kind]] = r.text.decimal
    BY <2>1, <2>3, SlotsHold
  <2>5. ASSUME NEW kind \in Kinds \ {"rounding"}
        PROVE  IF Declared(kind) = {} THEN Accessor(held, kind) = Nothing
               ELSE Declared(kind) = { r \in ToSet(rules) :
                                         r.kind = kind /\ Worth(r) = Accessor(held, kind) }
    <3>1. CASE Declared(kind) = {}
      <4>1. kind \notin held.flags  BY <2>2, <3>1 DEF Declared
      <4>2. QED  BY <3>1, <4>1 DEF Accessor
    <3>2. CASE Declared(kind) # {}
      <4>1. kind \in held.flags  BY <2>2, <3>2 DEF Declared
      <4>2. ASSUME NEW r \in ToSet(rules), r.kind = kind PROVE Worth(r) = Accessor(held, kind)
        <5>1. CASE kind \in DOMAIN Bounds
          BY <2>4, <4>1, <4>2, <5>1 DEF Accessor, Worth
        <5>2. CASE kind \notin DOMAIN Bounds /\ kind \in Lengths
          BY <2>2, <4>1, <4>2, <5>2 DEF Accessor, Worth, Lengths, Bears
        <5>3. CASE kind \notin DOMAIN Bounds /\ kind \notin Lengths
          BY <4>1, <4>2, <5>3 DEF Accessor, Worth
        <5>4. QED  BY <5>1, <5>2, <5>3
      <4>3. QED  BY <3>2, <4>2 DEF Declared
    <3>3. QED  BY <3>1, <3>2
  <2>6. ASSUME NEW r \in Declared("enum")
        PROVE  IF door = "text"
               THEN /\ EntriesOf(held.packedText) = [i \in DOMAIN r.entries |-> r.entries[i].bytes]
                    /\ held.texts = r.entries
               ELSE held.decimals = Decimals(r.entries)
    <3>1. r \in ToSet(rules) /\ r.kind = "enum"  BY DEF Declared
    <3>2. BearsList(door, held, r)  BY <2>2, <3>1 DEF Bears
    <3>3. r.entries # <<>>  BY <2>1, <3>1 DEF Meaningful
    <3>4. r.entries \in Seq(Entry)  BY <2>1, <3>1, ListRead
    <3>5. EntriesOf(Packed(r.entries)) = [i \in DOMAIN r.entries |-> r.entries[i].bytes]
      BY <3>4, ListLaid
    <3>6. QED  BY <3>2, <3>3, <3>5 DEF BearsList
  <2>7. QED  BY <2>5, <2>6
<1>2. QED
  BY <1>1, ConstraintsInvariant, PTL

(* The declared steps and mode are the ones the core rounds by.            *)
LEMMA StepsHeld ==
    ASSUME NEW rs \in Seq(Rules), NEW dr \in Door, NEW c, Laid(rs, dr, c), Passes(dr, c, TRUE)
    PROVE  /\ c.rounding \in 0 .. 3
           /\ \A r \in ToSet(rs) : r.kind = "rounding" => r.rounding = c.rounding
           /\ (\A r \in ToSet(rs) : r.kind # "rounding") => c.rounding = Strict
           /\ "multipleOf" \in c.flags => c.multipleOf \in Nat \ {0}
           /\ \A r \in ToSet(rs) : r.kind = "multipleOf" =>
                 "multipleOf" \in c.flags /\ r.text.decimal = c.multipleOf
<1>1. c.rounding \in Nat /\ c.multipleOf \in Int
  BY NumberAssumption DEF Laid, Declarations
<1>2. ~(c.rounding > Ceiling) /\ ("multipleOf" \in c.flags => ~(c.multipleOf <= 0))
  BY DEF Passes
<1>3. c.rounding \in 0 .. 3 /\ ("multipleOf" \in c.flags => c.multipleOf \in Nat \ {0})
  BY <1>1, <1>2 DEF Ceiling
<1>4. ~(Lowers \subseteq c.flags) /\ ~(Uppers \subseteq c.flags)
  BY DEF Passes
<1>5. \A r \in ToSet(rs) : r.kind = "multipleOf" =>
         "multipleOf" \in c.flags /\ r.text.decimal = c.multipleOf
  BY <1>4, LaidRules, SlotsHold
<1>6. (\A r \in ToSet(rs) : r.kind # "rounding") => c.rounding = Strict
  BY LaidRules DEF Strict
<1>7. \A r \in ToSet(rs) : r.kind = "rounding" => r.rounding = c.rounding
  <2>1. ASSUME NEW r \in ToSet(rs), r.kind = "rounding" PROVE r.rounding = c.rounding
    <3>1. Bears(dr, c, r)  BY LaidRules
    <3>2. QED  BY <2>1, <3>1 DEF Bears
  <2>2. QED  BY <2>1
<1>8. QED  BY <1>3, <1>5, <1>6, <1>7

(* A number was judged by what was declared.                               *)
LEMMA NumberAnswered ==
    ASSUME ConstraintsInv, answer \notin {Nothing, Panic}, door # "text"
    PROVE  /\ door \in {"integer", "float", "decimal"}
           /\ phase = "done" /\ refusal = Nothing
           /\ answer = JudgeNumber(door, held, asked)
           /\ asked \in Numbers /\ asked \in Int /\ asked \in DOMAIN FloatOf /\ Holds(door, asked)
           /\ Declaration(held)
           /\ Mode = held.rounding
           /\ \A r \in Declared("multipleOf") :
                 /\ "multipleOf" \in held.flags /\ r.text.decimal = held.multipleOf
                 /\ r.text.decimal \in Nat \ {0} /\ r \in Rules /\ r.kind = "multipleOf"
           /\ "multipleOf" \in held.flags => Declared("multipleOf") # {}
           /\ Exact(held, asked) \in DOMAIN FloatOf
<1>1. /\ phase = "done" /\ refusal = Nothing /\ asked \in Askable
      /\ answer = Judgement(door, held, asked)
  BY DEF ConstraintsInv, AnsweredByIt
<1>2. /\ Laid(rules, door, held) /\ Passes(door, held, TRUE)
      /\ rules \in Seq(Rules) /\ door \in Door /\ held \in Declarations
  BY <1>1, BuiltFacts
<1>3. /\ held.rounding \in 0 .. 3
      /\ \A r \in ToSet(rules) : r.kind = "rounding" => r.rounding = held.rounding
      /\ (\A r \in ToSet(rules) : r.kind # "rounding") => held.rounding = Strict
      /\ "multipleOf" \in held.flags => held.multipleOf \in Nat \ {0}
      /\ \A r \in ToSet(rules) : r.kind = "multipleOf" =>
            "multipleOf" \in held.flags /\ r.text.decimal = held.multipleOf
  BY <1>2, StepsHeld
<1>4. asked \in Numbers /\ Holds(door, asked)
  BY <1>1 DEF Askable
<1>5. asked \in DOMAIN FloatOf /\ asked \in Int
  BY <1>4, ConstraintsAssumption, NumberAssumption
<1>6. Declaration(held)
  BY <1>2, <1>3 DEF Declaration, Declarations
<1>7. Mode = held.rounding
  <2>1. CASE Declared("rounding") = {}
    BY <1>3, <2>1 DEF Mode, Declared
  <2>2. CASE Declared("rounding") # {}
    <3> DEFINE r == CHOOSE r \in Declared("rounding") : TRUE
    <3>1. r \in Declared("rounding")
      <4> HIDE DEF Declared
      <4>1. QED  BY <2>2
    <3> HIDE DEF r
    <3>2. r.rounding = held.rounding  BY <1>3, <3>1 DEF Declared
    <3>3. QED  BY <2>2, <3>2 DEF Mode, r
  <2>3. QED  BY <2>1, <2>2
<1>8. \A r \in ToSet(rules) : r \in Rules
  BY <1>2, LaidRules
<1>9. \A r \in Declared("multipleOf") :
         /\ "multipleOf" \in held.flags /\ r.text.decimal = held.multipleOf
         /\ r.text.decimal \in Nat \ {0} /\ r \in Rules /\ r.kind = "multipleOf"
  BY <1>3, <1>8 DEF Declared
<1>10. "multipleOf" \in held.flags => Declared("multipleOf") # {}
  BY <1>2, LaidRules DEF Declared
<1>11. Exact(held, asked) \in DOMAIN FloatOf
  <2>1. CASE "multipleOf" \notin held.flags
    BY <1>5, <2>1 DEF Exact
  <2>2. CASE "multipleOf" \in held.flags
    <3>1. PICK r \in Declared("multipleOf") : TRUE  BY <1>10, <2>2
    <3>2. Exact(held, asked) = Rounded(asked, r.text.decimal, held.rounding)
      BY <1>9, <2>2, <3>1 DEF Exact
    <3>3. QED  BY <1>3, <1>4, <1>9, <3>1, <3>2, ConstraintsAssumption
  <2>3. QED  BY <2>1, <2>2
<1>12. answer = JudgeNumber(door, held, asked)
  BY <1>1 DEF Judgement
<1>13. door \in {"integer", "float", "decimal"}
  BY <1>2 DEF Door
<1>14. QED
  BY <1>1, <1>4, <1>5, <1>6, <1>7, <1>9, <1>10, <1>11, <1>12, <1>13

(* A number a checked door delivers is the nearest the declared mode       *)
(* allows to the one asked about, with ties to the even multiple, and      *)
(* Adjusted says whether it moved (JudgeNumber).                           *)
THEOREM RoundsAsDeclared == Spec => []RoundedAsDeclared
<1>1. ConstraintsInv => RoundedAsDeclared
  <2> SUFFICES ASSUME ConstraintsInv, Answered("value"), door \in {"integer", "decimal"}
               PROVE  /\ answer.adjusted <=> answer.value # asked
                      /\ answer.adjusted => Mode # Strict
                      /\ \A r \in Declared("multipleOf") :
                            LET step == r.text.decimal
                                moved == answer.value - asked
                            IN  /\ -step < moved /\ moved < step
                                /\ Mode = Floor => moved <= 0
                                /\ Mode = Ceiling => moved >= 0
                                /\ Mode = Midpoint =>
                                      /\ -step <= 2 * moved /\ 2 * moved <= step
                                      /\ 2 * moved \in {-step, step} =>
                                            (answer.value \div step) % 2 = 0
    BY Zenon DEF RoundedAsDeclared
  <2> DEFINE n == Exact(held, asked)
  <2>1. /\ answer = JudgeNumber(door, held, asked) /\ answer.status = "value"
        /\ Declaration(held) /\ asked \in Int /\ Mode = held.rounding
        /\ n \in Int
        /\ \A r \in Declared("multipleOf") :
              /\ "multipleOf" \in held.flags /\ r.text.decimal = held.multipleOf
              /\ r.text.decimal \in Nat \ {0}
    <3>1. n \in DOMAIN FloatOf  BY NumberAnswered DEF Answered
    <3>2. n \in Int  BY <3>1, NumberAssumption
    <3>3. QED  BY <3>2, NumberAnswered DEF Answered
  <2>2. /\ "multipleOf" \in held.flags => NearAsDeclared(n, asked, held.multipleOf, held.rounding)
        /\ answer.value = n
        /\ answer.adjusted = (n # asked)
        /\ n # asked => held.rounding # Strict
    <3>1. door \in {"integer", "float", "decimal"} /\ door # "float"  OBVIOUS
    <3>2. QED  BY <2>1, <3>1, DeliveredMeetsTheRules
  <2>3. held.rounding \in 0 .. 3
    BY <2>1 DEF Declaration
  <2>4. ASSUME NEW r \in Declared("multipleOf")
        PROVE  LET step == r.text.decimal
                   moved == answer.value - asked
               IN  /\ -step < moved /\ moved < step
                   /\ Mode = Floor => moved <= 0
                   /\ Mode = Ceiling => moved >= 0
                   /\ Mode = Midpoint => /\ -step <= 2 * moved /\ 2 * moved <= step
                                         /\ 2 * moved \in {-step, step} =>
                                               (answer.value \div step) % 2 = 0
    <3> DEFINE step == r.text.decimal
               mode == held.rounding
    <3>1. /\ "multipleOf" \in held.flags /\ step = held.multipleOf /\ step \in Nat \ {0}
      BY <2>1
    <3>2. NearAsDeclared(n, asked, step, mode)
      BY <2>2, <3>1
    <3>3. n = Rounded(asked, step, mode)
      BY <3>1 DEF Exact
    <3>4. mode = Midpoint /\ 2 * (n - asked) \in {-step, step} => (n \div step) % 2 = 0
      BY <2>1, <2>3, <3>1, <3>3, RoundedTies
    <3> HIDE DEF n, step, mode
    <3>5. answer.value = n /\ Mode = mode /\ n \in Int /\ asked \in Int
      BY <2>1, <2>2 DEF mode
    <3>6. /\ -step < n - asked /\ n - asked < step
          /\ mode = Floor => n - asked <= 0
          /\ mode = Ceiling => n - asked >= 0
          /\ mode = Midpoint => -step <= 2 * (n - asked) /\ 2 * (n - asked) <= step
      BY <3>1, <3>2, <3>5 DEF NearAsDeclared
    <3>7. QED  BY <3>4, <3>5, <3>6 DEF step
  <2>5. QED  BY <2>1, <2>2, <2>4, Zenon
<1>2. QED
  BY <1>1, ConstraintsInvariant, PTL

(* Texts that fold alike have as many code points.                         *)
LEMMA FoldKeepsCount ==
    ASSUME NEW s \in Seq(Nat), NEW t \in Seq(Nat), Fold(s) = Fold(t)
    PROVE  Characters(s) = Characters(t)
<1>1. DOMAIN s = DOMAIN t
  <2>1. DOMAIN Fold(s) = DOMAIN s /\ DOMAIN Fold(t) = DOMAIN t  BY DEF Fold
  <2>2. QED  BY <2>1
<1>2. Len(s) = Len(t)
  BY <1>1
<1>3. \A i \in DOMAIN s : s[i] \in Continuation <=> t[i] \in Continuation
  <2>1. ASSUME NEW u, NEW i \in DOMAIN u PROVE u[i] \in Continuation <=> Fold(u)[i] \in Continuation
    BY FoldingAssumption DEF Fold
  <2>2. QED  BY <1>1, <2>1
<1>4. { i \in DOMAIN s : s[i] \in Continuation } = { i \in DOMAIN t : t[i] \in Continuation }
  BY <1>1, <1>3
<1>5. QED  BY <1>2, <1>4 DEF Characters

(* What checkedText makes of a verdict.                                    *)
LEMMA CheckedTextDoes ==
    ASSUME NEW c, NEW verdict, verdict.status = "value",
           {"status", "value", "entry"} \subseteq DOMAIN verdict
    PROVE  LET out == CheckedText(c, verdict)
           IN  /\ out.status = "value" /\ out.entry = verdict.entry
               /\ out.value = IF verdict.entry = NoEntry THEN verdict.value
                              ELSE c.texts[verdict.entry].bytes
<1> DEFINE found == c.texts[verdict.entry].bytes
<1>1. CASE verdict.entry = NoEntry
  <2>1. CheckedText(c, verdict) = verdict  BY <1>1 DEF CheckedText
  <2>2. QED  BY <1>1, <2>1
<1>2. CASE verdict.entry # NoEntry
  <2> DEFINE out == [verdict EXCEPT !.value = found]
  <2>1. CheckedText(c, verdict) = out
    BY <1>2 DEF CheckedText
  <2>2. out.status = "value" /\ out.entry = verdict.entry /\ out.value = found
    OBVIOUS
  <2>3. QED  BY <1>2, <2>1, <2>2
<1>3. QED  BY <1>1, <1>2

(* A text was judged by what was declared.                                 *)
LEMMA TextAnswered ==
    ASSUME ConstraintsInv, answer \notin {Nothing, Panic}, door = "text"
    PROVE  /\ phase = "done" /\ refusal = Nothing
           /\ answer = CheckedText(held, JudgeText(held, asked))
           /\ asked \in Seq(Nat)
           /\ TextDeclaration(held)
           /\ \A r \in Declared("minLength") : "minLength" \in held.flags /\ held.minLength = r.length
           /\ \A r \in Declared("maxLength") : "maxLength" \in held.flags /\ held.maxLength = r.length
           /\ Declared("trim") # {} <=> "trim" \in held.flags
           /\ \A r \in Declared("enum") :
                 /\ "enum" \in held.flags /\ held.texts = r.entries /\ r.entries \in Seq(Entry)
                 /\ EntriesOf(held.packedText) = [i \in DOMAIN r.entries |-> r.entries[i].bytes]
           /\ \A kind \in held.flags : Declared(kind) # {}
           /\ \A r \in ToSet(rules) : r.kind \in Taken["text"] \/ r.kind = "rounding"
           /\ "trim" \in held.flags => \A r \in Declared("enum") : \A i \in DOMAIN r.entries :
                 Trimmed(r.entries[i].bytes) = r.entries[i].bytes
<1>1. /\ phase = "done" /\ refusal = Nothing /\ asked \in Askable
      /\ answer = Judgement(door, held, asked)
  BY DEF ConstraintsInv, AnsweredByIt
<1>2. /\ Laid(rules, door, held) /\ Passes(door, held, TRUE) /\ Meaningful(rules, door)
      /\ rules \in Seq(Rules) /\ door \in Door /\ held \in Declarations
  BY <1>1, BuiltFacts
<1>3. /\ \A r \in ToSet(rules) : /\ r \in Rules /\ Bears(door, held, r)
                                 /\ r.kind # "rounding" => r.kind \in held.flags
      /\ \A kind \in held.flags : \E r \in ToSet(rules) : r.kind = kind
  BY <1>2, LaidRules
<1>4. asked \in Seq(Nat)
  BY <1>1, ConstraintsAssumption DEF Askable
<1>5. ASSUME NEW r \in Declared("enum")
      PROVE  /\ "enum" \in held.flags /\ held.texts = r.entries /\ r.entries \in Seq(Entry)
             /\ EntriesOf(held.packedText) = [i \in DOMAIN r.entries |-> r.entries[i].bytes]
             /\ [i \in DOMAIN r.entries |-> r.entries[i].bytes] \in Seq(Seq(Nat))
             /\ TextsOf(held) = [i \in DOMAIN r.entries |-> r.entries[i].bytes]
  <2>1. r \in ToSet(rules) /\ r.kind = "enum"  BY DEF Declared
  <2>2. BearsList(door, held, r)  BY <1>3, <2>1 DEF Bears
  <2>3. r.entries # <<>>  BY <1>2, <2>1 DEF Meaningful
  <2>4. r.entries \in Seq(Entry)  BY <1>2, <2>1, ListRead
  <2>5. /\ EntriesOf(Packed(r.entries)) = [i \in DOMAIN r.entries |-> r.entries[i].bytes]
        /\ [i \in DOMAIN r.entries |-> r.entries[i].bytes] \in Seq(Seq(Nat))
    BY <2>4, ListLaid
  <2>6. TextsOf(held) = [i \in DOMAIN r.entries |-> r.entries[i].bytes]
    BY <1>2, <2>1, ListRead
  <2>7. held.packedText = Packed(r.entries) /\ held.texts = r.entries
    BY <2>2, <2>3 DEF BearsList
  <2>8. QED  BY <1>3, <2>1, <2>4, <2>5, <2>6, <2>7
<1>6. TextDeclaration(held)
  <2>1. held.minLength \in Int /\ held.maxLength \in Int
    BY <1>2, ConstraintsAssumption DEF Declarations
  <2>2. ASSUME "enum" \in held.flags PROVE EntriesOf(held.packedText) \in Seq(Seq(Nat))
    <3>1. PICK r \in Declared("enum") : TRUE  BY <1>3, <2>2 DEF Declared
    <3>2. QED  BY <1>5, <3>1
  <2>3. QED  BY <2>1, <2>2 DEF TextDeclaration
<1>7. /\ \A r \in Declared("minLength") : "minLength" \in held.flags /\ held.minLength = r.length
      /\ \A r \in Declared("maxLength") : "maxLength" \in held.flags /\ held.maxLength = r.length
  BY <1>3 DEF Declared, Bears
<1>8. Declared("trim") # {} <=> "trim" \in held.flags
  BY <1>3 DEF Declared
<1>9. \A kind \in held.flags : Declared(kind) # {}
  BY <1>3 DEF Declared
<1>10. \A r \in ToSet(rules) : r.kind \in Taken["text"] \/ r.kind = "rounding"
  BY <1>2 DEF Meaningful
<1>11. ASSUME "trim" \in held.flags, NEW r \in Declared("enum"), NEW i \in DOMAIN r.entries
       PROVE  Trimmed(r.entries[i].bytes) = r.entries[i].bytes
  <2>1. i \in DOMAIN TextsOf(held) /\ TextsOf(held)[i] = r.entries[i].bytes
    BY <1>5
  <2>2. Trimmed(TextsOf(held)[i]) = TextsOf(held)[i]
    BY <1>2, <1>11, <2>1 DEF Passes
  <2>3. QED  BY <2>1, <2>2
<1>12. answer = CheckedText(held, JudgeText(held, asked))
  BY <1>1 DEF Judgement
<1>13. QED
  BY <1>1, <1>4, <1>5, <1>6, <1>7, <1>8, <1>9, <1>10, <1>11, <1>12

(* A text's verdict and its answer agree but for the value delivered.      *)
LEMMA TextDelivered ==
    ASSUME ConstraintsInv, answer \notin {Nothing, Panic}, door = "text", answer.status = "value"
    PROVE  LET text == Judged(held, asked)
           IN  /\ text \in Seq(Nat)
               /\ "minLength" \in held.flags => CodePoints(text) >= held.minLength
               /\ "maxLength" \in held.flags => CodePoints(text) <= held.maxLength
               /\ "trim" \in held.flags => Trimmed(text) = text
               /\ "enum" \notin held.flags => answer.value = text
               /\ \A r \in Declared("enum") :
                     /\ answer.entry \in DOMAIN r.entries
                     /\ answer.value = r.entries[answer.entry].bytes
                     /\ answer.value \in Seq(Nat)
                     /\ Fold(answer.value) = Fold(text)
<1> DEFINE text == Judged(held, asked)
           verdict == JudgeText(held, asked)
           entry == IF Matching(held, text) = {} THEN NoEntry ELSE Min(Matching(held, text))
<1>1. /\ answer = CheckedText(held, verdict) /\ asked \in Seq(Nat) /\ TextDeclaration(held)
      /\ \A r \in Declared("enum") :
            /\ "enum" \in held.flags /\ held.texts = r.entries /\ r.entries \in Seq(Entry)
            /\ EntriesOf(held.packedText) = [i \in DOMAIN r.entries |-> r.entries[i].bytes]
  BY TextAnswered
<1>2. verdict.status = "value"
  <2> HIDE DEF verdict
  <2>1. verdict.status # "value" => CheckedText(held, verdict) = verdict
    BY DEF CheckedText
  <2>2. QED  BY <1>1, <2>1
<1>3. /\ verdict.value = text
      /\ "minLength" \in held.flags => CodePoints(text) >= held.minLength
      /\ "maxLength" \in held.flags => CodePoints(text) <= held.maxLength
      /\ "trim" \in held.flags => Trimmed(text) = text
      /\ "enum" \in held.flags => verdict.entry \in Matching(held, text) /\ verdict.entry # NoEntry
      /\ "enum" \notin held.flags => verdict.entry = NoEntry
  BY <1>1, <1>2, DeliveredTextMeetsTheRules
<1>4. verdict = Delivers(text, FALSE, entry)
  BY <1>2 DEF JudgeText, Judged, Faults, Breaks, Delivers
<1> HIDE DEF entry
<1>5. verdict.entry = entry /\ {"status", "value", "entry"} \subseteq DOMAIN verdict
  BY <1>4 DEF Delivers
<1> HIDE DEF verdict
<1>6. /\ answer.entry = entry
      /\ answer.value = IF entry = NoEntry THEN text ELSE held.texts[entry].bytes
  BY <1>1, <1>2, <1>3, <1>5, CheckedTextDoes
<1>7. text \in Seq(Nat)
  BY <1>1, TrimmedTwice DEF Judged
<1> HIDE DEF text
<1>8. ASSUME NEW r \in Declared("enum")
      PROVE  /\ answer.entry \in DOMAIN r.entries
             /\ answer.value = r.entries[answer.entry].bytes
             /\ answer.value \in Seq(Nat)
             /\ Fold(answer.value) = Fold(text)
  <2>1. entry \in Matching(held, text) /\ entry # NoEntry /\ "enum" \in held.flags
    BY <1>1, <1>3, <1>5
  <2> DEFINE e == r.entries
             b == EntriesOf(held.packedText)
  <2>2. b = [i \in DOMAIN e |-> e[i].bytes] /\ e \in Seq(Entry)
    BY <1>1
  <2>3. Matching(held, text) = { i \in DOMAIN b : Fold(b[i]) = Fold(text) }
    BY <2>1 DEF Matching
  <2> HIDE DEF e, b
  <2>4. entry \in DOMAIN e /\ Fold(e[entry].bytes) = Fold(text)
    BY <2>1, <2>2, <2>3
  <2>5. e[entry] \in Entry
    BY <2>2, <2>4
  <2>6. held.texts = e  BY <1>1 DEF e
  <2>7. answer.value = e[entry].bytes  BY <1>6, <2>1, <2>6
  <2>8. answer.value \in Seq(Nat)  BY <2>5, <2>7 DEF Entry
  <2>9. QED  BY <1>6, <2>4, <2>7, <2>8 DEF e
<1>9. "enum" \notin held.flags => answer.value = text
  BY <1>3, <1>5, <1>6
<1>10. QED
  BY <1>3, <1>7, <1>8, <1>9 DEF text

(* At a number door only bounds, steps, a mode and, for integers, a list   *)
(* are declared; what the core reads of them is what was declared.         *)
LEMMA NumberRulesHeld ==
    ASSUME ConstraintsInv, answer \notin {Nothing, Panic}, door # "text"
    PROVE  /\ \A kind \in Lowers \cup Uppers : \A r \in Declared(kind) :
                 /\ kind \in held.flags \cap (Lowers \cup Uppers)
                 /\ held[Bounds[kind]] = r.text.decimal
                 /\ Limits(held)[Bounds[kind]] = FloatOf[r.text.decimal]
           /\ \A kind \in held.flags : Declared(kind) # {}
           /\ \A kind \in {"minLength", "maxLength", "trim"} : Declared(kind) = {}
           /\ \A r \in Declared("enum") :
                 /\ door # "float" /\ "enum" \in held.flags
                 /\ held.decimals = Decimals(r.entries)
<1>1. phase = "done" /\ refusal = Nothing
  BY DEF ConstraintsInv, AnsweredByIt
<1>2. /\ Laid(rules, door, held) /\ Passes(door, held, TRUE) /\ Meaningful(rules, door)
      /\ rules \in Seq(Rules) /\ door \in Door /\ held \in Declarations
  BY <1>1, BuiltFacts
<1>3. /\ \A r \in ToSet(rules) : /\ r \in Rules /\ Bears(door, held, r)
                                 /\ r.kind # "rounding" => r.kind \in held.flags
      /\ \A kind \in held.flags : \E r \in ToSet(rules) : r.kind = kind
  BY <1>2, LaidRules
<1>4. ~(Lowers \subseteq held.flags) /\ ~(Uppers \subseteq held.flags) /\ held.flags \subseteq Taken[door]
  BY <1>2 DEF Passes
<1>5. /\ {"minLength", "maxLength", "trim"} \cap Taken[door] = {}
      /\ door = "float" => "enum" \notin Taken[door]
  BY <1>2 DEF Taken, Door, Lowers, Uppers
<1>6. \A r \in ToSet(rules) :
         /\ r.kind \in Lowers => held.lower = r.text.decimal
         /\ r.kind \in Uppers => held.upper = r.text.decimal
         /\ r.kind \in DOMAIN Bounds => held[Bounds[r.kind]] = r.text.decimal
  BY <1>2, <1>4, SlotsHold
<1>7. ASSUME NEW kind \in Lowers \cup Uppers, NEW r \in Declared(kind)
      PROVE  /\ kind \in held.flags \cap (Lowers \cup Uppers)
             /\ held[Bounds[kind]] = r.text.decimal
             /\ Limits(held)[Bounds[kind]] = FloatOf[r.text.decimal]
  <2>1. r \in ToSet(rules) /\ r.kind = kind  BY DEF Declared
  <2>2. kind # "rounding"  BY DEF Lowers, Uppers
  <2>3. kind \in held.flags  BY <1>3, <2>1, <2>2
  <2>4. held[Bounds[kind]] = r.text.decimal  BY <1>6, <2>1, BoundsCases
  <2>5. Limits(held)[Bounds[kind]] = FloatOf[r.text.decimal]
    <3>1. CASE kind \in Lowers
      <4>1. Limits(held).lower = FloatOf[held.lower]  BY DEF Limits
      <4>2. QED  BY <1>6, <2>1, <3>1, <4>1, BoundsCases
    <3>2. CASE kind \in Uppers
      <4>1. Limits(held).upper = FloatOf[held.upper]  BY DEF Limits
      <4>2. QED  BY <1>6, <2>1, <3>2, <4>1, BoundsCases
    <3>3. QED  BY <3>1, <3>2
  <2>6. QED  BY <2>3, <2>4, <2>5
<1>8. \A kind \in held.flags : Declared(kind) # {}
  BY <1>3 DEF Declared
<1>9. \A kind \in {"minLength", "maxLength", "trim"} : Declared(kind) = {}
  BY <1>3, <1>4, <1>5 DEF Declared
<1>10. ASSUME NEW r \in Declared("enum")
       PROVE  /\ door # "float" /\ "enum" \in held.flags
              /\ held.decimals = Decimals(r.entries)
  <2>1. r \in ToSet(rules) /\ r.kind = "enum"  BY DEF Declared
  <2>2. "enum" \in held.flags  BY <1>3, <2>1
  <2>3. BearsList(door, held, r)  BY <1>3, <2>1 DEF Bears
  <2>4. r.entries # <<>>  BY <1>2, <2>1 DEF Meaningful
  <2>5. QED  BY <1>4, <1>5, <2>2, <2>3, <2>4 DEF BearsList
<1>11. QED  BY <1>7, <1>8, <1>9, <1>10

(* A value a checked door delivers meets every rule that was declared: the *)
(* bounds, the step, the lengths, trimming and the list, with the caller's *)
(* own entry at its index (JudgeNumber, JudgeText, checkedText).           *)
THEOREM CheckedMeetTheRules == Spec => []CheckedValuesMeetTheRules
<1>1. ASSUME ConstraintsInv, Answered("value"), door # "text" PROVE CheckedValuesMeetTheRules
  <2> DEFINE n == Exact(held, asked)
  <2>0. answer \notin {Nothing, Panic} /\ answer.status = "value"  BY <1>1 DEF Answered
  <2>1. /\ door \in {"integer", "float", "decimal"} /\ answer = JudgeNumber(door, held, asked)
        /\ Declaration(held) /\ asked \in Int /\ n \in DOMAIN FloatOf
        /\ \A r \in Declared("multipleOf") :
              /\ "multipleOf" \in held.flags /\ r.text.decimal = held.multipleOf
              /\ r.text.decimal \in Nat \ {0}
    BY <1>1, <2>0, NumberAnswered
  <2>2. /\ \A kind \in Lowers \cup Uppers : \A r \in Declared(kind) :
              /\ kind \in held.flags \cap (Lowers \cup Uppers)
              /\ held[Bounds[kind]] = r.text.decimal
              /\ Limits(held)[Bounds[kind]] = FloatOf[r.text.decimal]
        /\ \A kind \in {"minLength", "maxLength", "trim"} : Declared(kind) = {}
        /\ \A r \in Declared("enum") :
              /\ door # "float" /\ "enum" \in held.flags
              /\ held.decimals = Decimals(r.entries)
    BY <1>1, <2>0, NumberRulesHeld
  <2>3. JudgeNumber(door, held, asked).status = "value"
    BY <2>0, <2>1
  <2>4. /\ InBounds(held, n, held)
        /\ "multipleOf" \in held.flags => Multiple(n, held.multipleOf)
        /\ "enum" \in held.flags => Listed(held, n)
        /\ answer.value = IF door = "float" THEN FloatOf[n] ELSE n
        /\ door = "float" => InBounds(held, FloatOf[n], Limits(held))
    BY <2>1, <2>3, DeliveredMeetsTheRules
  <2> HIDE DEF n
  <2>5. answer.value = AsFloat(n)
    BY <2>4 DEF AsFloat
  <2>6. ASSUME NEW r \in Declared("multipleOf")
        PROVE  \E m \in DOMAIN FloatOf : m % r.text.decimal = 0 /\ answer.value = AsFloat(m)
    <3>1. PICK k \in Int : n = r.text.decimal * k
      BY <2>1, <2>4 DEF Multiple
    <3>2. n % r.text.decimal = 0
      BY <2>1, <3>1, MultipleDivides
    <3>3. QED  BY <2>1, <2>5, <3>2
  <2>7. ASSUME NEW kind \in Lowers \cup Uppers, NEW r \in Declared(kind)
        PROVE  Within(kind, answer.value, AsFloat(r.text.decimal))
    BY <2>2, <2>4 DEF InBounds, AsFloat
  <2>8. ASSUME NEW r \in Declared("enum")
        PROVE  \E i \in DOMAIN r.entries : r.entries[i].decimal = answer.value
    <3>1. held.decimals = Decimals(r.entries) /\ answer.value = n /\ Listed(held, n)
      BY <2>2, <2>4
    <3>2. PICK i \in DOMAIN Decimals(r.entries) : Decimals(r.entries)[i] = n
      BY <3>1 DEF Listed
    <3>3. i \in DOMAIN r.entries /\ Decimals(r.entries)[i] = r.entries[i].decimal
      BY DEF Decimals
    <3>4. QED  BY <3>1, <3>2, <3>3
  <2>9. Declared("minLength") = {} /\ Declared("maxLength") = {} /\ Declared("trim") = {}
    BY <2>2
  <2>10. QED
    BY <1>1, <2>6, <2>7, <2>8, <2>9, Zenon DEF CheckedValuesMeetTheRules
<1>2. ASSUME ConstraintsInv, Answered("value"), door = "text" PROVE CheckedValuesMeetTheRules
  <2> DEFINE text == Judged(held, asked)
  <2>0. answer \notin {Nothing, Panic} /\ answer.status = "value"  BY <1>2 DEF Answered
  <2>1. /\ \A r \in Declared("minLength") : "minLength" \in held.flags /\ held.minLength = r.length
        /\ \A r \in Declared("maxLength") : "maxLength" \in held.flags /\ held.maxLength = r.length
        /\ Declared("trim") # {} <=> "trim" \in held.flags
        /\ "enum" \in held.flags => Declared("enum") # {}
        /\ \A r \in ToSet(rules) : r.kind \in Taken["text"] \/ r.kind = "rounding"
        /\ "trim" \in held.flags => \A r \in Declared("enum") : \A i \in DOMAIN r.entries :
              Trimmed(r.entries[i].bytes) = r.entries[i].bytes
    BY <1>2, <2>0, TextAnswered
  <2>2. /\ text \in Seq(Nat)
        /\ "minLength" \in held.flags => CodePoints(text) >= held.minLength
        /\ "maxLength" \in held.flags => CodePoints(text) <= held.maxLength
        /\ "trim" \in held.flags => Trimmed(text) = text
        /\ "enum" \notin held.flags => answer.value = text
        /\ \A r \in Declared("enum") :
              /\ answer.entry \in DOMAIN r.entries
              /\ answer.value = r.entries[answer.entry].bytes
              /\ answer.value \in Seq(Nat)
              /\ Fold(answer.value) = Fold(text)
    BY <1>2, <2>0, TextDelivered
  <2>3. text \in {asked, Trimmed(asked)}
    BY DEF Judged
  <2> HIDE DEF text
  <2>4. CodePoints(text) = Characters(text)
    BY <2>2, CodePointsCount DEF Characters
  <2>5. Characters(answer.value) = CodePoints(text)
    <3>1. CASE "enum" \notin held.flags  BY <2>2, <2>4, <3>1
    <3>2. CASE "enum" \in held.flags
      <4>1. PICK r \in Declared("enum") : TRUE  BY <2>1, <3>2
      <4>2. answer.value \in Seq(Nat) /\ Fold(answer.value) = Fold(text)  BY <2>2, <4>1
      <4>3. QED  BY <2>2, <2>4, <4>2, FoldKeepsCount
    <3>3. QED  BY <3>1, <3>2
  <2>6. \A kind \in Lowers \cup Uppers \cup {"multipleOf"} : Declared(kind) = {}
    <3>1. \A kind \in Lowers \cup Uppers \cup {"multipleOf"} : kind \notin Taken["text"] /\ kind # "rounding"
      BY DEF Taken, Lowers, Uppers
    <3>2. QED  BY <2>1, <3>1 DEF Declared
  <2>7. \A r \in Declared("minLength") : Characters(answer.value) >= r.length
    BY <2>1, <2>2, <2>5
  <2>8. \A r \in Declared("maxLength") : Characters(answer.value) <= r.length
    BY <2>1, <2>2, <2>5
  <2>9. Declared("trim") # {} => Trimmed(answer.value) = answer.value
    <3>1. ASSUME "trim" \in held.flags, "enum" \in held.flags PROVE Trimmed(answer.value) = answer.value
      <4>1. PICK r \in Declared("enum") : TRUE  BY <2>1, <3>1
      <4>2. QED  BY <2>1, <2>2, <3>1, <4>1
    <3>2. QED  BY <2>1, <2>2, <3>1
  <2>10. \A r \in Declared("enum") :
            /\ answer.value = r.entries[answer.entry].bytes
            /\ Fold(answer.value) \in {Fold(asked), Fold(Trimmed(asked))}
    BY <2>2, <2>3
  <2>11. \A r \in Declared("multipleOf") : FALSE
    BY <2>6
  <2>12. \A kind \in Lowers \cup Uppers : \A r \in Declared(kind) : FALSE
    BY <2>6
  <2>13. QED
    BY <1>2, <2>7, <2>8, <2>9, <2>10, <2>11, <2>12, Zenon DEF CheckedValuesMeetTheRules
<1>3. ConstraintsInv => CheckedValuesMeetTheRules
  <2>1. CASE Answered("value")  BY <1>1, <1>2, <2>1
  <2>2. CASE ~Answered("value")  BY <2>2, Zenon DEF CheckedValuesMeetTheRules
  <2>3. QED  BY <2>1, <2>2
<1>4. QED
  BY <1>3, ConstraintsInvariant, PTL

(* A violation names a rule that was declared and that the value breaks; a *)
(* fault is only for a text with nothing to judge or not UTF-8, or for a   *)
(* number the door's type no longer holds once it is rounded.              *)
THEOREM RejectionsAreHonest == Spec => []RejectionsNameABrokenRule
<1> DEFINE steps == Declared("multipleOf")
           first == CHOOSE r \in steps : TRUE
           given == IF Declared("trim") # {} THEN Trimmed(asked) ELSE asked
           exact == IF steps = {} THEN asked ELSE Rounded(asked, first.text.decimal, Mode)
           Named(r) ==
                \/ /\ r.kind \in Lowers \cup Uppers
                   /\ \/ ~Within(r.kind, exact, r.text.decimal)
                      \/ ~Within(r.kind, AsFloat(exact), AsFloat(r.text.decimal))
                \/ r.kind = "multipleOf" /\ asked % r.text.decimal # 0 /\ Mode = Strict
                \/ r.kind = "minLength" /\ Characters(given) < r.length
                \/ r.kind = "maxLength" /\ Characters(given) > r.length
                \/ /\ r.kind = "enum" /\ door = "text"
                   /\ \A i \in DOMAIN r.entries : Fold(r.entries[i].bytes) # Fold(given)
                \/ /\ r.kind = "enum" /\ door # "text"
                   /\ \A i \in DOMAIN r.entries : r.entries[i].decimal # exact
<1>1. ASSUME ConstraintsInv, answer \notin {Nothing, Panic}, door # "text"
      PROVE  /\ answer.status = "violation" => \E r \in Declared(answer.keyword) : Named(r)
             /\ answer.status = "fault" => exact # asked /\ Mode # Strict /\ ~Holds(door, exact)
  <2> DEFINE n == Exact(held, asked)
             key == answer.keyword
  <2>1. /\ door \in {"integer", "float", "decimal"} /\ answer = JudgeNumber(door, held, asked)
        /\ Declaration(held) /\ asked \in Int /\ Mode = held.rounding /\ Holds(door, asked)
        /\ \A r \in steps :
              /\ "multipleOf" \in held.flags /\ r.text.decimal = held.multipleOf
              /\ r.text.decimal \in Nat \ {0} /\ r.kind = "multipleOf"
        /\ "multipleOf" \in held.flags => steps # {}
    BY <1>1, NumberAnswered
  <2>2. /\ \A kind \in Lowers \cup Uppers : \A r \in Declared(kind) :
              /\ held[Bounds[kind]] = r.text.decimal
              /\ Limits(held)[Bounds[kind]] = FloatOf[r.text.decimal]
        /\ \A kind \in held.flags : Declared(kind) # {}
        /\ \A r \in Declared("enum") : held.decimals = Decimals(r.entries)
    BY <1>1, NumberRulesHeld
  <2>3. exact = n
    <3>1. CASE steps = {}
      BY <2>1, <3>1 DEF Exact
    <3>2. CASE steps # {}
      <4>1. first \in steps
        <5> HIDE DEF steps
        <5>1. QED  BY <3>2
      <4> HIDE DEF first, steps
      <4>2. "multipleOf" \in held.flags /\ first.text.decimal = held.multipleOf  BY <2>1, <4>1
      <4>3. QED  BY <2>1, <3>2, <4>2 DEF Exact
    <3>3. QED  BY <3>1, <3>2
  <2>4. /\ answer.status = "violation" =>
              \/ key = "multipleOf" /\ n # asked /\ held.rounding = Strict
              \/ /\ key \in held.flags \cap (Lowers \cup Uppers)
                 /\ \/ ~Within(key, n, held[Bounds[key]])
                    \/ /\ door = "float"
                       /\ ~Within(key, FloatOf[n], Limits(held)[Bounds[key]])
              \/ key = "enum" /\ "enum" \in held.flags /\ ~Listed(held, n)
        /\ answer.status = "fault" => ~Holds(door, n) /\ ~(n # asked /\ held.rounding = Strict)
    BY <2>1, RefusedNumberBreaksARule
  <2>5. \A kind : \A r \in Declared(kind) : r.kind = kind
    BY DEF Declared
  <2> HIDE DEF n, key, exact, given
  <2>6. ASSUME key = "multipleOf", n # asked, held.rounding = Strict
        PROVE  \E r \in Declared(key) : Named(r)
    <3>1. "multipleOf" \in held.flags
      BY <2>6 DEF Exact, n
    <3>2. PICK r \in steps : TRUE  BY <2>1, <3>1
    <3>3. /\ n = Rounded(asked, r.text.decimal, held.rounding) /\ r.text.decimal \in Nat \ {0}
          /\ r.kind = "multipleOf" /\ held.rounding \in 0 .. 3
      BY <2>1, <3>1, <3>2 DEF Exact, n, Declaration
    <3>4. asked % r.text.decimal # 0
      BY <2>1, <2>6, <3>3, RoundedTies
    <3>5. Named(r)  BY <2>1, <2>6, <3>3, <3>4
    <3> HIDE DEF Named
    <3>6. QED  BY <2>6, <3>2, <3>5
  <2>7. ASSUME key \in held.flags \cap (Lowers \cup Uppers),
               \/ ~Within(key, n, held[Bounds[key]])
               \/ door = "float" /\ ~Within(key, FloatOf[n], Limits(held)[Bounds[key]])
        PROVE  \E r \in Declared(key) : Named(r)
    <3>1. PICK r \in Declared(key) : TRUE  BY <2>2, <2>7
    <3>2. /\ r.kind = key /\ held[Bounds[key]] = r.text.decimal
          /\ Limits(held)[Bounds[key]] = FloatOf[r.text.decimal]
      BY <2>2, <2>5, <2>7, <3>1
    <3>3. \/ ~Within(r.kind, exact, r.text.decimal)
          \/ ~Within(r.kind, AsFloat(exact), AsFloat(r.text.decimal))
      BY <2>3, <2>7, <3>2 DEF AsFloat
    <3>4. Named(r)  BY <2>7, <3>2, <3>3
    <3> HIDE DEF Named
    <3>5. QED  BY <3>1, <3>4
  <2>8. ASSUME key = "enum", "enum" \in held.flags, ~Listed(held, n)
        PROVE  \E r \in Declared(key) : Named(r)
    <3>1. PICK r \in Declared(key) : TRUE  BY <2>2, <2>8
    <3>2. r.kind = "enum" /\ held.decimals = Decimals(r.entries)
      BY <2>2, <2>5, <2>8, <3>1
    <3>3. \A i \in DOMAIN r.entries : r.entries[i].decimal # exact
      <4>1. \A i \in DOMAIN Decimals(r.entries) : Decimals(r.entries)[i] # exact
        BY <2>3, <2>8, <3>2 DEF Listed
      <4>2. QED  BY <4>1 DEF Decimals
    <3>4. Named(r)  BY <1>1, <3>2, <3>3
    <3> HIDE DEF Named
    <3>5. QED  BY <3>1, <3>4
  <2>9. answer.status = "fault" => exact # asked /\ Mode # Strict /\ ~Holds(door, exact)
    BY <2>1, <2>3, <2>4
  <2> HIDE DEF Named
  <2>10. QED
    BY <2>4, <2>6, <2>7, <2>8, <2>9 DEF key
<1>2. ASSUME ConstraintsInv, answer \notin {Nothing, Panic}, door = "text"
      PROVE  /\ answer.status = "violation" => \E r \in Declared(answer.keyword) : Named(r)
             /\ answer.status = "fault" => given = <<>> \/ ~Utf8(asked)
  <2> DEFINE verdict == JudgeText(held, asked)
             text == Judged(held, asked)
             key == answer.keyword
  <2>1. /\ answer = CheckedText(held, verdict) /\ asked \in Seq(Nat)
        /\ \A r \in Declared("minLength") : held.minLength = r.length
        /\ \A r \in Declared("maxLength") : held.maxLength = r.length
        /\ Declared("trim") # {} <=> "trim" \in held.flags
        /\ \A r \in Declared("enum") :
              EntriesOf(held.packedText) = [i \in DOMAIN r.entries |-> r.entries[i].bytes]
        /\ \A kind \in held.flags : Declared(kind) # {}
    BY <1>2, TextAnswered
  <2>2. text = given /\ text \in Seq(Nat)
    BY <2>1, TrimmedTwice DEF Judged
  <2>3. CodePoints(text) = Characters(given)
    BY <2>2, CodePointsCount DEF Characters
  <2>4. /\ verdict.status = "violation" =>
              \/ verdict.keyword = "minLength" /\ "minLength" \in held.flags /\ CodePoints(text) < held.minLength
              \/ verdict.keyword = "maxLength" /\ "maxLength" \in held.flags /\ CodePoints(text) > held.maxLength
              \/ verdict.keyword = "enum" /\ "enum" \in held.flags /\ Matching(held, text) = {}
        /\ verdict.status = "fault" => asked = <<>> \/ ~Utf8(asked) \/ text = <<>>
    BY RefusedTextBreaksARule
  <2>5. asked = <<>> => text = <<>>
    <3>1. Trimmed(<<>>) = <<>>
      <4>1. Ink(<<>>) = {}  BY DEF Ink
      <4>2. QED  BY <4>1 DEF Trimmed
    <3>2. QED  BY <3>1 DEF Judged
  <2>6. verdict.status \in {"value", "violation", "fault"}
    BY DEF JudgeText, Delivers, Breaks, Faults
  <2>7. verdict.status = "value" => answer.status = "value"
    <3>1. verdict.status = "value" => {"status", "value", "entry"} \subseteq DOMAIN verdict
      BY DEF JudgeText, Delivers, Breaks, Faults
    <3> HIDE DEF verdict
    <3>2. QED  BY <2>1, <3>1, CheckedTextDoes
  <2> HIDE DEF verdict, text, key, exact, given
  <2>8. answer.status # "value" => answer = verdict
    BY <2>1, <2>7 DEF CheckedText
  <2>9. \A kind : \A r \in Declared(kind) : r.kind = kind
    BY DEF Declared
  <2>10. ASSUME key = "minLength", "minLength" \in held.flags, CodePoints(text) < held.minLength
         PROVE  \E r \in Declared(key) : Named(r)
    <3>1. PICK r \in Declared(key) : TRUE  BY <2>1, <2>10
    <3>2. r.kind = "minLength" /\ Characters(given) < r.length  BY <2>1, <2>3, <2>9, <2>10, <3>1
    <3>3. Named(r)  BY <3>2
    <3> HIDE DEF Named
    <3>4. QED  BY <3>1, <3>3
  <2>11. ASSUME key = "maxLength", "maxLength" \in held.flags, CodePoints(text) > held.maxLength
         PROVE  \E r \in Declared(key) : Named(r)
    <3>1. PICK r \in Declared(key) : TRUE  BY <2>1, <2>11
    <3>2. r.kind = "maxLength" /\ Characters(given) > r.length  BY <2>1, <2>3, <2>9, <2>11, <3>1
    <3>3. Named(r)  BY <3>2
    <3> HIDE DEF Named
    <3>4. QED  BY <3>1, <3>3
  <2>12. ASSUME key = "enum", "enum" \in held.flags, Matching(held, text) = {}
         PROVE  \E r \in Declared(key) : Named(r)
    <3>1. PICK r \in Declared(key) : TRUE  BY <2>1, <2>12
    <3> DEFINE e == r.entries
               b == EntriesOf(held.packedText)
    <3>2. r.kind = "enum" /\ b = [i \in DOMAIN e |-> e[i].bytes]
      BY <2>1, <2>9, <2>12, <3>1
    <3>3. Matching(held, text) = { i \in DOMAIN b : Fold(b[i]) = Fold(text) }
      BY <2>12 DEF Matching
    <3> HIDE DEF e, b
    <3>4. \A i \in DOMAIN e : Fold(e[i].bytes) # Fold(given)
      BY <2>2, <2>12, <3>2, <3>3
    <3>5. Named(r)  BY <1>2, <3>2, <3>4 DEF e
    <3> HIDE DEF Named
    <3>6. QED  BY <3>1, <3>5
  <2> HIDE DEF Named
  <2>13. answer.status = "violation" => \E r \in Declared(answer.keyword) : Named(r)
    BY <2>4, <2>8, <2>10, <2>11, <2>12 DEF key
  <2>14. answer.status = "fault" => given = <<>> \/ ~Utf8(asked)
    BY <2>2, <2>4, <2>5, <2>8
  <2>15. QED  BY <2>13, <2>14
<1>3. RejectionsNameABrokenRule <=>
        /\ Answered("violation") => \E r \in Declared(answer.keyword) : Named(r)
        /\ Answered("fault") => IF door = "text" THEN given = <<>> \/ ~Utf8(asked)
                                ELSE exact # asked /\ Mode # Strict /\ ~Holds(door, exact)
  BY Zenon DEF RejectionsNameABrokenRule
<1> HIDE DEF Named, given, exact
<1>4. ConstraintsInv => RejectionsNameABrokenRule
  <2>1. CASE answer \in {Nothing, Panic}
    BY <1>3, <2>1, Zenon DEF Answered
  <2>2. CASE answer \notin {Nothing, Panic}
    BY <1>1, <1>2, <1>3, <2>2, Zenon DEF Answered
  <2>3. QED  BY <2>1, <2>2
<1>5. QED
  BY <1>4, ConstraintsInvariant, PTL
=============================================================================
