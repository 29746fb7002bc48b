---------------------------- MODULE SequenceLemmas ----------------------------
(***************************************************************************)
(* Facts about naturals and sequences the proofs of several modules need:  *)
(* least and greatest elements, induction stated of a set, and what        *)
(* flattening a sequence of sequences does, step by step.                  *)
(***************************************************************************)
EXTENDS Integers, Powers, SequencesExt, FiniteSetTheorems, SequenceTheorems, TLAPS

(* Every set of naturals has a least element.                              *)
LEMMA NatMin ==
    ASSUME NEW S, S \subseteq Nat, S # {}
    PROVE  \E m \in S : \A n \in S : m <= n
<1> DEFINE T == { 0 .. n : n \in S }
<1>1. IsWellFoundedOn(StrictSubsetOrdering(Nat), FiniteSubsetsOf(Nat))
  BY FS_StrictSubsetOrderingWellFounded
<1>2. T \subseteq FiniteSubsetsOf(Nat) /\ T # {}
  <2>1. ASSUME NEW n \in S PROVE 0 .. n \in FiniteSubsetsOf(Nat)
    <3>1. IsFiniteSet(0 .. n)  BY FS_Interval
    <3>2. QED  BY <3>1 DEF FiniteSubsetsOf
  <2>2. QED  BY <2>1
<1> HIDE DEF T
<1>3. PICK x \in T : \A y \in T : ~(<<y, x>> \in StrictSubsetOrdering(Nat))
  BY <1>1, <1>2, WFMin
<1>4. PICK m \in S : x = 0 .. m
  BY DEF T
<1>5. ASSUME NEW n \in S, n < m PROVE FALSE
  <2>1. 0 .. n \in T  BY DEF T
  <2>2. m \in 0 .. m /\ m \notin 0 .. n  BY <1>5
  <2>3. 0 .. n \subseteq 0 .. m /\ 0 .. n # 0 .. m /\ 0 .. n \subseteq Nat /\ 0 .. m \subseteq Nat
    BY <1>5, <2>2
  <2>4. <<0 .. n, x>> \in StrictSubsetOrdering(Nat)
    BY <1>4, <2>3 DEF StrictSubsetOrdering
  <2>5. QED  BY <1>3, <2>1, <2>4
<1>6. QED  BY <1>5

(* Induction over the naturals, stated of a set.                           *)
LEMMA NatInd ==
    ASSUME NEW S, S \subseteq Nat, 0 \in S, \A n \in S : n + 1 \in S
    PROVE  S = Nat
<1> SUFFICES ASSUME S # Nat PROVE FALSE  OBVIOUS
<1>1. PICK m \in Nat \ S : \A n \in Nat \ S : m <= n
  <2>1. Nat \ S # {} /\ Nat \ S \subseteq Nat  OBVIOUS
  <2>2. QED  BY <2>1, NatMin
<1>2. m # 0 /\ m - 1 \in Nat  OBVIOUS
<1>3. m - 1 \in S  BY <1>1, <1>2
<1>4. QED  BY <1>3

LEMMA MinIsLeast ==
    ASSUME NEW S, S \subseteq Nat, S # {}
    PROVE  Min(S) \in S /\ \A n \in S : Min(S) <= n
<1>1. \E m \in S : \A n \in S : m <= n  BY NatMin
<1>2. QED  BY <1>1 DEF Min

LEMMA MaxIsGreatest ==
    ASSUME NEW S, NEW top \in Nat, S \subseteq 0 .. top, S # {}
    PROVE  Max(S) \in S /\ \A n \in S : n <= Max(S)
<1> DEFINE T == { top - n : n \in S }
<1>1. T \subseteq Nat /\ T # {}
  <2>1. ASSUME NEW n \in S PROVE top - n \in Nat  OBVIOUS
  <2>2. PICK n \in S : TRUE  OBVIOUS
  <2>3. top - n \in T  OBVIOUS
  <2>4. T \subseteq Nat  BY <2>1
  <2>5. QED  BY <2>3, <2>4
<1>2. PICK m \in T : \A n \in T : m <= n  BY <1>1, NatMin
<1>3. PICK x \in S : m = top - x  BY <1>2
<1>4. \A n \in S : x >= n
  <2>1. ASSUME NEW n \in S PROVE x >= n
    <3>1. m <= top - n  BY <1>2
    <3>2. QED  BY <1>3, <3>1
  <2>2. QED  BY <2>1
<1>5. Max(S) \in S /\ \A n \in S : Max(S) >= n
  BY <1>3, <1>4 DEF Max
<1>6. QED  BY <1>5
-----------------------------------------------------------------------------
(* FlattenSeq's recursion unfolds: what each prefix of seqs flattens to.   *)
LEMMA FlattenUnfolds ==
    ASSUME NEW T, NEW seqs \in Seq(Seq(T))
    PROVE  \E f \in [0 .. Len(seqs) -> Seq(T)] :
              /\ f[0] = <<>>
              /\ \A i \in 1 .. Len(seqs) : f[i] = f[i - 1] \o seqs[i]
              /\ FlattenSeq(seqs) = f[Len(seqs)]
<1> DEFINE n == Len(seqs)
           Rhs(g, i) == IF i = 1 THEN seqs[i] ELSE g[i - 1] \o seqs[i]
           Sol(g, k) == g \in [1 .. k -> Seq(T)] /\ \A i \in 1 .. k : g[i] = Rhs(g, i)
           S == { k \in Nat : k <= n => \E g : Sol(g, k) }
<1>0. n \in Nat /\ \A i \in 1 .. n : seqs[i] \in Seq(T)
  BY ElementOfSeq, LenProperties
<1>1. 0 \in S
  <2>1. Sol([i \in 1 .. 0 |-> <<>>], 0)
    OBVIOUS
  <2>2. QED  BY <2>1
<1>2. ASSUME NEW k \in S PROVE k + 1 \in S
  <2>0. k \in Nat /\ (k <= n => \E g : Sol(g, k))
    OBVIOUS
  <2> HIDE DEF S
  <2>1. ASSUME k + 1 <= n PROVE \E g : Sol(g, k + 1)
    <3>1. PICK g : Sol(g, k)
      <4>1. k <= n  BY <1>0, <2>0, <2>1
      <4> HIDE DEF Sol
      <4>2. QED  BY <2>0, <4>1
    <3> DEFINE new == Rhs(g, k + 1)
               h == [i \in 1 .. k + 1 |-> IF i = k + 1 THEN new ELSE g[i]]
    <3>2. /\ \A i \in 1 .. k : h[i] = g[i]
          /\ h[k + 1] = Rhs(g, k + 1)
      <4>1. h[k + 1] = new
        <5> HIDE DEF new
        <5>1. QED  BY <2>0
      <4>2. \A i \in 1 .. k : h[i] = g[i]
        <5> HIDE DEF new
        <5>1. QED  BY <2>0
      <4>3. QED  BY <4>1, <4>2
    <3>4. Rhs(g, k + 1) \in Seq(T)
      <4>1. CASE k = 0
        BY <1>0, <2>0, <2>1, <4>1
      <4>2. CASE k # 0
        <5>1. g[k] \in Seq(T) /\ seqs[k + 1] \in Seq(T)
          BY <1>0, <2>0, <2>1, <3>1, <4>2
        <5>2. Rhs(g, k + 1) = g[k] \o seqs[k + 1]
          <6>1. (k + 1) - 1 = k /\ k + 1 # 1  BY <2>0, <4>2
          <6>2. QED  BY <6>1, Zenon
        <5>3. QED  BY <5>1, <5>2, ConcatProperties
      <4>3. QED  BY <4>1, <4>2
    <3>5. h \in [1 .. k + 1 -> Seq(T)]
      BY <2>0, <3>1, <3>4
    <3> HIDE DEF h
    <3>6. ASSUME NEW i \in 1 .. k + 1 PROVE h[i] = Rhs(h, i)
      <4>1. CASE i = k + 1
        <5>1. Rhs(h, k + 1) = Rhs(g, k + 1)
          BY <2>0, <3>2
        <5>2. QED  BY <3>2, <4>1, <5>1
      <4>2. CASE i # k + 1
        <5>1. i \in 1 .. k /\ (i # 1 => i - 1 \in 1 .. k)
          BY <2>0, <4>2
        <5>2. h[i] = g[i] /\ Rhs(h, i) = Rhs(g, i)
          BY <3>2, <5>1
        <5>3. QED  BY <3>1, <5>1, <5>2
      <4>3. QED  BY <4>1, <4>2
    <3>7. QED  BY <3>5, <3>6
  <2>2. k + 1 \in Nat  BY <2>0
  <2> HIDE DEF Sol
  <2>3. QED  BY <2>1, <2>2 DEF S
<1>3. S = Nat
  <2> HIDE DEF S
  <2>1. S \subseteq Nat  BY DEF S
  <2>2. QED  BY <1>1, <1>2, <2>1, NatInd
<1>4. PICK g : Sol(g, n)
  <2>1. n \in S  BY <1>0, <1>3
  <2>2. n <= n  BY <1>0
  <2>3. QED  BY <2>1, <2>2
<1> DEFINE flatten == CHOOSE g2 : g2 = [i \in 1 .. n |-> Rhs(g2, i)]
<1>5. flatten = [i \in 1 .. n |-> Rhs(flatten, i)]
  <2>1. g = [i \in 1 .. n |-> Rhs(g, i)]
    BY <1>4
  <2>2. QED  BY <2>1
<1> HIDE DEF flatten
<1> DEFINE R == { k \in Nat : k <= n => \A i \in 1 .. k : flatten[i] = g[i] }
<1>6. R = Nat
  <2>1. 0 \in R  OBVIOUS
  <2>2. ASSUME NEW k \in R PROVE k + 1 \in R
    <3>0. k \in Nat /\ (k <= n => \A i \in 1 .. k : flatten[i] = g[i])
      OBVIOUS
    <3> HIDE DEF R
    <3>1. ASSUME k + 1 <= n PROVE flatten[k + 1] = g[k + 1]
      <4>1. k + 1 \in 1 .. n  BY <1>0, <3>0, <3>1
      <4>2. flatten[k + 1] = Rhs(flatten, k + 1)  BY <1>5, <4>1
      <4>3. g[k + 1] = Rhs(g, k + 1)  BY <1>4, <4>1
      <4>4. CASE k = 0
        <5>1. k + 1 = 1  BY <4>4
        <5>2. QED  BY <4>2, <4>3, <5>1
      <4>5. CASE k # 0
        <5>1. k \in 1 .. k /\ k <= n /\ k + 1 # 1  BY <1>0, <3>0, <3>1, <4>5
        <5>2. flatten[k] = g[k]  BY <3>0, <5>1
        <5>3. (k + 1) - 1 = k  BY <3>0
        <5>4. flatten[(k + 1) - 1] = g[(k + 1) - 1]  BY <5>2, <5>3
        <5>5. QED  BY <4>2, <4>3, <5>1, <5>4
      <4>6. QED  BY <3>0, <4>4, <4>5
    <3>2. ASSUME k + 1 <= n, NEW i \in 1 .. k + 1 PROVE flatten[i] = g[i]
      BY <1>0, <3>0, <3>1, <3>2
    <3>3. QED  BY <3>0, <3>2 DEF R
  <2> HIDE DEF R
  <2>3. R \subseteq Nat  BY DEF R
  <2>4. QED  BY <2>1, <2>2, <2>3, NatInd
<1>7. \A i \in 1 .. n : flatten[i] = g[i]
  <2>1. n \in R  BY <1>0, <1>6
  <2>2. n <= n  BY <1>0
  <2>3. QED  BY <2>1, <2>2
<1>8. FlattenSeq(seqs) = IF n = 0 THEN seqs ELSE flatten[n]
  BY DEF FlattenSeq, flatten
<1> DEFINE f == [i \in 0 .. n |-> IF i = 0 THEN <<>> ELSE g[i]]
<1>9. f \in [0 .. n -> Seq(T)]
  BY <1>0, <1>4
<1>10. f[0] = <<>>
  BY <1>0
<1>11. ASSUME NEW i \in 1 .. n PROVE f[i] = f[i - 1] \o seqs[i]
  <2>1. f[i] = Rhs(g, i)
    <3>1. f[i] = g[i]  BY <1>0
    <3>2. QED  BY <1>4, <3>1
  <2>2. CASE i = 1
    <3>1. f[i - 1] = <<>>  BY <1>10, <2>2
    <3>2. seqs[i] \in Seq(T)  BY <1>0
    <3>3. f[i] = seqs[i]  BY <2>1, <2>2
    <3>4. QED  BY <3>1, <3>2, <3>3, ConcatEmptySeq
  <2>3. CASE i # 1
    <3>1. f[i - 1] = g[i - 1]  BY <1>0, <2>3
    <3>2. QED  BY <2>1, <2>3, <3>1
  <2>4. QED  BY <2>2, <2>3
<1>12. FlattenSeq(seqs) = f[n]
  <2>1. CASE n = 0
    <3>1. seqs = <<>>  BY <2>1, EmptySeq
    <3>2. QED  BY <1>8, <1>10, <2>1, <3>1
  <2>2. CASE n # 0
    BY <1>0, <1>7, <1>8, <2>2
  <2>3. QED  BY <2>1, <2>2
<1> HIDE DEF f
<1>13. QED  BY <1>9, <1>10, <1>11, <1>12

(* Where each sequence lies in what the whole flattens to.                 *)
LEMMA FlattenLays ==
    ASSUME NEW T, NEW seqs \in Seq(Seq(T))
    PROVE  /\ FlattenSeq(seqs) \in Seq(T)
           /\ \E len \in [0 .. Len(seqs) -> 0 .. Len(FlattenSeq(seqs))] :
                /\ len[0] = 0 /\ len[Len(seqs)] = Len(FlattenSeq(seqs))
                /\ \A i \in 1 .. Len(seqs) :
                      /\ len[i] = len[i - 1] + Len(seqs[i])
                      /\ \A j \in 1 .. Len(seqs[i]) :
                            FlattenSeq(seqs)[len[i - 1] + j] = seqs[i][j]
<1> DEFINE n == Len(seqs)
           whole == FlattenSeq(seqs)
           total == Len(whole)
<1>1. n \in Nat /\ \A i \in 1 .. n : seqs[i] \in Seq(T)
  BY ElementOfSeq, LenProperties
<1>2. PICK f \in [0 .. n -> Seq(T)] :
         /\ f[0] = <<>>
         /\ \A i \in 1 .. n : f[i] = f[i - 1] \o seqs[i]
         /\ whole = f[n]
  BY FlattenUnfolds
<1> HIDE DEF n, whole
<1> DEFINE len == [i \in 0 .. n |-> Len(f[i])]
           size == [i \in 1 .. n |-> Len(seqs[i])]
<1>3. \A i \in 0 .. n : f[i] \in Seq(T) /\ len[i] = Len(f[i]) /\ len[i] \in Nat
  BY LenProperties
<1>4. \A i \in 1 .. n : size[i] = Len(seqs[i]) /\ size[i] \in Nat
  BY <1>1, LenProperties
<1>5. whole \in Seq(T) /\ total \in Nat /\ len[0] = 0 /\ len[n] = total
  BY <1>1, <1>2, <1>3, EmptySeq
<1> HIDE DEF len, size, total
<1>6. ASSUME NEW i \in 1 .. n
      PROVE  /\ len[i] = len[i - 1] + size[i]
             /\ \A j \in 1 .. len[i - 1] : f[i][j] = f[i - 1][j]
             /\ \A j \in 1 .. size[i] : f[i][len[i - 1] + j] = seqs[i][j]
  <2> DEFINE before == f[i - 1]
             piece == seqs[i]
             l == len[i - 1]
             z == size[i]
  <2>1. i - 1 \in 0 .. n /\ i \in 0 .. n  BY <1>1
  <2>2. before \in Seq(T) /\ Len(before) = l /\ l \in Nat  BY <1>3, <2>1
  <2>3. piece \in Seq(T) /\ Len(piece) = z /\ z \in Nat  BY <1>1, <1>4
  <2>4. f[i] = before \o piece /\ len[i] = Len(f[i])  BY <1>2, <1>3, <2>1
  <2> HIDE DEF before, piece, l, z
  <2>5. /\ Len(f[i]) = l + z
        /\ \A j \in 1 .. l + z : f[i][j] = IF j <= l THEN before[j] ELSE piece[j - l]
    <3>1. /\ Len(before \o piece) = Len(before) + Len(piece)
          /\ \A j \in 1 .. Len(before) + Len(piece) :
                (before \o piece)[j] = IF j <= Len(before) THEN before[j] ELSE piece[j - Len(before)]
      BY <2>2, <2>3, ConcatProperties
    <3>2. QED  BY <2>2, <2>3, <2>4, <3>1, Zenon
  <2>6. ASSUME NEW j \in 1 .. l PROVE f[i][j] = before[j]
    BY <2>2, <2>3, <2>5
  <2>7. ASSUME NEW j \in 1 .. z PROVE f[i][l + j] = piece[j]
    <3> DEFINE at == l + j
    <3>1. at \in 1 .. l + z /\ ~(at <= l) /\ at - l = j  BY <2>2, <2>3
    <3> HIDE DEF at
    <3>2. f[i][at] = piece[j]  BY <2>5, <3>1
    <3>3. QED  BY <3>2 DEF at
  <2>8. QED  BY <2>4, <2>5, <2>6, <2>7 DEF l, z, piece, before
(* What each prefix holds, the whole holds.                                *)
<1> DEFINE Prefix(i) == /\ len[i] <= total
                        /\ \A j \in 1 .. len[i] : whole[j] = f[i][j]
           P == { k \in Nat : k <= n => Prefix(n - k) }
<1>7. \A i \in 0 .. n : Prefix(i)
  <2>1. 0 \in P
    <3>1. n - 0 = n  BY <1>1 DEF n
    <3>2. Prefix(n)
      <4>1. len[n] <= total  BY <1>5
      <4>2. QED  BY <1>2, <4>1
    <3>3. QED  BY <3>1, <3>2
  <2>2. ASSUME NEW k \in P PROVE k + 1 \in P
    <3>1. k \in Nat /\ (k <= n => Prefix(n - k))  OBVIOUS
    <3> HIDE DEF P
    <3>2. ASSUME k + 1 <= n PROVE Prefix(n - (k + 1))
      <4> DEFINE i == n - k
      <4>1. i \in 1 .. n /\ i - 1 = n - (k + 1) /\ k <= n /\ i \in 0 .. n /\ i - 1 \in 0 .. n
        BY <1>1, <3>1, <3>2 DEF n
      <4>2. Prefix(i)  BY <3>1, <4>1
      <4> HIDE DEF i
      <4>3. len[i] = len[i - 1] + size[i] /\ size[i] \in Nat /\ len[i - 1] \in Nat /\ len[i] \in Nat
        BY <1>3, <1>4, <1>6, <4>1, Zenon
      <4>4. len[i - 1] <= len[i]  BY <4>3
      <4>5. len[i - 1] <= total  BY <1>5, <4>2, <4>3, <4>4
      <4>6. ASSUME NEW j \in 1 .. len[i - 1] PROVE whole[j] = f[i - 1][j]
        <5>1. j \in 1 .. len[i]  BY <4>3, <4>4
        <5>2. f[i][j] = f[i - 1][j]  BY <1>6, <4>1
        <5>3. QED  BY <4>2, <5>1, <5>2
      <4>7. Prefix(i - 1)  BY <4>5, <4>6
      <4>8. QED  BY <4>1, <4>7
    <3> HIDE DEF Prefix
    <3>3. QED  BY <3>1, <3>2 DEF P
  <2>3. P = Nat
    <3> HIDE DEF P
    <3>1. P \subseteq Nat  BY DEF P
    <3>2. QED  BY <2>1, <2>2, <3>1, NatInd
  <2>4. ASSUME NEW i \in 0 .. n PROVE Prefix(i)
    <3>1. n - i \in Nat /\ n - i <= n /\ n - (n - i) = i  BY <1>1 DEF n
    <3>2. n - i \in P  BY <2>3, <3>1
    <3> HIDE DEF Prefix
    <3>3. QED  BY <3>1, <3>2
  <2>5. QED  BY <2>4
<1>8. ASSUME NEW i \in 1 .. n
      PROVE  /\ len[i] = len[i - 1] + Len(seqs[i])
             /\ \A j \in 1 .. Len(seqs[i]) : whole[len[i - 1] + j] = seqs[i][j]
  <2> DEFINE l == len[i - 1]
             z == size[i]
             m == len[i]
  <2>1. i - 1 \in 0 .. n /\ i \in 0 .. n  BY <1>1
  <2>2. l \in Nat /\ z \in Nat /\ m = l + z /\ z = Len(seqs[i])
    BY <1>3, <1>4, <1>6, <2>1, Zenon
  <2>3. \A j \in 1 .. m : whole[j] = f[i][j]  BY <1>7, <2>1
  <2>4. \A j \in 1 .. z : f[i][l + j] = seqs[i][j]  BY <1>6
  <2> HIDE DEF l, z, m
  <2>5. ASSUME NEW j \in 1 .. z PROVE whole[l + j] = seqs[i][j]
    <3>1. l + j \in 1 .. m  BY <2>2
    <3>2. QED  BY <2>3, <2>4, <3>1
  <2>6. QED  BY <2>2, <2>5 DEF l, m
<1>9. len \in [0 .. n -> 0 .. total]
  <2>1. \A i \in 0 .. n : len[i] \in 0 .. total
    BY <1>3, <1>5, <1>7
  <2>2. len = [i \in 0 .. n |-> len[i]]
    BY DEF len
  <2>3. QED  BY <2>1, <2>2
<1>10. QED
  BY <1>5, <1>8, <1>9 DEF n, total, whole

(* g starts at first, and step says how a value follows from the one before. *)
Recurs(g, V, first, step) ==
    g \in [Nat -> V] /\ g[0] = first /\ \A k \in Nat : g[k + 1] = step[k][g[k]]

(* A function can be defined so.                                           *)
LEMMA NatRecursion ==
    ASSUME NEW V, NEW first \in V, NEW step \in [Nat -> [V -> V]]
    PROVE  \E g : Recurs(g, V, first, step)
<1> DEFINE Sol(g, k) == /\ g \in [0 .. k -> V] /\ g[0] = first
                        /\ \A i \in 1 .. k : g[i] = step[i - 1][g[i - 1]]
           S == { k \in Nat : \E g : Sol(g, k) }
           upTo(k) == CHOOSE g : Sol(g, k)
           all == [k \in Nat |-> upTo(k)[k]]
<1>1. S = Nat
  <2>1. 0 \in S
    <3>1. Sol([i \in 0 .. 0 |-> first], 0)  OBVIOUS
    <3>2. QED  BY <3>1
  <2>2. ASSUME NEW k \in S PROVE k + 1 \in S
    <3>1. k \in Nat /\ k + 1 \in Nat  OBVIOUS
    <3>2. PICK g : Sol(g, k)  OBVIOUS
    <3> DEFINE new == step[k][g[k]]
               h == [i \in 0 .. k + 1 |-> IF i = k + 1 THEN new ELSE g[i]]
    <3>3. new \in V
      <4>1. k \in 0 .. k /\ g[k] \in V /\ step[k] \in [V -> V]  BY <3>1, <3>2
      <4>2. QED  BY <4>1
    <3> HIDE DEF new, S
    <3>4. /\ h \in [0 .. k + 1 -> V] /\ h[0] = first /\ h[k + 1] = new
          /\ \A i \in 0 .. k : h[i] = g[i]
      <4>1. \A i \in 0 .. k + 1 : h[i] = IF i = k + 1 THEN new ELSE g[i]  OBVIOUS
      <4>2. \A i \in 0 .. k : i # k + 1 /\ i \in 0 .. k + 1 /\ g[i] \in V  BY <3>1, <3>2
      <4>3. h \in [0 .. k + 1 -> V]  BY <3>1, <3>2, <3>3
      <4>4. 0 \in 0 .. k /\ k + 1 \in 0 .. k + 1  BY <3>1
      <4>5. QED  BY <3>2, <4>1, <4>2, <4>3, <4>4
    <3> HIDE DEF h
    <3>5. ASSUME NEW i \in 1 .. k + 1 PROVE h[i] = step[i - 1][h[i - 1]]
      <4>1. i - 1 \in 0 .. k  BY <3>1
      <4>2. h[i - 1] = g[i - 1]  BY <3>4, <4>1
      <4>3. CASE i = k + 1
        <5>1. i - 1 = k  BY <3>1, <4>3
        <5>2. QED  BY <3>4, <4>2, <4>3, <5>1 DEF new
      <4>4. CASE i # k + 1
        <5>1. i \in 1 .. k /\ i \in 0 .. k  BY <3>1, <4>4
        <5>2. g[i] = step[i - 1][g[i - 1]] /\ h[i] = g[i]  BY <3>2, <3>4, <5>1
        <5>3. QED  BY <4>2, <5>2
      <4>5. QED  BY <4>3, <4>4
    <3>6. Sol(h, k + 1)  BY <3>4, <3>5
    <3>7. QED  BY <3>1, <3>6 DEF S
  <2>3. S \subseteq Nat  OBVIOUS
  <2> HIDE DEF S
  <2>4. QED  BY <2>1, <2>2, <2>3, NatInd
<1>2. \A k \in Nat : Sol(upTo(k), k)
  <2>1. ASSUME NEW k \in Nat PROVE Sol(upTo(k), k)
    <3>1. k \in S  BY <1>1
    <3>2. \E g : Sol(g, k)  BY <3>1
    <3> HIDE DEF Sol, S
    <3>3. QED  BY <3>2
  <2>2. QED  BY <2>1
<1> HIDE DEF upTo
<1>3. ASSUME NEW k \in Nat PROVE upTo(k + 1)[k] = upTo(k)[k]
  <2> DEFINE a == upTo(k + 1)
             b == upTo(k)
             E == { i \in Nat : i <= k => a[i] = b[i] }
  <2>1. Sol(a, k + 1) /\ Sol(b, k)  BY <1>2
  <2> HIDE DEF a, b
  <2>2. 0 \in E  BY <2>1
  <2>3. ASSUME NEW i \in E PROVE i + 1 \in E
    <3>1. i \in Nat /\ (i <= k => a[i] = b[i]) /\ i + 1 \in Nat  OBVIOUS
    <3>2. ASSUME i + 1 <= k PROVE a[i + 1] = b[i + 1]
      <4>1. i + 1 \in 1 .. k /\ i + 1 \in 1 .. k + 1 /\ (i + 1) - 1 = i /\ i <= k  BY <3>1, <3>2
      <4>2. a[i + 1] = step[(i + 1) - 1][a[(i + 1) - 1]]  BY <2>1, <4>1
      <4>3. b[i + 1] = step[(i + 1) - 1][b[(i + 1) - 1]]  BY <2>1, <4>1
      <4>4. QED  BY <3>1, <4>1, <4>2, <4>3
    <3>3. QED  BY <3>1, <3>2
  <2>4. E \subseteq Nat  OBVIOUS
  <2> HIDE DEF E
  <2>5. E = Nat  BY <2>2, <2>3, <2>4, NatInd
  <2>6. k \in E  BY <2>5
  <2>7. QED  BY <2>6 DEF E, a, b
<1>4. all \in [Nat -> V]
  <2>1. ASSUME NEW k \in Nat PROVE upTo(k)[k] \in V
    <3>1. k \in 0 .. k /\ upTo(k) \in [0 .. k -> V]  BY <1>2
    <3>2. QED  BY <3>1
  <2>2. QED  BY <2>1
<1>5. all[0] = first
  <2>1. all[0] = upTo(0)[0] /\ upTo(0)[0] = first  BY <1>2
  <2>2. QED  BY <2>1
<1>6. ASSUME NEW k \in Nat PROVE all[k + 1] = step[k][all[k]]
  <2>1. k + 1 \in Nat /\ k + 1 \in 1 .. k + 1 /\ (k + 1) - 1 = k  OBVIOUS
  <2>2. all[k + 1] = upTo(k + 1)[k + 1] /\ all[k] = upTo(k)[k]  BY <2>1
  <2>3. upTo(k + 1)[k + 1] = step[(k + 1) - 1][upTo(k + 1)[(k + 1) - 1]]  BY <1>2, <2>1
  <2>4. QED  BY <1>3, <2>1, <2>2, <2>3
<1> HIDE DEF all
<1>7. QED  BY <1>4, <1>5, <1>6 DEF Recurs

(* Induction along an interval, stated of a set.                           *)
LEMMA IntervalInd ==
    ASSUME NEW lo \in Nat \ {0}, NEW hi \in Nat, NEW S, lo - 1 \in S,
           \A i \in lo .. hi : i - 1 \in S => i \in S
    PROVE  \A i \in lo - 1 .. hi : i \in S
<1> DEFINE K == { k \in Nat : lo - 1 + k <= hi => lo - 1 + k \in S }
<1>1. 0 \in K
  <2>1. lo - 1 + 0 = lo - 1  OBVIOUS
  <2>2. QED  BY <2>1
<1>2. ASSUME NEW k \in K PROVE k + 1 \in K
  <2> DEFINE i == lo - 1 + (k + 1)
  <2>1. k \in Nat /\ i \in Nat /\ i - 1 = lo - 1 + k /\ lo <= i
        /\ (i - 1 <= hi => i - 1 \in S)
    OBVIOUS
  <2> HIDE DEF i
  <2>2. i <= hi => i \in S
    <3>1. i <= hi => i \in lo .. hi /\ i - 1 <= hi  BY <2>1
    <3>2. QED  BY <2>1, <3>1
  <2>3. k + 1 \in Nat  BY <2>1
  <2>4. QED  BY <2>2, <2>3 DEF i
<1>3. K \subseteq Nat  OBVIOUS
<1> HIDE DEF K
<1>4. K = Nat  BY <1>1, <1>2, <1>3, NatInd
<1>5. ASSUME NEW i \in lo - 1 .. hi PROVE i \in S
  <2> DEFINE k == i - (lo - 1)
  <2>1. k \in Nat /\ lo - 1 + k = i  OBVIOUS
  <2>2. k \in K  BY <1>4, <2>1
  <2> HIDE DEF k
  <2>3. lo - 1 + k <= hi  BY <2>1
  <2>4. lo - 1 + k \in S  BY <2>2, <2>3 DEF K
  <2>5. QED  BY <2>1, <2>4
<1>6. QED  BY <1>5
-----------------------------------------------------------------------------
(* What the powers of a base are: the recursion has its solution.          *)
LEMMA PowersAre ==
    ASSUME NEW b \in Nat \ {0}, NEW p,
           p = CHOOSE h : h = [k \in Nat |-> IF k = 0 THEN 1 ELSE b * h[k - 1]]
    PROVE  /\ p[0] = 1
           /\ \A k \in Nat : p[k] \in Nat \ {0} /\ p[k + 1] = b * p[k]
<1> DEFINE step == [k \in Nat |-> [x \in Nat |-> b * x]]
           body(g) == [k \in Nat |-> IF k = 0 THEN 1 ELSE b * g[k - 1]]
<1>1. PICK g : Recurs(g, Nat, 1, step)
  <2>1. step \in [Nat -> [Nat -> Nat]] /\ 1 \in Nat  OBVIOUS
  <2> HIDE DEF step
  <2>2. QED  BY <2>1, NatRecursion
<1>2. g \in [Nat -> Nat] /\ g[0] = 1 /\ \A k \in Nat : g[k + 1] = b * g[k]  BY <1>1 DEF Recurs
<1>3. g = body(g)
  <2>1. ASSUME NEW k \in Nat, k # 0 PROVE g[k] = b * g[k - 1]
    <3>1. k - 1 \in Nat /\ (k - 1) + 1 = k  BY <2>1
    <3>2. g[(k - 1) + 1] = b * g[k - 1]  BY <1>2, <3>1
    <3>3. QED  BY <3>1, <3>2
  <2>2. QED  BY <1>2, <2>1
<1>4. p = body(p)
  <2>1. p = CHOOSE h : h = body(h)  BY Zenon
  <2> HIDE DEF body
  <2>2. QED  BY <1>3, <2>1
<1>5. p[0] = 1  BY <1>4
<1>6. ASSUME NEW k \in Nat PROVE p[k + 1] = b * p[k]
  <2>1. k + 1 \in Nat /\ k + 1 # 0 /\ (k + 1) - 1 = k  OBVIOUS
  <2>2. QED  BY <1>4, <2>1
<1>7. \A k \in Nat : p[k] \in Nat \ {0}
  <2> DEFINE S == { k \in Nat : p[k] \in Nat \ {0} }
  <2>1. 0 \in S  BY <1>5
  <2>2. ASSUME NEW k \in S PROVE k + 1 \in S
    <3>1. k \in Nat /\ k + 1 \in Nat /\ p[k] \in Nat \ {0}  OBVIOUS
    <3>2. p[k + 1] = b * p[k]  BY <1>6, <3>1
    <3>3. b * p[k] \in Nat \ {0}  BY <3>1
    <3>4. QED  BY <3>1, <3>2, <3>3
  <2>3. S \subseteq Nat  OBVIOUS
  <2> HIDE DEF S
  <2>4. S = Nat  BY <2>1, <2>2, <2>3, NatInd
  <2>5. QED  BY <2>4 DEF S
<1>8. QED  BY <1>5, <1>6, <1>7

LEMMA TensAre ==
    /\ Tens[0] = 1
    /\ \A k \in Nat : Tens[k] \in Nat \ {0} /\ Tens[k + 1] = 10 * Tens[k]
<1>1. Tens = CHOOSE h : h = [k \in Nat |-> IF k = 0 THEN 1 ELSE 10 * h[k - 1]]  BY Zenon DEF Tens
<1>2. 10 \in Nat \ {0}  OBVIOUS
<1>3. QED  BY <1>1, <1>2, PowersAre

LEMMA TwosAre ==
    /\ Twos[0] = 1
    /\ \A k \in Nat : Twos[k] \in Nat \ {0} /\ Twos[k + 1] = 2 * Twos[k]
<1>1. Twos = CHOOSE h : h = [k \in Nat |-> IF k = 0 THEN 1 ELSE 2 * h[k - 1]]  BY Zenon DEF Twos
<1>2. 2 \in Nat \ {0}  OBVIOUS
<1>3. QED  BY <1>1, <1>2, PowersAre

LEMMA TensGrow ==
    ASSUME NEW j \in Nat, NEW k \in Nat, Tens[j] < Tens[k]
    PROVE  j < k
<1> DEFINE S == { m \in Nat : Tens[k] <= Tens[k + m] }
<1>1. 0 \in S  BY TensAre
<1>2. ASSUME NEW m \in S PROVE m + 1 \in S
  <2>1. m \in Nat /\ Tens[k] <= Tens[k + m]  OBVIOUS
  <2>2. Tens[(k + m) + 1] = 10 * Tens[k + m] /\ Tens[k + m] \in Nat /\ k + (m + 1) = (k + m) + 1
        /\ Tens[k] \in Nat
    BY <2>1, TensAre
  <2>3. Tens[k] <= Tens[k + (m + 1)]  BY <2>1, <2>2
  <2>4. QED  BY <2>1, <2>3
<1>3. S \subseteq Nat  OBVIOUS
<1> HIDE DEF S
<1>4. S = Nat  BY <1>1, <1>2, <1>3, NatInd
<1>5. ASSUME k <= j PROVE FALSE
  <2>1. j - k \in S /\ k + (j - k) = j  BY <1>4, <1>5
  <2>2. Tens[k] <= Tens[j]  BY <2>1 DEF S
  <2>3. QED  BY <2>2, TensAre
<1>6. QED  BY <1>5
===============================================================================
