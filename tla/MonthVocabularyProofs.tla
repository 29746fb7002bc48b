------------------------- MODULE MonthVocabularyProofs -------------------------
(***************************************************************************)
(* The month vocabularies, for every declaration, every packed vocabulary  *)
(* and any hash: what the bytes hold, that the binding's judgement of them *)
(* is the core's, and what a date door is handed.                          *)
(***************************************************************************)
EXTENDS MonthVocabulary, SequenceLemmas

(* An entry as it is read off the bytes.                                   *)
Read == [month : Nat, name : Seq(Nat)]

(* The entry whose bytes are those of bytes after i, up to End(bytes, i).  *)
EntryAt(bytes, i) ==
    [month |-> bytes[i + 1], name |-> SubSeq(bytes, i + Header + 1, End(bytes, i))]

(* The entries lie in bytes one after the other, the jth from pos[j - 1] to *)
(* pos[j], and no whole one follows the last.                              *)
Lie(bytes, first, entries, pos) ==
    /\ entries \in Seq(Read)
    /\ pos \in [0 .. Len(entries) -> 0 .. Len(bytes)]
    /\ pos[0] = first
    /\ \A j \in 1 .. Len(entries) :
          pos[j] = End(bytes, pos[j - 1]) /\ entries[j] = EntryAt(bytes, pos[j - 1])
    /\ End(bytes, pos[Len(entries)]) > Len(bytes)

(* An entry takes its header at least.                                     *)
LEMMA EndIsLater ==
    ASSUME NEW bytes \in Seq(Nat), NEW i \in 0 .. Len(bytes)
    PROVE  /\ End(bytes, i) \in Nat /\ End(bytes, i) > i
           /\ End(bytes, i) <= Len(bytes) =>
                /\ i + 2 <= End(bytes, i) /\ bytes[i + 2] \in Nat
                /\ End(bytes, i) = i + 2 + bytes[i + 2]
<1>1. Len(bytes) \in Nat  BY LenProperties
<1>2. CASE i + 2 > Len(bytes)
  <2>1. End(bytes, i) = Len(bytes) + 1  BY <1>2 DEF End, Header
  <2>2. QED  BY <1>1, <2>1
<1>3. CASE ~(i + 2 > Len(bytes))
  <2>1. i + 2 \in 1 .. Len(bytes)  BY <1>1, <1>3
  <2>2. bytes[i + 2] \in Nat  BY <2>1, ElementOfSeq
  <2>3. End(bytes, i) = i + 2 + bytes[i + 2]  BY <1>3 DEF End, Header
  <2>4. QED  BY <2>2, <2>3
<1>4. QED  BY <1>2, <1>3

LEMMA EntryAtIsRead ==
    ASSUME NEW bytes \in Seq(Nat), NEW i \in 0 .. Len(bytes), End(bytes, i) <= Len(bytes)
    PROVE  /\ EntryAt(bytes, i) \in Read
           /\ Len(EntryAt(bytes, i).name) = bytes[i + 2]
           /\ \A j \in 1 .. bytes[i + 2] : EntryAt(bytes, i).name[j] = bytes[i + 2 + j]
<1> DEFINE z == bytes[i + 2]
           e == End(bytes, i)
           n == Len(bytes)
           low == i + 2 + 1
           part == SubSeq(bytes, low, e)
<1>1. n \in Nat  BY LenProperties
<1>2. e \in Nat /\ i + 2 <= e /\ z \in Nat /\ e = i + 2 + z  BY EndIsLater
<1> HIDE DEF z, e, n
<1>3. e <= n  BY DEF e, n
<1>4. i \in 0 .. n  BY DEF n
<1>5. \A j \in 1 .. n : bytes[j] \in Nat  BY ElementOfSeq DEF n
<1>6. i + 1 \in 1 .. n  BY <1>1, <1>2, <1>3, <1>4
<1>7. low \in Int /\ e \in Int /\ e - low + 1 = z /\ (low <= e <=> z > 0)
      /\ \A j \in low .. e : j \in 1 .. n
  BY <1>1, <1>2, <1>3, <1>4
<1>8. \A j \in low .. e : bytes[j] \in Nat  BY <1>5, <1>7
<1>9. \A j \in 1 .. z : low + j - 1 = i + 2 + j
  BY <1>2, <1>4
<1> HIDE DEF low
<1>10. /\ part \in Seq(Nat)
       /\ Len(part) = IF low <= e THEN e - low + 1 ELSE 0
       /\ \A j \in 1 .. e - low + 1 : part[j] = bytes[low + j - 1]
  BY <1>7, <1>8, SubSeqProperties
<1> HIDE DEF part
<1>11. Len(part) = z  BY <1>2, <1>7, <1>10
<1>12. \A j \in 1 .. z : part[j] = bytes[i + 2 + j]  BY <1>7, <1>9, <1>10
<1>13. EntryAt(bytes, i) = [month |-> bytes[i + 1], name |-> part]
  BY DEF EntryAt, Header, part, low, e
<1>14. bytes[i + 1] \in Nat  BY <1>5, <1>6
<1>15. QED  BY <1>10, <1>11, <1>12, <1>13, <1>14 DEF Read, z

(* EntriesFrom's recursion unfolds: an entry, then what follows it.        *)
LEMMA EntriesFromUnfolds ==
    ASSUME NEW bytes \in Seq(Nat)
    PROVE  \A i \in 0 .. Len(bytes) :
              EntriesFrom(bytes)[i] =
                 IF End(bytes, i) > Len(bytes) THEN <<>>
                 ELSE <<EntryAt(bytes, i)>> \o EntriesFrom(bytes)[End(bytes, i)]
<1> DEFINE n == Len(bytes)
           next(i) == End(bytes, i)
           piece(i) == <<EntryAt(bytes, i)>>
           Rhs(g, i) == IF next(i) > n THEN <<>> ELSE piece(i) \o g[next(i)]
           Sol(g, k) == \A i \in 0 .. n : i + k > n => g[i] = Rhs(g, i)
           S == { k \in Nat : \E g : Sol(g, k) }
           read == CHOOSE g : g = [i \in 0 .. n |-> Rhs(g, i)]
<1>1. n \in Nat  BY LenProperties
<1>2. \A i \in 0 .. n : next(i) \in Nat /\ next(i) > i  BY EndIsLater
<1>3. EntriesFrom(bytes) = read  BY DEF EntriesFrom, EntryAt
<1> HIDE DEF n, piece, next
<1>4. 0 \in S
  <2>1. Sol([i \in 0 .. n |-> <<>>], 0)  BY <1>1
  <2>2. QED  BY <2>1
<1>5. ASSUME NEW k \in S PROVE k + 1 \in S
  <2>1. k \in Nat  OBVIOUS
  <2>2. PICK g : Sol(g, k)  OBVIOUS
  <2> DEFINE new == Rhs(g, n - k)
             h == [i \in 0 .. n |-> IF i = n - k THEN new ELSE g[i]]
  <2>3. \A i \in 0 .. n : h[i] = IF i = n - k THEN new ELSE g[i]
    <3> HIDE DEF new
    <3>1. QED  OBVIOUS
  <2> HIDE DEF h, S
  <2>4. ASSUME NEW i \in 0 .. n, i + (k + 1) > n PROVE h[i] = Rhs(h, i)
    <3>1. next(i) > n => Rhs(h, i) = <<>> /\ Rhs(g, i) = <<>>
      OBVIOUS
    <3>2. ~(next(i) > n) => next(i) \in 0 .. n /\ next(i) # n - k
      BY <1>1, <1>2, <2>1, <2>4
    <3>3. ~(next(i) > n) => h[next(i)] = g[next(i)]
      BY <2>3, <3>2
    <3>4. Rhs(h, i) = Rhs(g, i)
      BY <1>1, <3>1, <3>3
    <3>5. CASE i = n - k
      BY <2>3, <3>4, <3>5
    <3>6. CASE i # n - k
      <4>1. i + k > n  BY <1>1, <2>1, <2>4, <3>6
      <4>2. h[i] = g[i]  BY <2>3, <3>6
      <4>3. g[i] = Rhs(g, i)  BY <2>2, <4>1
      <4>4. QED  BY <3>4, <4>2, <4>3
    <3>7. QED  BY <3>5, <3>6
  <2>5. Sol(h, k + 1)  BY <2>4
  <2> HIDE DEF Sol
  <2>6. QED  BY <2>1, <2>5 DEF S
<1>6. S = Nat
  <2> HIDE DEF S
  <2>1. S \subseteq Nat  BY DEF S
  <2>2. QED  BY <1>4, <1>5, <2>1, NatInd
<1>7. PICK g : \A i \in 0 .. n : g[i] = Rhs(g, i)
  <2>0. n + 1 \in Nat  BY <1>1
  <2>1. n + 1 \in S  BY <1>6, <2>0, Zenon
  <2>2. PICK g : Sol(g, n + 1)  BY <2>1
  <2>3. \A i \in 0 .. n : i + (n + 1) > n  BY <1>1
  <2>4. QED  BY <2>2, <2>3
<1> DEFINE f == [i \in 0 .. n |-> g[i]]
<1>8. f = [i \in 0 .. n |-> Rhs(f, i)]
  <2>1. ASSUME NEW i \in 0 .. n PROVE Rhs(f, i) = g[i]
    <3>1. CASE next(i) > n  BY <1>7, <3>1
    <3>2. CASE ~(next(i) > n)
      <4>1. next(i) \in 0 .. n  BY <1>1, <1>2, <3>2
      <4>2. f[next(i)] = g[next(i)]  BY <4>1
      <4> HIDE DEF f
      <4>3. QED  BY <1>7, <3>2, <4>2
    <3>3. QED  BY <3>1, <3>2
  <2>2. QED  BY <2>1, Zenon
<1>9. read = [i \in 0 .. n |-> Rhs(read, i)]
  BY <1>8
<1> HIDE DEF read
<1>10. \A i \in 0 .. n : read[i] = Rhs(read, i)
  BY <1>9
<1>11. QED  BY <1>3, <1>10, Zenon DEF n, piece, next

(* From any place in the bytes, EntriesFrom reads entries that lie there.  *)
LEMMA EntriesFromLie ==
    ASSUME NEW bytes \in Seq(Nat)
    PROVE  \A i \in 0 .. Len(bytes) : \E pos : Lie(bytes, i, EntriesFrom(bytes)[i], pos)
<1> DEFINE n == Len(bytes)
           read == EntriesFrom(bytes)
           S == { k \in Nat : \A i \in 0 .. n : i + k > n => \E pos : Lie(bytes, i, read[i], pos) }
<1>1. n \in Nat  BY LenProperties
<1>2. \A i \in 0 .. n : read[i] = IF End(bytes, i) > n THEN <<>>
                                  ELSE <<EntryAt(bytes, i)>> \o read[End(bytes, i)]
  BY EntriesFromUnfolds
<1>3. \A i \in 0 .. n : End(bytes, i) \in Nat /\ End(bytes, i) > i
  BY EndIsLater
<1> HIDE DEF read
<1>4. 0 \in S  BY <1>1
<1>5. ASSUME NEW k \in S PROVE k + 1 \in S
  <2>1. k \in Nat /\ \A i \in 0 .. n : i + k > n => \E pos : Lie(bytes, i, read[i], pos)
    OBVIOUS
  <2> HIDE DEF S
  <2>2. ASSUME NEW i \in 0 .. n, i + (k + 1) > n
        PROVE  \E pos : Lie(bytes, i, read[i], pos)
    <3>1. CASE End(bytes, i) > n
      <4>1. read[i] = <<>>  BY <1>2, <3>1
      <4> DEFINE none == [j \in 0 .. 0 |-> i]
      <4>2. none \in [0 .. 0 -> 0 .. n] /\ none[0] = i  OBVIOUS
      <4> HIDE DEF none
      <4>3. Len(<<>>) = 0 /\ <<>> \in Seq(Read)  OBVIOUS
      <4>4. Lie(bytes, i, <<>>, none)
        BY <3>1, <4>2, <4>3 DEF Lie
      <4>5. QED  BY <4>1, <4>4
    <3>2. CASE ~(End(bytes, i) > n)
      <4> DEFINE e == End(bytes, i)
                 entry == EntryAt(bytes, i)
                 rest == read[e]
      <4>1. e \in 0 .. n /\ e + k > n
        BY <1>1, <1>3, <2>1, <2>2, <3>2
      <4>2. PICK pos : Lie(bytes, e, rest, pos)
        BY <2>1, <4>1
      <4>3. read[i] = <<entry>> \o rest  BY <1>2, <3>2
      <4>4. entry \in Read
        <5>1. End(bytes, i) <= Len(bytes)  BY <4>1
        <5>2. QED  BY <5>1, EntryAtIsRead
      <4> HIDE DEF rest
      <4> DEFINE m == Len(rest)
      <4>5. rest \in Seq(Read) /\ m \in Nat
        BY <4>2, LenProperties DEF Lie
      <4>6. /\ pos \in [0 .. m -> 0 .. n] /\ pos[0] = e
            /\ \A j \in 1 .. m : pos[j] = End(bytes, pos[j - 1]) /\ rest[j] = EntryAt(bytes, pos[j - 1])
            /\ End(bytes, pos[m]) > n
        BY <4>2 DEF Lie
      <4> HIDE DEF m
      <4>7. e = End(bytes, i) /\ entry = EntryAt(bytes, i)  OBVIOUS
      <4> HIDE DEF e, entry
      <4> DEFINE all == <<entry>> \o rest
                 where == [j \in 0 .. m + 1 |-> IF j = 0 THEN i ELSE pos[j - 1]]
      <4>8. /\ all \in Seq(Read) /\ Len(all) = m + 1 /\ all[1] = entry
            /\ \A j \in 2 .. m + 1 : all[j] = rest[j - 1]
        <5>1. <<entry>> \in Seq(Read) /\ Len(<<entry>>) = 1 /\ <<entry>>[1] = entry  BY <4>4
        <5>2. /\ all \in Seq(Read) /\ Len(all) = Len(<<entry>>) + Len(rest)
              /\ \A j \in 1 .. Len(<<entry>>) + Len(rest) :
                    all[j] = IF j <= Len(<<entry>>) THEN <<entry>>[j] ELSE rest[j - Len(<<entry>>)]
          BY <4>5, <5>1, ConcatProperties
        <5> HIDE DEF all
        <5>3. Len(all) = m + 1 /\ \A j \in 1 .. m + 1 : all[j] = IF j <= 1 THEN entry ELSE rest[j - 1]
          BY <4>5, <5>1, <5>2 DEF m
        <5>4. QED  BY <4>5, <5>2, <5>3
      <4>9. /\ where[0] = i /\ where[m + 1] = pos[m]
            /\ \A j \in 1 .. m + 1 : where[j] = pos[j - 1]
            /\ where \in [0 .. m + 1 -> 0 .. n]
        <5>1. \A j \in 1 .. m + 1 : j - 1 \in 0 .. m /\ j # 0 /\ j \in 0 .. m + 1  BY <4>5
        <5>2. m + 1 \in 1 .. m + 1 /\ (m + 1) - 1 = m /\ 0 \in 0 .. m + 1  BY <4>5
        <5>3. \A j \in 1 .. m + 1 : where[j] = pos[j - 1] /\ where[j] \in 0 .. n
          BY <4>6, <5>1
        <5>4. where[0] = i  BY <5>2
        <5>5. \A j \in 0 .. m + 1 : j = 0 \/ j \in 1 .. m + 1  BY <4>5
        <5> HIDE DEF where
        <5>6. \A j \in 0 .. m + 1 : where[j] \in 0 .. n  BY <5>3, <5>4, <5>5
        <5>7. where \in [0 .. m + 1 -> 0 .. n]  BY <5>6 DEF where
        <5>8. where[m + 1] = pos[m]
          <6>1. where[m + 1] = pos[(m + 1) - 1]  BY <5>2, <5>3
          <6>2. QED  BY <5>2, <6>1
        <5>9. QED  BY <5>3, <5>4, <5>7, <5>8
      <4> HIDE DEF where, all
      <4>10. ASSUME NEW j \in 1 .. m + 1
             PROVE  where[j] = End(bytes, where[j - 1]) /\ all[j] = EntryAt(bytes, where[j - 1])
        <5>1. CASE j = 1
          <6>1. j - 1 = 0  BY <5>1
          <6>2. where[1] = pos[1 - 1] /\ 1 - 1 = 0  BY <4>9, <5>1
          <6>3. QED  BY <4>6, <4>7, <4>8, <4>9, <5>1, <6>1, <6>2
        <5>2. CASE j # 1
          <6>1. j - 1 \in 1 .. m /\ j \in 2 .. m + 1 /\ j - 1 \in 1 .. m + 1  BY <4>5, <5>2
          <6>2. where[j] = pos[j - 1] /\ where[j - 1] = pos[(j - 1) - 1] /\ all[j] = rest[j - 1]
            BY <4>8, <4>9, <6>1
          <6>3. QED  BY <4>6, <6>1, <6>2
        <5>3. QED  BY <5>1, <5>2
      <4>11. Lie(bytes, i, all, where)
        BY <4>6, <4>8, <4>9, <4>10 DEF Lie
      <4>12. QED  BY <4>3, <4>11 DEF all
    <3>3. QED  BY <3>1, <3>2
  <2>3. QED  BY <2>1, <2>2 DEF S
<1>6. S = Nat
  <2> HIDE DEF S
  <2>1. S \subseteq Nat  BY DEF S
  <2>2. QED  BY <1>4, <1>5, <2>1, NatInd
<1>7. QED
  <2>0. n + 1 \in Nat  BY <1>1
  <2>1. n + 1 \in S  BY <1>6, <2>0, Zenon
  <2>2. \A i \in 0 .. n : i + (n + 1) > n  BY <1>1
  <2>3. QED  BY <2>1, <2>2 DEF read

LEMMA EntriesLie ==
    ASSUME NEW bytes \in Seq(Nat)
    PROVE  \E pos : Lie(bytes, 0, EntriesOf(bytes), pos)
<1>1. 0 \in 0 .. Len(bytes)  BY LenProperties
<1>2. QED  BY <1>1, EntriesFromLie DEF EntriesOf

(* Entries lie in bytes in one way.                                        *)
LEMMA LieOnce ==
    ASSUME NEW bytes \in Seq(Nat), NEW first, NEW a, NEW pos, Lie(bytes, first, a, pos),
           NEW b, NEW where, Lie(bytes, first, b, where)
    PROVE  a = b
<1> DEFINE m == Len(a)
           l == Len(b)
           S == { k \in Nat : k <= m => k <= l /\ where[k] = pos[k] }
<1>1. m \in Nat /\ l \in Nat /\ a \in Seq(Read) /\ b \in Seq(Read)
  BY LenProperties DEF Lie
<1>2. /\ pos[0] = first /\ where[0] = first
      /\ \A j \in 1 .. m : pos[j] = End(bytes, pos[j - 1]) /\ a[j] = EntryAt(bytes, pos[j - 1])
      /\ \A j \in 1 .. l : where[j] = End(bytes, where[j - 1]) /\ b[j] = EntryAt(bytes, where[j - 1])
      /\ End(bytes, pos[m]) > Len(bytes) /\ End(bytes, where[l]) > Len(bytes)
      /\ \A j \in 0 .. m : pos[j] \in 0 .. Len(bytes)
      /\ Len(bytes) \in Nat
  BY LenProperties DEF Lie
<1> HIDE DEF m, l
<1>3. 0 \in S  BY <1>1, <1>2
<1>4. ASSUME NEW k \in S PROVE k + 1 \in S
  <2>1. k \in Nat /\ (k <= m => k <= l /\ where[k] = pos[k])  OBVIOUS
  <2> HIDE DEF S
  <2>2. ASSUME k + 1 <= m PROVE k + 1 <= l /\ where[k + 1] = pos[k + 1]
    <3>1. k <= m /\ k + 1 \in 1 .. m /\ k + 1 \in 0 .. m /\ (k + 1) - 1 = k  BY <1>1, <2>1, <2>2
    <3>2. pos[k + 1] = End(bytes, pos[k]) /\ pos[k + 1] \in 0 .. Len(bytes)
      <4>1. pos[k + 1] = End(bytes, pos[(k + 1) - 1])  BY <1>2, <3>1
      <4>2. QED  BY <1>2, <3>1, <4>1
    <3>3. k # l
      <4>1. CASE k = l
        <5>1. End(bytes, pos[k]) > Len(bytes)  BY <1>2, <2>1, <3>1, <4>1
        <5>2. QED  BY <1>2, <3>2, <5>1
      <4>2. QED  BY <4>1
    <3>4. k + 1 <= l /\ k + 1 \in 1 .. l  BY <1>1, <2>1, <3>1, <3>3
    <3>5. where[k + 1] = End(bytes, where[k])
      <4>1. where[k + 1] = End(bytes, where[(k + 1) - 1])  BY <1>2, <3>4
      <4>2. QED  BY <3>1, <4>1
    <3>6. QED  BY <2>1, <3>1, <3>2, <3>4, <3>5
  <2>3. k + 1 \in Nat  BY <2>1
  <2>4. QED  BY <2>2, <2>3 DEF S
<1>5. S = Nat
  <2> HIDE DEF S
  <2>1. S \subseteq Nat  BY DEF S
  <2>2. QED  BY <1>3, <1>4, <2>1, NatInd
<1>6. \A k \in 0 .. m : k <= l /\ where[k] = pos[k]
  <2>1. ASSUME NEW k \in 0 .. m PROVE k <= l /\ where[k] = pos[k]
    <3>1. k \in Nat /\ k <= m  BY <1>1
    <3>2. k \in S  BY <1>5, <3>1, Zenon
    <3>3. QED  BY <3>1, <3>2
  <2>2. QED  BY <2>1
<1> HIDE DEF S
<1>7. m = l
  <2>1. m \in 0 .. m  BY <1>1
  <2>2. m <= l /\ where[m] = pos[m]  BY <1>6, <2>1
  <2>3. CASE m < l
    <3>1. m + 1 \in 1 .. l /\ (m + 1) - 1 = m  BY <1>1, <2>3
    <3>2. where[m + 1] = End(bytes, where[m])
      <4>1. where[m + 1] = End(bytes, where[(m + 1) - 1])  BY <1>2, <3>1
      <4>2. QED  BY <3>1, <4>1
    <3>3. where[m + 1] \in 0 .. Len(bytes)
      BY <1>1, <3>1 DEF Lie, l
    <3>4. QED  BY <1>2, <2>2, <3>2, <3>3
  <2>4. QED  BY <1>1, <2>2, <2>3
<1>8. ASSUME NEW j \in 1 .. m PROVE a[j] = b[j]
  <2>1. j - 1 \in 0 .. m  BY <1>1
  <2>2. QED  BY <1>2, <1>6, <1>7, <2>1
<1>9. QED
  <2>1. Len(a) = Len(b) /\ \A j \in 1 .. Len(a) : a[j] = b[j]
    BY <1>7, <1>8 DEF m, l
  <2>2. QED  BY <1>1, <2>1, SeqEqual

-----------------------------------------------------------------------------
(* What an entry is packed as, read by position.                           *)
LEMMA PackedEntryIs ==
    ASSUME NEW n, n \in [month : Int, name : Seq(Nat)]
    PROVE  /\ PackedEntry(n) \in Seq(Nat)
           /\ Len(PackedEntry(n)) = 2 + Len(n.name)
           /\ PackedEntry(n)[1] = IF n.month \in Month THEN n.month ELSE 0
           /\ PackedEntry(n)[2] = Len(n.name)
           /\ \A j \in 1 .. Len(n.name) : PackedEntry(n)[2 + j] = n.name[j]
<1> DEFINE month == IF n.month \in Month THEN n.month ELSE 0
           size == Len(n.name)
           head == <<month, size>>
<1>1. n.name \in Seq(Nat) /\ size \in Nat  BY LenProperties
<1>2. month \in Nat  BY VocabularyAssumption DEF Month
<1> HIDE DEF month, size
<1>3. head \in Seq(Nat) /\ Len(head) = 2 /\ head[1] = month /\ head[2] = size
  BY <1>1, <1>2
<1> HIDE DEF head
<1>4. PackedEntry(n) = head \o n.name  BY DEF PackedEntry, head, month, size
<1>5. /\ PackedEntry(n) \in Seq(Nat)
      /\ Len(PackedEntry(n)) = 2 + size
      /\ \A j \in 1 .. 2 + size :
            PackedEntry(n)[j] = IF j <= 2 THEN head[j] ELSE n.name[j - 2]
  <2>1. /\ head \o n.name \in Seq(Nat)
        /\ Len(head \o n.name) = Len(head) + Len(n.name)
        /\ \A j \in 1 .. Len(head) + Len(n.name) :
              (head \o n.name)[j] = IF j <= Len(head) THEN head[j] ELSE n.name[j - Len(head)]
    BY <1>1, <1>3, ConcatProperties
  <2>2. QED  BY <1>3, <1>4, <2>1, Zenon DEF size
<1>6. 1 \in 1 .. 2 + size /\ 2 \in 1 .. 2 + size /\ 1 <= 2 /\ 2 <= 2  BY <1>1
<1>7. PackedEntry(n)[1] = month /\ PackedEntry(n)[2] = size
  BY <1>3, <1>5, <1>6
<1>8. ASSUME NEW j \in 1 .. size PROVE PackedEntry(n)[2 + j] = n.name[j]
  <2>1. 2 + j \in 1 .. 2 + size /\ ~(2 + j <= 2) /\ (2 + j) - 2 = j  BY <1>1
  <2> DEFINE where == 2 + j
  <2> HIDE DEF where
  <2>2. PackedEntry(n)[where] = n.name[where - 2]  BY <1>5, <2>1 DEF where
  <2>3. QED  BY <2>1, <2>2 DEF where
<1>9. QED  BY <1>5, <1>7, <1>8 DEF month, size

(* The pieces entries are packed as.                                       *)
PiecesOf(entries) == [i \in DOMAIN entries |-> PackedEntry(entries[i])]

LEMMA PiecesAre ==
    ASSUME NEW entries \in Seq([month : Int, name : Seq(Nat)])
    PROVE  /\ PiecesOf(entries) \in Seq(Seq(Nat))
           /\ Len(PiecesOf(entries)) = Len(entries)
           /\ \A i \in 1 .. Len(entries) :
                 PiecesOf(entries)[i] = PackedEntry(entries[i])
<1> DEFINE n == Len(entries)
           pieces == PiecesOf(entries)
<1>1. n \in Nat /\ DOMAIN entries = 1 .. n  BY LenProperties
<1>2. \A i \in 1 .. n : entries[i] \in [month : Int, name : Seq(Nat)]  BY ElementOfSeq
<1>3. \A i \in 1 .. n : PackedEntry(entries[i]) \in Seq(Nat)
  <2>1. ASSUME NEW i \in 1 .. n PROVE PackedEntry(entries[i]) \in Seq(Nat)
    <3>1. entries[i] \in [month : Int, name : Seq(Nat)]  BY <1>2
    <3>2. QED  BY <3>1, PackedEntryIs
  <2>2. QED  BY <2>1
<1> HIDE DEF n
<1>4. pieces = [i \in 1 .. n |-> PackedEntry(entries[i])]
  BY <1>1, Zenon DEF PiecesOf
<1>5. pieces \in [1 .. n -> Seq(Nat)] /\ \A i \in 1 .. n : pieces[i] = PackedEntry(entries[i])
  BY <1>3, <1>4
<1> HIDE DEF pieces
<1>6. pieces \in Seq(Seq(Nat)) /\ Len(pieces) = n
  BY <1>1, <1>5
<1>7. QED  BY <1>5, <1>6 DEF n, pieces

(* What NewMonthNames packs d as: undefined months are 0.                  *)
AsPacked(d) ==
    [i \in DOMAIN d |-> [month |-> IF d[i].month \in Month THEN d[i].month ELSE 0,
                         name |-> d[i].name]]

(* Entries of any months and names, packed, are read back as they were but *)
(* for the undefined months.                                               *)
THEOREM DeclaredReadsBack ==
    ASSUME NEW d \in Seq([month : Int, name : Seq(Nat)])
    PROVE  Pack(d) \in Seq(Nat) /\ EntriesOf(Pack(d)) = AsPacked(d)
<1> DEFINE n == Len(d)
           pieces == PiecesOf(d)
           P == Pack(d)
           total == Len(P)
           size == [i \in 1 .. n |-> Len(d[i].name)]
<1>1. n \in Nat /\ DOMAIN d = 1 .. n
      /\ \A i \in 1 .. n : d[i] \in [month : Int, name : Seq(Nat)]
  BY LenProperties, ElementOfSeq
<1>2. pieces \in Seq(Seq(Nat)) /\ Len(pieces) = n /\ \A i \in 1 .. n : pieces[i] = PackedEntry(d[i])
  BY PiecesAre
<1>3. P = FlattenSeq(pieces)  BY DEF Pack, PiecesOf
<1>4. \A i \in 1 .. n : size[i] = Len(d[i].name) /\ size[i] \in Nat /\ d[i].name \in Seq(Nat)
  <2>1. \A i \in 1 .. n : d[i].name \in Seq(Nat)  BY <1>1
  <2>2. \A i \in 1 .. n : Len(d[i].name) \in Nat  BY <2>1, LenProperties
  <2>3. QED  BY <2>1, <2>2
<1> HIDE DEF pieces, P, total, n, size
<1>5. /\ P \in Seq(Nat)
      /\ \E len \in [0 .. n -> 0 .. total] :
            /\ len[0] = 0 /\ len[n] = total
            /\ \A i \in 1 .. n :
                  /\ len[i] = len[i - 1] + Len(pieces[i])
                  /\ \A j \in 1 .. Len(pieces[i]) : P[len[i - 1] + j] = pieces[i][j]
  <2>1. /\ FlattenSeq(pieces) \in Seq(Nat)
        /\ \E len \in [0 .. Len(pieces) -> 0 .. Len(FlattenSeq(pieces))] :
              /\ len[0] = 0 /\ len[Len(pieces)] = Len(FlattenSeq(pieces))
              /\ \A i \in 1 .. Len(pieces) :
                    /\ len[i] = len[i - 1] + Len(pieces[i])
                    /\ \A j \in 1 .. Len(pieces[i]) :
                          FlattenSeq(pieces)[len[i - 1] + j] = pieces[i][j]
    BY <1>2, FlattenLays
  <2>2. QED  BY <1>2, <1>3, <2>1 DEF total
<1>6. PICK len \in [0 .. n -> 0 .. total] :
         /\ len[0] = 0 /\ len[n] = total
         /\ \A i \in 1 .. n :
               /\ len[i] = len[i - 1] + Len(pieces[i])
               /\ \A j \in 1 .. Len(pieces[i]) : P[len[i - 1] + j] = pieces[i][j]
  BY <1>5
<1>7. P \in Seq(Nat) /\ total = Len(P) /\ total \in Nat
  BY <1>5, LenProperties DEF total
<1>8. ASSUME NEW i \in 1 .. n
      PROVE  /\ len[i] = End(P, len[i - 1])
             /\ EntryAt(P, len[i - 1]) = [month |-> IF d[i].month \in Month THEN d[i].month ELSE 0,
                                          name |-> d[i].name]
  <2> DEFINE l == len[i - 1]
             z == size[i]
             piece == pieces[i]
             month == IF d[i].month \in Month THEN d[i].month ELSE 0
             name == d[i].name
  <2>1. i - 1 \in 0 .. n /\ i \in 0 .. n  BY <1>1
  <2>2. l \in 0 .. total /\ len[i] \in 0 .. total /\ z \in Nat /\ z = Len(name) /\ name \in Seq(Nat)
    BY <1>4, <2>1
  <2>3. /\ Len(piece) = 2 + z /\ piece[1] = month /\ piece[2] = z
        /\ \A j \in 1 .. z : piece[2 + j] = name[j]
    <3>1. d[i] \in [month : Int, name : Seq(Nat)] /\ piece = PackedEntry(d[i])  BY <1>1, <1>2
    <3>2. QED  BY <3>1, <2>2, PackedEntryIs, ZenonT(40)
  <2>4. /\ len[i] = l + Len(piece)
        /\ \A j \in 1 .. Len(piece) : P[l + j] = piece[j]
    BY <1>6
  <2> DEFINE after == len[i]
  <2> HIDE DEF l, z, piece, month, name, after
  <2>5. after = l + 2 + z /\ l + 2 <= total /\ after <= total
    BY <1>7, <2>2, <2>3, <2>4 DEF after
  <2>6. \A j \in 1 .. 2 + z : P[l + j] = piece[j]
    BY <2>3, <2>4
  <2>7. P[l + 1] = month /\ P[l + 2] = z
    <3>1. 1 \in 1 .. 2 + z /\ 2 \in 1 .. 2 + z  BY <2>2
    <3>2. QED  BY <2>3, <2>6, <3>1
  <2>8. \A j \in 1 .. z : P[l + 2 + j] = name[j]
    <3>1. ASSUME NEW j \in 1 .. z PROVE P[l + 2 + j] = name[j]
      <4>1. 2 + j \in 1 .. 2 + z /\ l + 2 + j = l + (2 + j)  BY <2>2
      <4>2. P[l + (2 + j)] = piece[2 + j]  BY <2>6, <4>1
      <4>3. QED  BY <2>3, <4>1, <4>2
    <3>2. QED  BY <3>1
  <2>9. End(P, l) = after
    <3>1. ~(l + 2 > Len(P))  BY <1>7, <2>2, <2>5
    <3>2. End(P, l) = l + 2 + P[l + 2]  BY <3>1 DEF End, Header
    <3>3. QED  BY <2>5, <2>7, <3>2
  <2> DEFINE entry == EntryAt(P, l)
  <2>10. /\ entry \in Read /\ Len(entry.name) = z
         /\ \A j \in 1 .. z : entry.name[j] = P[l + 2 + j]
    <3>1. l \in 0 .. Len(P) /\ End(P, l) <= Len(P)  BY <1>7, <2>2, <2>5, <2>9
    <3>2. /\ EntryAt(P, l) \in Read
          /\ Len(EntryAt(P, l).name) = P[l + 2]
          /\ \A j \in 1 .. P[l + 2] : EntryAt(P, l).name[j] = P[l + 2 + j]
      BY <1>7, <3>1, EntryAtIsRead
    <3>3. QED  BY <2>7, <3>2
  <2>11. entry.month = month  BY <2>7 DEF EntryAt
  <2> HIDE DEF entry
  <2>12. entry.name = name
    <3>1. entry.name \in Seq(Nat)  BY <2>10 DEF Read
    <3>2. Len(entry.name) = Len(name)  BY <2>2, <2>10
    <3>3. \A j \in 1 .. Len(entry.name) : entry.name[j] = name[j]  BY <2>8, <2>10
    <3>4. QED  BY <2>2, <3>1, <3>2, <3>3, SeqEqual
  <2>13. entry = [month |-> month, name |-> name]
    BY <2>10, <2>11, <2>12 DEF Read
  <2>14. QED  BY <2>9, <2>13 DEF entry, after, l, month, name
<1> DEFINE b == AsPacked(d)
<1>9. b \in Seq(Read) /\ Len(b) = n
      /\ \A i \in 1 .. n : b[i] = [month |-> IF d[i].month \in Month THEN d[i].month ELSE 0,
                                   name |-> d[i].name]
  <2> DEFINE as(i) == [month |-> IF d[i].month \in Month THEN d[i].month ELSE 0,
                       name |-> d[i].name]
  <2>1. \A i \in 1 .. n : as(i) \in Read
    BY <1>4, VocabularyAssumption DEF Read, Month
  <2>2. b = [i \in 1 .. n |-> as(i)]
    <3> HIDE DEF as
    <3>1. AsPacked(d) = [i \in DOMAIN d |-> as(i)]  BY Zenon DEF AsPacked, as
    <3>2. QED  BY <1>1, <3>1 DEF n
  <2> HIDE DEF as, b
  <2>3. n \in Nat  BY <1>1 DEF n
  <2>4. b \in [1 .. n -> Read] /\ \A i \in 1 .. n : b[i] = as(i)  BY <2>1, <2>2
  <2>5. b \in Seq(Read) /\ Len(b) = n  BY <2>3, <2>4
  <2>6. QED  BY <2>4, <2>5 DEF as
<1> HIDE DEF b
<1>10. End(P, total) > total
  BY <1>7, EndIsLater
<1>11. Lie(P, 0, b, len)
  <2>1. \A i \in 1 .. n : len[i] = End(P, len[i - 1]) /\ b[i] = EntryAt(P, len[i - 1])
    BY <1>8, <1>9
  <2>2. QED  BY <1>6, <1>7, <1>9, <1>10, <2>1 DEF Lie
<1>12. PICK pos : Lie(P, 0, EntriesOf(P), pos)
  BY <1>7, EntriesLie
<1>13. EntriesOf(P) = b
  BY <1>7, <1>11, <1>12, LieOnce
<1>14. QED
  BY <1>7, <1>13 DEF P, b

(* An entry of a defined month, packed, is the bytes it was read from.     *)
LEMMA EntryPacksBack ==
    ASSUME NEW bytes \in Seq(Nat), NEW i \in 0 .. Len(bytes), End(bytes, i) <= Len(bytes),
           EntryAt(bytes, i).month \in Month
    PROVE  PackedEntry(EntryAt(bytes, i)) = SubSeq(bytes, i + 1, End(bytes, i))
<1> DEFINE e == End(bytes, i)
           n == Len(bytes)
           z == bytes[i + 2]
           entry == EntryAt(bytes, i)
           piece == PackedEntry(entry)
           low == i + 1
           part == SubSeq(bytes, low, e)
<1>1. n \in Nat /\ i \in 0 .. n  BY LenProperties
<1>2. e \in Nat /\ z \in Nat /\ e = i + 2 + z /\ e <= n  BY EndIsLater
<1>3. entry \in Read /\ Len(entry.name) = z /\ \A j \in 1 .. z : entry.name[j] = bytes[i + 2 + j]
  BY EntryAtIsRead
<1>4. entry.month = bytes[i + 1] /\ entry.month \in Month  BY DEF EntryAt
<1> HIDE DEF e, n, z, entry
<1>5. /\ piece \in Seq(Nat) /\ Len(piece) = 2 + z
      /\ piece[1] = bytes[i + 1] /\ piece[2] = z
      /\ \A j \in 1 .. z : piece[2 + j] = bytes[i + 2 + j]
  <2>1. entry \in [month : Int, name : Seq(Nat)]  BY <1>3 DEF Read
  <2>2. /\ PackedEntry(entry) \in Seq(Nat)
        /\ Len(PackedEntry(entry)) = 2 + Len(entry.name)
        /\ PackedEntry(entry)[1] = IF entry.month \in Month THEN entry.month ELSE 0
        /\ PackedEntry(entry)[2] = Len(entry.name)
        /\ \A j \in 1 .. Len(entry.name) : PackedEntry(entry)[2 + j] = entry.name[j]
    BY <2>1, PackedEntryIs
  <2>3. QED  BY <1>3, <1>4, <2>2
<1>6. low \in Int /\ e \in Int /\ low <= e /\ e - low + 1 = 2 + z
      /\ \A j \in low .. e : j \in 1 .. n
  BY <1>1, <1>2
<1>7. \A j \in low .. e : bytes[j] \in Nat
  BY <1>6, ElementOfSeq DEF n
<1>8. \A j \in 1 .. 2 + z : low + j - 1 = i + j
  BY <1>1, <1>2
<1> HIDE DEF low, piece
<1>9. /\ part \in Seq(Nat)
      /\ Len(part) = IF low <= e THEN e - low + 1 ELSE 0
      /\ \A j \in 1 .. e - low + 1 : part[j] = bytes[low + j - 1]
  BY <1>6, <1>7, SubSeqProperties
<1> HIDE DEF part
<1>10. Len(part) = 2 + z /\ \A j \in 1 .. 2 + z : part[j] = bytes[i + j]
  BY <1>6, <1>8, <1>9
<1>11. ASSUME NEW j \in 1 .. 2 + z PROVE piece[j] = part[j]
  <2>1. CASE j = 1  BY <1>5, <1>10, <2>1
  <2>2. CASE j = 2
    BY <1>5, <1>10, <2>2 DEF z
  <2>3. CASE j # 1 /\ j # 2
    <3> DEFINE k == j - 2
    <3>1. k \in 1 .. z /\ 2 + k = j /\ i + 2 + k = i + j  BY <1>1, <1>2, <2>3
    <3> HIDE DEF k
    <3>2. piece[2 + k] = bytes[i + 2 + k]  BY <1>5, <3>1
    <3>3. QED  BY <1>10, <3>1, <3>2
  <2>4. QED  BY <2>1, <2>2, <2>3
<1>12. piece = part
  BY <1>5, <1>9, <1>10, <1>11, SeqEqual
<1>13. QED  BY <1>12 DEF piece, part, entry, low, e

(* Entries all of defined months, packed again, are the bytes they lie in; *)
(* so CutShort says whether bytes are left after the last.                 *)
LEMMA PacksBack ==
    ASSUME NEW bytes \in Seq(Nat), NEW E, NEW pos, Lie(bytes, 0, E, pos), E = EntriesOf(bytes),
           \A j \in 1 .. Len(E) : E[j].month \in Month
    PROVE  CutShort(bytes) <=> pos[Len(E)] # Len(bytes)
<1> DEFINE m == Len(E)
           n == Len(bytes)
           pieces == PiecesOf(E)
<1>1. m \in Nat /\ n \in Nat /\ E \in Seq(Read)
  BY LenProperties DEF Lie
<1>2. /\ pos[0] = 0
      /\ \A j \in 0 .. m : pos[j] \in 0 .. n
      /\ \A j \in 1 .. m : pos[j] = End(bytes, pos[j - 1]) /\ E[j] = EntryAt(bytes, pos[j - 1])
  BY DEF Lie
<1>3. pieces \in Seq(Seq(Nat)) /\ Len(pieces) = m /\ \A j \in 1 .. m : pieces[j] = PackedEntry(E[j])
  <2>1. E \in Seq([month : Int, name : Seq(Nat)])
    <3>1. Read \subseteq [month : Int, name : Seq(Nat)]  BY DEF Read
    <3>2. QED  BY <1>1, <3>1, SeqMonotonic
  <2>2. QED  BY <2>1, PiecesAre
<1>4. Pack(E) = FlattenSeq(pieces)  BY DEF Pack, PiecesOf
<1>5. \A j \in 1 .. m : E[j].month \in Month  OBVIOUS
<1> HIDE DEF m, n, pieces
<1>6. PICK f \in [0 .. m -> Seq(Nat)] :
         /\ f[0] = <<>>
         /\ \A j \in 1 .. m : f[j] = f[j - 1] \o pieces[j]
         /\ Pack(E) = f[m]
  <2>1. \E f \in [0 .. Len(pieces) -> Seq(Nat)] :
           /\ f[0] = <<>>
           /\ \A j \in 1 .. Len(pieces) : f[j] = f[j - 1] \o pieces[j]
           /\ FlattenSeq(pieces) = f[Len(pieces)]
    BY <1>3, FlattenUnfolds
  <2>2. QED  BY <1>3, <1>4, <2>1
<1> DEFINE S == { k \in Nat : k <= m => f[k] = SubSeq(bytes, 1, pos[k]) }
<1>7. 0 \in S
  <2>1. SubSeq(bytes, 1, 0) = <<>>  BY SubSeqEmpty
  <2>2. QED  BY <1>2, <1>6, <2>1
<1>8. ASSUME NEW k \in S PROVE k + 1 \in S
  <2>1. k \in Nat /\ (k <= m => f[k] = SubSeq(bytes, 1, pos[k]))  OBVIOUS
  <2> HIDE DEF S
  <2>2. ASSUME k + 1 <= m PROVE f[k + 1] = SubSeq(bytes, 1, pos[k + 1])
    <3> DEFINE p == pos[k]
               q == pos[k + 1]
    <3>1. k <= m /\ k + 1 \in 1 .. m /\ k \in 0 .. m /\ k + 1 \in 0 .. m /\ (k + 1) - 1 = k
      BY <1>1, <2>1, <2>2
    <3>2. p \in 0 .. n /\ q \in 0 .. n  BY <1>2, <3>1
    <3>3. q = End(bytes, p) /\ E[k + 1] = EntryAt(bytes, p)
      <4>1. q = End(bytes, pos[(k + 1) - 1]) /\ E[k + 1] = EntryAt(bytes, pos[(k + 1) - 1])
        BY <1>2, <3>1
      <4>2. QED  BY <3>1, <4>1
    <3>4. f[k + 1] = f[k] \o pieces[k + 1]
      <4>1. f[k + 1] = f[(k + 1) - 1] \o pieces[k + 1]  BY <1>6, <3>1
      <4>2. QED  BY <3>1, <4>1
    <3>5. E[k + 1].month \in Month /\ pieces[k + 1] = PackedEntry(E[k + 1])  BY <1>3, <1>5, <3>1
    <3> HIDE DEF p, q
    <3>6. p \in 0 .. Len(bytes) /\ End(bytes, p) <= Len(bytes) /\ EntryAt(bytes, p).month \in Month
      BY <3>2, <3>3, <3>5, <1>1 DEF n
    <3>7. PackedEntry(EntryAt(bytes, p)) = SubSeq(bytes, p + 1, End(bytes, p))
      BY <3>6, EntryPacksBack
    <3>8. f[k] = SubSeq(bytes, 1, p)  BY <2>1, <3>1 DEF p
    <3>9. SubSeq(bytes, 1, p) \o SubSeq(bytes, p + 1, q) = SubSeq(bytes, 1, q)
      <4>1. End(bytes, p) > p  BY <3>6, EndIsLater
      <4>2. 1 \in 1 .. Len(bytes) + 1 /\ p \in 1 - 1 .. Len(bytes) /\ q \in p .. Len(bytes)
        BY <1>1, <3>2, <3>3, <4>1 DEF n
      <4>3. QED  BY <4>2, ConcatAdjacentSubSeq
    <3>10. QED  BY <3>3, <3>4, <3>5, <3>7, <3>8, <3>9 DEF q
  <2>3. k + 1 \in Nat  BY <2>1
  <2>4. QED  BY <2>2, <2>3 DEF S
<1>9. S = Nat
  <2> HIDE DEF S
  <2>1. S \subseteq Nat  BY DEF S
  <2>2. QED  BY <1>7, <1>8, <2>1, NatInd
<1>10. Pack(E) = SubSeq(bytes, 1, pos[m]) /\ pos[m] \in 0 .. n
  <2>1. m <= m /\ m \in 0 .. m  BY <1>1
  <2>2. m \in S  BY <1>1, <1>9, Zenon
  <2>3. QED  BY <1>2, <1>6, <2>1, <2>2
<1>11. CASE pos[m] = n
  <2>1. SubSeq(bytes, 1, n) = bytes  BY SubSeqFull DEF n
  <2>2. QED  BY <1>10, <1>11, <2>1 DEF CutShort, m, n
<1>12. CASE pos[m] # n
  <2> DEFINE p == pos[m]
             part == SubSeq(bytes, 1, p)
  <2>1. p \in 0 .. n /\ p # n  BY <1>10, <1>12
  <2>2. \A j \in 1 .. p : bytes[j] \in Nat
    <3>1. \A j \in 1 .. p : j \in 1 .. Len(bytes)  BY <1>1, <2>1 DEF n
    <3>2. QED  BY <3>1, ElementOfSeq
  <2> HIDE DEF p
  <2>3. Len(part) = IF 1 <= p THEN p - 1 + 1 ELSE 0
    <3>1. 1 \in Int /\ p \in Int  BY <1>1, <2>1
    <3>2. QED  BY <2>2, <3>1, SubSeqProperties
  <2> HIDE DEF part
  <2>4. Len(part) # Len(bytes)  BY <1>1, <2>1, <2>3 DEF n
  <2>5. Pack(E) # bytes  BY <1>10, <2>4 DEF part, p
  <2>6. QED  BY <1>12, <2>5 DEF CutShort, m, n
<1>13. QED  BY <1>11, <1>12

-----------------------------------------------------------------------------
(* What the binding calls broken of the ith entry read, rule by rule.      *)
GoBreaks(E, i, rule) ==
    \/ rule = "month" /\ E[i].month \notin Month
    \/ rule = "utf8" /\ Range(E[i].name) \cap NotUTF8 # {}
    \/ rule = "length" /\ Len(E[i].name) \notin 1 .. MaxMonthNameBytes
    \/ rule = "characters" /\ Range(E[i].name) \cap Refused # {}
    \/ rule = "duplicate" /\ \E j \in 1 .. i - 1 : Folded(E[j].name, GoFold) = Folded(E[i].name, GoFold)

Clean(E, i) == \A k \in 1 .. 5 : ~GoBreaks(E, i, CoreRules[k])

FirstBroken(E, i, k) ==
    GoBreaks(E, i, CoreRules[k]) /\ \A l \in 1 .. k - 1 : ~GoBreaks(E, i, CoreRules[l])

(* Two names mean one for the core and two for Go.                         *)
FoldsInCore(E) ==
    \E i, j \in DOMAIN E :
        /\ Folded(E[i].name, CoreFold) = Folded(E[j].name, CoreFold)
        /\ Folded(E[i].name, GoFold) # Folded(E[j].name, GoFold)

(* An entry of bytes.                                                      *)
Spelt == [month : Nat, name : Seq(Byte)]

LEMMA RulesAre ==
    /\ DOMAIN CoreRules = 1 .. 5
    /\ CoreRules[1] = "month" /\ CoreRules[2] = "utf8" /\ CoreRules[3] = "length"
    /\ CoreRules[4] = "characters" /\ CoreRules[5] = "duplicate"
  BY DEF CoreRules

LEMMA FoldsAlike ==
    ASSUME NEW a \in Seq(Byte), NEW b \in Seq(Byte), Folded(a, GoFold) = Folded(b, GoFold)
    PROVE  Folded(a, CoreFold) = Folded(b, CoreFold)
<1>1. DOMAIN a = 1 .. Len(a) /\ DOMAIN b = 1 .. Len(b)  BY LenProperties
<1>2. DOMAIN Folded(a, GoFold) = DOMAIN a /\ DOMAIN Folded(b, GoFold) = DOMAIN b  BY DEF Folded
<1>3. DOMAIN a = DOMAIN b  BY <1>2
<1>4. ASSUME NEW i \in DOMAIN a PROVE CoreFold[a[i]] = CoreFold[b[i]]
  <2>1. Folded(a, GoFold)[i] = GoFold[a[i]]  BY DEF Folded
  <2>2. Folded(b, GoFold)[i] = GoFold[b[i]]  BY <1>3 DEF Folded
  <2>3. a[i] \in Byte /\ b[i] \in Byte  BY <1>1, <1>3, ElementOfSeq
  <2>4. QED  BY <2>1, <2>2, <2>3, SameUnicode
<1>5. QED  BY <1>3, <1>4, Zenon DEF Folded

(* The core breaks an entry as Go does, but for names that only it folds   *)
(* together.                                                               *)
LEMMA CoreBreaksAsGo ==
    ASSUME NEW E \in Seq(Spelt), NEW i \in 1 .. Len(E)
    PROVE  /\ \A k \in 1 .. 4 : CoreBreaks(E, i, CoreRules[k]) <=> GoBreaks(E, i, CoreRules[k])
           /\ GoBreaks(E, i, CoreRules[5]) => CoreBreaks(E, i, CoreRules[5])
           /\ CoreBreaks(E, i, CoreRules[5]) /\ ~GoBreaks(E, i, CoreRules[5]) => FoldsInCore(E)
<1>1. \A k \in 1 .. 4 : CoreBreaks(E, i, CoreRules[k]) <=> GoBreaks(E, i, CoreRules[k])
  <2>1. \A k \in 1 .. 4 : k = 1 \/ k = 2 \/ k = 3 \/ k = 4  OBVIOUS
  <2>2. \A rule \in {"month", "utf8", "length", "characters"} :
           CoreBreaks(E, i, rule) <=> GoBreaks(E, i, rule)
    BY DEF CoreBreaks, GoBreaks
  <2>3. QED  BY <2>1, <2>2, RulesAre
<1> DEFINE earlier == SubSeq(E, 1, i - 1)
<1>2. Len(E) \in Nat /\ i - 1 \in 0 .. Len(E) /\ DOMAIN E = 1 .. Len(E)  BY LenProperties
<1>3. DOMAIN earlier = 1 .. i - 1 /\ \A j \in 1 .. i - 1 : earlier[j] = E[j]
  <2>1. \A j \in 1 .. i - 1 : j \in 1 .. Len(E)  BY <1>2
  <2>2. \A j \in 1 .. i - 1 : E[j] \in Spelt  BY <2>1, ElementOfSeq
  <2>3. 1 \in Int /\ i - 1 \in Int  BY <1>2
  <2>4. /\ SubSeq(E, 1, i - 1) \in Seq(Spelt)
        /\ Len(SubSeq(E, 1, i - 1)) = IF 1 <= i - 1 THEN (i - 1) - 1 + 1 ELSE 0
        /\ \A j \in 1 .. (i - 1) - 1 + 1 : SubSeq(E, 1, i - 1)[j] = E[1 + j - 1]
    BY <2>2, <2>3, SubSeqProperties
  <2>5. (i - 1) - 1 + 1 = i - 1 /\ (~(1 <= i - 1) => i - 1 = 0)  BY <1>2
  <2>6. \A j \in 1 .. i - 1 : 1 + j - 1 = j  OBVIOUS
  <2> HIDE DEF earlier
  <2>7. Len(earlier) = i - 1  BY <2>4, <2>5 DEF earlier
  <2>8. DOMAIN earlier = 1 .. i - 1
    <3>1. earlier \in Seq(Spelt)  BY <2>4 DEF earlier
    <3>2. DOMAIN earlier = 1 .. Len(earlier)  BY <3>1, LenProperties
    <3>3. QED  BY <2>7, <3>2
  <2>9. QED  BY <2>4, <2>5, <2>6, <2>8 DEF earlier
<1> HIDE DEF earlier
<1>4. \A j \in 1 .. Len(E) : E[j].name \in Seq(Byte)
  <2>1. \A j \in 1 .. Len(E) : E[j] \in Spelt  BY ElementOfSeq
  <2>2. QED  BY <2>1 DEF Spelt
<1>5. CoreBreaks(E, i, "duplicate") <=> CoreDuplicate(earlier, E[i])
  BY DEF CoreBreaks, earlier
<1>6. GoBreaks(E, i, "duplicate") <=>
         \E j \in 1 .. i - 1 : Folded(E[j].name, GoFold) = Folded(E[i].name, GoFold)
  BY DEF GoBreaks
<1>7. ASSUME GoBreaks(E, i, "duplicate") PROVE CoreBreaks(E, i, "duplicate")
  <2>1. PICK j \in 1 .. i - 1 : Folded(E[j].name, GoFold) = Folded(E[i].name, GoFold)
    BY <1>6, <1>7
  <2>2. j \in 1 .. Len(E)  BY <1>2
  <2>3. Folded(E[j].name, CoreFold) = Folded(E[i].name, CoreFold)
    BY <1>4, <2>1, <2>2, FoldsAlike
  <2>4. Key(E[j]) = Key(E[i])
    BY <2>3, Zenon DEF Key
  <2>5. CoreDuplicate(earlier, E[i])
    BY <1>3, <2>3, <2>4 DEF CoreDuplicate
  <2>6. QED  BY <1>5, <2>5
<1>8. ASSUME CoreBreaks(E, i, "duplicate"), ~GoBreaks(E, i, "duplicate") PROVE FoldsInCore(E)
  <2>1. PICK j \in 1 .. i - 1 : Folded(E[j].name, CoreFold) = Folded(E[i].name, CoreFold)
    <3>1. PICK j \in DOMAIN earlier : Folded(earlier[j].name, CoreFold) = Folded(E[i].name, CoreFold)
      BY <1>5, <1>8 DEF CoreDuplicate
    <3>2. QED  BY <1>3, <3>1
  <2>2. Folded(E[j].name, GoFold) # Folded(E[i].name, GoFold)  BY <1>6, <1>8
  <2>3. j \in DOMAIN E /\ i \in DOMAIN E  BY <1>2
  <2>4. QED  BY <2>1, <2>2, <2>3 DEF FoldsInCore
<1>9. QED  BY <1>1, <1>7, <1>8, RulesAre

-----------------------------------------------------------------------------
(* The core's judgement, opened: the entries it finds at fault, and the    *)
(* first rule the first of them breaks.                                    *)
Faulty(E) == { i \in DOMAIN E : \E k \in DOMAIN CoreRules : CoreBreaks(E, i, CoreRules[k]) }

LEMMA CoreFirst ==
    ASSUME NEW bytes, NEW E \in Seq(Spelt), E = EntriesOf(bytes),
           NEW i \in 1 .. Len(E), \A j \in 1 .. i - 1 : j \notin Faulty(E),
           NEW k \in 1 .. 5, CoreBreaks(E, i, CoreRules[k]),
           \A l \in 1 .. k - 1 : ~CoreBreaks(E, i, CoreRules[l])
    PROVE  CoreJudges(bytes) = CoreRules[k] /\ i \in Faulty(E)
<1> DEFINE F == Faulty(E)
           B(m) == { l \in DOMAIN CoreRules : CoreBreaks(E, m, CoreRules[l]) }
<1>1. DOMAIN E = 1 .. Len(E) /\ Len(E) \in Nat  BY LenProperties
<1>2. i \in F /\ F \subseteq 1 .. Len(E)  BY <1>1, RulesAre DEF Faulty
<1>3. \A j \in F : i <= j  BY <1>1, <1>2
<1>4. k \in B(i) /\ B(i) \subseteq 1 .. 5 /\ \A l \in B(i) : k <= l  BY RulesAre
<1>5. CoreJudges(bytes) = IF F # {} THEN CoreRules[Min(B(Min(F)))]
                          ELSE IF CutShort(bytes) THEN "cutShort"
                          ELSE IF ~(Month \subseteq { E[j].month : j \in DOMAIN E }) THEN "unnamed"
                          ELSE "accepted"
  BY Zenon DEF CoreJudges, Faulty
<1> HIDE DEF F, B
<1>6. Min(F) = i
  <2>1. F \subseteq Nat /\ F # {}  BY <1>2
  <2>2. Min(F) \in F /\ \A j \in F : Min(F) <= j  BY <2>1, MinIsLeast
  <2>3. Min(F) <= i /\ i <= Min(F)  BY <1>2, <1>3, <2>2
  <2>4. Min(F) \in Nat  BY <2>1, <2>2
  <2>5. QED  BY <2>3, <2>4
<1>7. Min(B(i)) = k
  <2> DEFINE b == B(i)
  <2> HIDE DEF b
  <2>1. b \subseteq Nat /\ b # {}  BY <1>4 DEF b
  <2>2. Min(b) \in b /\ \A j \in b : Min(b) <= j  BY <2>1, MinIsLeast
  <2>3. Min(b) <= k /\ k <= Min(b)  BY <1>4, <2>2 DEF b
  <2>4. Min(b) \in Nat  BY <2>1, <2>2
  <2>5. QED  BY <2>3, <2>4 DEF b
<1>8. QED  BY <1>2, <1>5, <1>6, <1>7 DEF F

(* A clean entry the core finds at fault is one it folds to an earlier.    *)
LEMMA CleanButFolded ==
    ASSUME NEW bytes, NEW E \in Seq(Spelt), E = EntriesOf(bytes), NEW n \in 0 .. Len(E),
           \A i \in 1 .. n : Clean(E, i), NEW m \in 1 .. n, m \in Faulty(E)
    PROVE  FoldsInCore(E) /\ CoreJudges(bytes) = "duplicate"
<1> DEFINE S == { i \in 1 .. n : i \in Faulty(E) }
<1>1. Len(E) \in Nat /\ S \subseteq Nat /\ S # {}  BY LenProperties
<1>2. PICK i \in S : \A j \in S : i <= j  BY <1>1, NatMin
<1>3. i \in 1 .. Len(E) /\ i \in 1 .. n /\ i \in Faulty(E)  BY <1>1
<1>4. \A j \in 1 .. i - 1 : j \notin Faulty(E)
  <2>1. ASSUME NEW j \in 1 .. i - 1, j \in Faulty(E) PROVE FALSE
    <3>1. j \in S /\ ~(i <= j)  BY <1>3, <2>1
    <3>2. QED  BY <1>2, <3>1
  <2>2. QED  BY <2>1
<1>5. \A k \in 1 .. 4 : ~CoreBreaks(E, i, CoreRules[k])
  <2>1. \A k \in 1 .. 4 : ~GoBreaks(E, i, CoreRules[k])  BY <1>3 DEF Clean
  <2>2. QED  BY <1>3, <2>1, CoreBreaksAsGo
<1>6. CoreBreaks(E, i, CoreRules[5]) /\ ~GoBreaks(E, i, CoreRules[5])
  <2>1. PICK k \in 1 .. 5 : CoreBreaks(E, i, CoreRules[k])
    BY <1>3, RulesAre DEF Faulty
  <2>2. k = 5  BY <1>5, <2>1
  <2>3. 5 \in 1 .. 5  OBVIOUS
  <2>4. QED  BY <1>3, <2>1, <2>2, <2>3 DEF Clean
<1>7. FoldsInCore(E)  BY <1>3, <1>6, CoreBreaksAsGo
<1>8. CoreJudges(bytes) = CoreRules[5]
  <2>1. \A l \in 1 .. 5 - 1 : ~CoreBreaks(E, i, CoreRules[l])  BY <1>5
  <2>2. 5 \in 1 .. 5  OBVIOUS
  <2>3. QED  BY <1>3, <1>4, <1>6, <2>1, <2>2, CoreFirst
<1>9. QED  BY <1>7, <1>8, RulesAre

(* Where Go names a rule of an entry, the core names the same, unless it   *)
(* folds an earlier entry to another.                                      *)
LEMMA EntryJudgedAlike ==
    ASSUME NEW bytes, NEW E \in Seq(Spelt), E = EntriesOf(bytes),
           NEW i \in 1 .. Len(E), \A j \in 1 .. i - 1 : Clean(E, j),
           NEW k \in 1 .. 5, FirstBroken(E, i, k)
    PROVE  \/ CoreJudges(bytes) = CoreRules[k]
           \/ FoldsInCore(E) /\ CoreJudges(bytes) = "duplicate"
<1>1. CASE \E m \in 1 .. i - 1 : m \in Faulty(E)
  <2>1. PICK m \in 1 .. i - 1 : m \in Faulty(E)  BY <1>1
  <2>2. i - 1 \in 0 .. Len(E)  BY LenProperties
  <2>3. QED  BY <2>1, <2>2, CleanButFolded
<1>2. CASE \A m \in 1 .. i - 1 : m \notin Faulty(E)
  <2>1. CoreBreaks(E, i, CoreRules[k])
    <3>1. GoBreaks(E, i, CoreRules[k]) /\ (k \in 1 .. 4 \/ k = 5)  BY DEF FirstBroken
    <3>2. QED  BY <3>1, CoreBreaksAsGo
  <2>2. ASSUME NEW l \in 1 .. k - 1 PROVE ~CoreBreaks(E, i, CoreRules[l])
    <3>1. l \in 1 .. 4 /\ ~GoBreaks(E, i, CoreRules[l])  BY DEF FirstBroken
    <3>2. QED  BY <3>1, CoreBreaksAsGo
  <2>3. CoreJudges(bytes) = CoreRules[k]  BY <1>2, <2>1, <2>2, CoreFirst
  <2>4. QED  BY <2>3
<1>3. QED  BY <1>1, <1>2

(* Where Go finds every entry clean, the core judges what is left of the   *)
(* bytes and the months, unless it folds an entry to another.              *)
LEMMA CleanJudgedAlike ==
    ASSUME NEW bytes, NEW E \in Seq(Spelt), E = EntriesOf(bytes),
           \A i \in 1 .. Len(E) : Clean(E, i)
    PROVE  \/ CoreJudges(bytes) =
                 IF CutShort(bytes) THEN "cutShort"
                 ELSE IF ~(Month \subseteq { E[j].month : j \in DOMAIN E }) THEN "unnamed"
                 ELSE "accepted"
           \/ FoldsInCore(E) /\ CoreJudges(bytes) = "duplicate"
<1>1. DOMAIN E = 1 .. Len(E) /\ Len(E) \in Nat /\ Len(E) \in 0 .. Len(E)  BY LenProperties
<1>2. CASE Faulty(E) = {}
  BY <1>2, Zenon DEF CoreJudges, Faulty
<1>3. CASE Faulty(E) # {}
  <2>1. PICK m \in 1 .. Len(E) : m \in Faulty(E)  BY <1>1, <1>3 DEF Faulty
  <2>2. QED  BY <1>1, <2>1, CleanButFolded
<1>4. QED  BY <1>2, <1>3

-----------------------------------------------------------------------------
(* What the callers give holds entries of the bytes vocabularies are       *)
(* written in.                                                             *)
WellSpelt(bytes) == bytes \in Seq(Nat) /\ EntriesOf(bytes) \in Seq(Spelt)

LEMMA PackingsAreSpelt ==
    ASSUME NEW bytes \in Packings
    PROVE  WellSpelt(bytes)
<1> DEFINE E == EntriesOf(bytes)
           m == Len(E)
<1>1. bytes \in Seq(Byte)  BY CallerAssumption
<1>2. bytes \in Seq(Nat)
  BY <1>1, SeqMonotonic, VocabularyAssumption
<1>3. PICK pos : Lie(bytes, 0, E, pos)  BY <1>2, EntriesLie
<1> HIDE DEF E
<1>4. E \in Seq(Read) /\ m \in Nat  BY <1>3, LenProperties DEF Lie
<1>5. /\ \A j \in 0 .. m : pos[j] \in 0 .. Len(bytes)
      /\ \A j \in 1 .. m : pos[j] = End(bytes, pos[j - 1]) /\ E[j] = EntryAt(bytes, pos[j - 1])
  BY <1>3 DEF Lie
<1> HIDE DEF m
<1>6. ASSUME NEW j \in 1 .. m PROVE E[j] \in Spelt
  <2> DEFINE i == pos[j - 1]
             name == E[j].name
             z == bytes[i + 2]
  <2>1. j - 1 \in 0 .. m /\ j \in 0 .. m  BY <1>4
  <2>2. i \in 0 .. Len(bytes) /\ End(bytes, i) <= Len(bytes) /\ E[j] = EntryAt(bytes, i)
    <3>1. pos[j] \in 0 .. Len(bytes) /\ Len(bytes) \in Nat  BY <1>2, <1>5, <2>1, LenProperties
    <3>2. QED  BY <1>5, <2>1, <3>1
  <2>3. E[j] \in Read /\ Len(name) = z /\ \A x \in 1 .. z : name[x] = bytes[i + 2 + x]
    <3>1. /\ EntryAt(bytes, i) \in Read
          /\ Len(EntryAt(bytes, i).name) = bytes[i + 2]
          /\ \A x \in 1 .. bytes[i + 2] : EntryAt(bytes, i).name[x] = bytes[i + 2 + x]
      BY <1>2, <2>2, EntryAtIsRead
    <3>2. QED  BY <2>2, <3>1
  <2>4. z \in Nat /\ End(bytes, i) = i + 2 + z  BY <1>2, <2>2, EndIsLater
  <2>5. Len(bytes) \in Nat  BY <1>2, LenProperties
  <2> HIDE DEF i, name, z
  <2>6. ASSUME NEW x \in 1 .. z PROVE name[x] \in Byte
    <3>1. i + 2 + x \in 1 .. Len(bytes)  BY <2>2, <2>4, <2>5
    <3>2. bytes[i + 2 + x] \in Byte
      <4> DEFINE y == i + 2 + x
      <4> HIDE DEF y
      <4>1. y \in 1 .. Len(bytes)  BY <3>1 DEF y
      <4>2. bytes[y] \in Byte  BY <1>1, <4>1, ElementOfSeq
      <4>3. QED  BY <4>2 DEF y
    <3>3. QED  BY <2>3, <3>2
  <2>7. name \in Seq(Byte)
    <3>1. name \in Seq(Nat)  BY <2>3 DEF Read, name
    <3>2. name \in [1 .. z -> Nat]  BY <2>3, <3>1, LenProperties
    <3>3. name \in [1 .. z -> Byte]  BY <2>6, <3>2
    <3>4. QED  BY <2>4, <3>3
  <2>8. QED  BY <2>3, <2>7 DEF Read, Spelt, name
<1>7. E \in Seq(Spelt)
  <2>1. E \in [1 .. m -> Read]  BY <1>4, LenProperties DEF m
  <2>2. E \in [1 .. m -> Spelt]  BY <1>6, <2>1
  <2>3. QED  BY <1>4, <2>2
<1>8. QED  BY <1>2, <1>7 DEF WellSpelt, E

(* What is declared reads back as declared, undefined months apart.        *)
LEMMA DeclaredAreSpelt ==
    ASSUME NEW d \in Declarations
    PROVE  /\ WellSpelt(Pack(d)) /\ EntriesOf(Pack(d)) = AsPacked(d)
           /\ Len(AsPacked(d)) = Len(d) /\ DOMAIN d = 1 .. Len(d) /\ Len(d) \in Nat
           /\ \A i \in 1 .. Len(d) :
                /\ AsPacked(d)[i].name = d[i].name /\ d[i].name \in Seq(Byte)
                /\ AsPacked(d)[i].month \in Month <=> d[i].month \in Month
                /\ d[i].month \in Month => AsPacked(d)[i] = d[i]
<1> DEFINE n == Len(d)
           E == AsPacked(d)
           as(i) == [month |-> IF d[i].month \in Month THEN d[i].month ELSE 0, name |-> d[i].name]
<1>1. d \in Seq([month : Int, name : Seq(Byte)])  BY CallerAssumption
<1>2. n \in Nat /\ DOMAIN d = 1 .. n  BY <1>1, LenProperties
<1>3. \A i \in 1 .. n : d[i] \in [month : Int, name : Seq(Byte)]  BY <1>1, ElementOfSeq
<1>4. 0 \notin Month /\ Month \subseteq Nat  BY VocabularyAssumption DEF Month
<1>5. \A i \in 1 .. n : as(i) \in Spelt  BY <1>3, <1>4 DEF Spelt
<1>6. d \in Seq([month : Int, name : Seq(Nat)])
  <2>1. Seq(Byte) \subseteq Seq(Nat)  BY SeqMonotonic, VocabularyAssumption
  <2>2. [month : Int, name : Seq(Byte)] \subseteq [month : Int, name : Seq(Nat)]  BY <2>1
  <2>3. QED  BY <1>1, <2>2, SeqMonotonic
<1>7. Pack(d) \in Seq(Nat) /\ EntriesOf(Pack(d)) = E
  BY <1>6, DeclaredReadsBack
<1>8. E = [i \in 1 .. n |-> as(i)]
  <2> HIDE DEF as, n, E
  <2>1. AsPacked(d) = [i \in DOMAIN d |-> as(i)]  BY Zenon DEF AsPacked, as
  <2>2. QED  BY <1>2, <2>1 DEF E
<1> HIDE DEF n, E
<1>9. E \in [1 .. n -> Spelt] /\ \A i \in 1 .. n : E[i] = as(i)
  <2> HIDE DEF as
  <2>1. QED  BY <1>5, <1>8
<1>10. E \in Seq(Spelt) /\ Len(E) = n  BY <1>2, <1>9
<1>11. ASSUME NEW i \in 1 .. n
       PROVE  /\ E[i].name = d[i].name /\ d[i].name \in Seq(Byte)
              /\ E[i].month \in Month <=> d[i].month \in Month
              /\ d[i].month \in Month => E[i] = d[i]
  <2>1. E[i].name = d[i].name  BY <1>9
  <2>2. E[i].month = IF d[i].month \in Month THEN d[i].month ELSE 0  BY <1>9
  <2>3. ASSUME d[i].month \in Month PROVE E[i] = d[i]
    <3>1. d[i] = [month |-> d[i].month, name |-> d[i].name]  BY <1>3
    <3>2. E[i] = [month |-> d[i].month, name |-> d[i].name]  BY <1>9, <2>3
    <3>3. QED  BY <3>1, <3>2
  <2>4. QED  BY <1>3, <1>4, <2>1, <2>2, <2>3
<1>12. QED  BY <1>2, <1>7, <1>10, <1>11 DEF WellSpelt, n, E

-----------------------------------------------------------------------------
(* What judgeMonthNames knows when it has read bytes to a: it has taken    *)
(* the entries so far, each clean, at the place they end.                  *)
Reading(bytes, a, taken, months, pos) ==
    /\ Lie(bytes, 0, EntriesOf(bytes), pos)
    /\ taken \in Seq(Seq(Byte)) /\ Len(taken) <= Len(EntriesOf(bytes))
    /\ a = pos[Len(taken)]
    /\ \A i \in 1 .. Len(taken) : taken[i] = EntriesOf(bytes)[i].name /\ Clean(EntriesOf(bytes), i)
    /\ months = { EntriesOf(bytes)[i].month : i \in 1 .. Len(taken) }

Months(E) == { E[i].month : i \in DOMAIN E }

AllClean(bytes) ==
    /\ \A i \in 1 .. Len(EntriesOf(bytes)) : Clean(EntriesOf(bytes), i)
    /\ ~CutShort(bytes)

(* What each refusal says of the bytes, and what is held without one.      *)
EntryVerdict(bytes, d, r, k, i) ==
    /\ r.rule = CoreRules[k] /\ r.entry = i - 1
    /\ \A j \in 1 .. i - 1 : Clean(EntriesOf(bytes), j)
    /\ FirstBroken(EntriesOf(bytes), i, k)
    /\ k = 1 /\ d # Nothing => r.month = d[i].month

CutShortVerdict(bytes, r) ==
    /\ r.rule = "cutShort" /\ CutShort(bytes)
    /\ \A i \in 1 .. Len(EntriesOf(bytes)) : Clean(EntriesOf(bytes), i)

UnnamedVerdict(bytes, r) ==
    /\ r.rule = "unnamed" /\ AllClean(bytes)
    /\ r.month \in Month \ Months(EntriesOf(bytes))
    /\ \A m \in Month \ Months(EntriesOf(bytes)) : r.month <= m

CoreVerdict(bytes, r) ==
    /\ r.rule = "core" /\ AllClean(bytes)
    /\ Month \subseteq Months(EntriesOf(bytes))
    /\ ~CoreAccepts(bytes)

AcceptedVerdict(bytes, r) ==
    /\ r.rule = "none" /\ AllClean(bytes)
    /\ Month \subseteq Months(EntriesOf(bytes))
    /\ CoreAccepts(bytes)

Verdict(bytes, d, r, h) ==
    \/ AcceptedVerdict(bytes, r) /\ h = bytes
    \/ /\ h = <<>>
       /\ \/ \E k \in 1 .. 5, i \in 1 .. Len(EntriesOf(bytes)) : EntryVerdict(bytes, d, r, k, i)
          \/ CutShortVerdict(bytes, r)
          \/ UnnamedVerdict(bytes, r)
          \/ CoreVerdict(bytes, r)

(* What a date door hands the core, h being the vocabulary held.           *)
Crossing(c, h) ==
    /\ c.door \in ReadsVocabulary => c.vocab = h
    /\ c.door \notin ReadsVocabulary => c.vocab = <<>>
    /\ c.vocab # <<>> => c.options # Nothing /\ CoreAccepts(c.vocab)
    /\ c.options # Nothing => OptionsValid(c.options.shapes, c.options.pivot)

(* Nothing has crossed before the verdict, and what has is a panic or this.*)
Crossed(p, c, h) == c = Nothing \/ (p = "judged" /\ (c = Panic \/ Crossing(c, h)))

Sourced(d, bytes) ==
    /\ WellSpelt(bytes)
    /\ d = Nothing \/ (d \in Declarations /\ bytes = Pack(d))

(* The inductive invariant.                                                *)
VocabularyInv ==
    /\ phase \in {"idle", "judging", "judged"}
    /\ phase = "idle" =>
          /\ declared = Nothing /\ at = 0 /\ names = <<>> /\ seen = {}
          /\ refusal = NoError /\ held = <<>>
    /\ phase # "idle" => Sourced(declared, packed)
    /\ phase = "judging" =>
          refusal = NoError /\ held = <<>> /\ \E pos : Reading(packed, at, names, seen, pos)
    /\ phase = "judged" => Verdict(packed, declared, refusal, held)
    /\ Crossed(phase, crossed, held)

(* The entry judgeMonthNames is at is the next of those the bytes hold,    *)
(* and cut short when they hold no more.                                   *)
LEMMA AtEntry ==
    ASSUME WellSpelt(packed), NEW pos, Reading(packed, at, names, seen, pos), at < Len(packed)
    PROVE  /\ Whole => /\ Len(names) + 1 \in 1 .. Len(EntriesOf(packed))
                       /\ EntriesOf(packed)[Len(names) + 1] =
                             [month |-> EntryMonth, name |-> EntryName]
                       /\ pos[Len(names) + 1] = at + Header + Length
           /\ ~Whole => Len(names) = Len(EntriesOf(packed)) /\ at = pos[Len(EntriesOf(packed))]
<1> DEFINE E == EntriesOf(packed)
           m == Len(E)
           k == Len(names)
           n == Len(packed)
<1>1. /\ packed \in Seq(Nat) /\ n \in Nat /\ m \in Nat /\ k \in Nat /\ k <= m
  BY LenProperties DEF WellSpelt, Reading
<1>2. /\ \A j \in 0 .. m : pos[j] \in 0 .. n
      /\ \A j \in 1 .. m : pos[j] = End(packed, pos[j - 1]) /\ E[j] = EntryAt(packed, pos[j - 1])
      /\ End(packed, pos[m]) > n
      /\ at = pos[k]
  BY DEF Reading, Lie
<1> HIDE DEF E
<1>3. at \in 0 .. n /\ at < n  BY <1>1, <1>2
<1>4. Whole <=> End(packed, at) <= n
  <2>1. ASSUME Whole PROVE End(packed, at) <= n
    <3>1. at + 2 <= n /\ packed[at + 2] <= n - at - 2
      BY <1>1, <1>3, <2>1 DEF Whole, Remaining, Length, Header
    <3>2. at + 2 \in 1 .. Len(packed)  BY <1>1, <1>3, <3>1
    <3>3. packed[at + 2] \in Nat  BY <1>1, <3>2, ElementOfSeq
    <3>4. End(packed, at) = at + 2 + packed[at + 2]  BY <1>1, <1>3, <3>1 DEF End, Header
    <3>5. QED  BY <1>1, <1>3, <3>1, <3>3, <3>4
  <2>2. ASSUME End(packed, at) <= n PROVE Whole
    <3>1. at + 2 <= End(packed, at) /\ packed[at + 2] \in Nat /\ End(packed, at) = at + 2 + packed[at + 2]
      BY <1>1, <1>3, <2>2, EndIsLater
    <3>2. QED  BY <1>1, <1>3, <2>2, <3>1 DEF Whole, Remaining, Length, Header
  <2>3. QED  BY <2>1, <2>2
<1> HIDE DEF m, k
<1>5. ASSUME Whole
      PROVE  /\ k + 1 \in 1 .. m /\ E[k + 1] = [month |-> EntryMonth, name |-> EntryName]
             /\ pos[k + 1] = at + Header + Length
  <2>1. k # m
    <3>1. ASSUME k = m PROVE FALSE
      <4>1. End(packed, at) > n  BY <1>2, <3>1
      <4>2. End(packed, at) \in Nat  BY <1>1, <1>3, EndIsLater
      <4>3. QED  BY <1>1, <1>4, <1>5, <4>1, <4>2
    <3>2. QED  BY <3>1
  <2>2. k + 1 \in 1 .. m /\ (k + 1) - 1 = k  BY <1>1, <2>1
  <2>3. pos[k + 1] = End(packed, at) /\ E[k + 1] = EntryAt(packed, at)
    <3>1. pos[k + 1] = End(packed, pos[(k + 1) - 1]) /\ E[k + 1] = EntryAt(packed, pos[(k + 1) - 1])
      BY <1>2, <2>2
    <3>2. QED  BY <1>2, <2>2, <3>1
  <2>4. End(packed, at) = at + Header + Length
    <3>1. End(packed, at) = at + 2 + packed[at + 2]  BY <1>1, <1>3, <1>4, <1>5, EndIsLater
    <3>2. QED  BY <3>1 DEF Header, Length
  <2>5. EntryAt(packed, at) = [month |-> EntryMonth, name |-> EntryName]
    BY <2>4, Zenon DEF EntryAt, EntryMonth, EntryName
  <2>6. QED  BY <2>2, <2>3, <2>4, <2>5
<1>6. ASSUME ~Whole PROVE k = m
  <2>1. ASSUME k # m PROVE FALSE
    <3>1. k + 1 \in 1 .. m /\ k + 1 \in 0 .. m /\ (k + 1) - 1 = k  BY <1>1, <2>1
    <3>2. pos[k + 1] = End(packed, at)
      <4>1. pos[k + 1] = End(packed, pos[(k + 1) - 1])  BY <1>2, <3>1
      <4>2. QED  BY <1>2, <3>1, <4>1
    <3>3. pos[k + 1] \in 0 .. n  BY <1>2, <3>1
    <3>4. QED  BY <1>1, <1>4, <1>6, <3>2, <3>3
  <2>2. QED  BY <2>1
<1>7. QED  BY <1>2, <1>5, <1>6 DEF E, m, k

(* What the guards say of that entry.                                      *)
LEMMA EntryRules ==
    ASSUME WellSpelt(packed), NEW pos, Reading(packed, at, names, seen, pos), at < Len(packed),
           Whole
    PROVE  LET E == EntriesOf(packed)
               i == Len(names) + 1
           IN  /\ EntryName \in Seq(Byte)
               /\ GoBreaks(E, i, CoreRules[1]) <=> EntryMonth \notin Month
               /\ GoBreaks(E, i, CoreRules[2]) <=> Range(EntryName) \cap NotUTF8 # {}
               /\ GoBreaks(E, i, CoreRules[3]) <=> Len(EntryName) \notin 1 .. MaxMonthNameBytes
               /\ GoBreaks(E, i, CoreRules[4]) <=> Range(EntryName) \cap Refused # {}
               /\ GoBreaks(E, i, CoreRules[5]) <=> FoldsToEarlier
<1> DEFINE E == EntriesOf(packed)
           i == Len(names) + 1
<1>1. i \in 1 .. Len(E) /\ E[i] = [month |-> EntryMonth, name |-> EntryName]
  BY AtEntry
<1>2. names \in Seq(Seq(Byte)) /\ Len(names) \in Nat /\ DOMAIN names = 1 .. Len(names)
      /\ \A j \in 1 .. Len(names) : names[j] = E[j].name
  BY LenProperties DEF Reading
<1>3. i - 1 = Len(names)  BY <1>2
<1> HIDE DEF i
<1>4. E[i].month = EntryMonth /\ E[i].name = EntryName  BY <1>1
<1>5. EntryName \in Seq(Byte)
  <2>1. E \in Seq(Spelt)  BY DEF WellSpelt
  <2>2. E[i] \in Spelt  BY <1>1, <2>1, ElementOfSeq
  <2>3. QED  BY <1>4, <2>2 DEF Spelt
<1>6. (\E j \in 1 .. i - 1 : Folded(E[j].name, GoFold) = Folded(E[i].name, GoFold)) <=> FoldsToEarlier
  BY <1>2, <1>3, <1>4 DEF FoldsToEarlier
<1> HIDE DEF E
<1>7. /\ GoBreaks(E, i, "month") <=> EntryMonth \notin Month
      /\ GoBreaks(E, i, "utf8") <=> Range(EntryName) \cap NotUTF8 # {}
      /\ GoBreaks(E, i, "length") <=> Len(EntryName) \notin 1 .. MaxMonthNameBytes
      /\ GoBreaks(E, i, "characters") <=> Range(EntryName) \cap Refused # {}
      /\ GoBreaks(E, i, "duplicate") <=> FoldsToEarlier
  BY <1>4, <1>6 DEF GoBreaks
<1>8. QED  BY <1>5, <1>7, RulesAre DEF E, i

-----------------------------------------------------------------------------
LEMMA InitVocabulary == Init => VocabularyInv
  BY DEF Init, VocabularyInv, Crossed

LEMMA NewMonthNamesKeeps ==
    ASSUME VocabularyInv, phase = "idle", NEW entries \in Declarations, NewMonthNames(entries)
    PROVE  VocabularyInv'
<1>1. /\ phase' = "judging" /\ declared' = entries /\ packed' = Pack(entries)
      /\ at' = at /\ names' = names /\ seen' = seen /\ refusal' = refusal /\ held' = held
      /\ crossed' = crossed
  BY DEF NewMonthNames
<1>2. at = 0 /\ names = <<>> /\ seen = {} /\ refusal = NoError /\ held = <<>>
  BY DEF VocabularyInv
<1>3. WellSpelt(Pack(entries))  BY DeclaredAreSpelt
<1>4. \E pos : Reading(Pack(entries), 0, <<>>, {}, pos)
  <2>1. PICK pos : Lie(Pack(entries), 0, EntriesOf(Pack(entries)), pos)
    BY <1>3, EntriesLie DEF WellSpelt
  <2>2. Len(EntriesOf(Pack(entries))) \in Nat  BY <1>3, LenProperties DEF WellSpelt
  <2>3. <<>> \in Seq(Seq(Byte)) /\ Len(<<>>) = 0  OBVIOUS
  <2>4. pos[0] = 0  BY <2>1 DEF Lie
  <2>5. {} = { EntriesOf(Pack(entries))[i].month : i \in 1 .. 0 }  OBVIOUS
  <2>6. Reading(Pack(entries), 0, <<>>, {}, pos)
    BY <2>1, <2>2, <2>3, <2>4, <2>5 DEF Reading
  <2>7. QED  BY <2>6
<1>5. crossed = Nothing  BY DEF VocabularyInv, Crossed
<1>6. Sourced(entries, Pack(entries))  BY <1>3 DEF Sourced
<1>7. QED  BY <1>1, <1>2, <1>4, <1>5, <1>6 DEF VocabularyInv, Crossed

LEMMA FromPackedKeeps ==
    ASSUME VocabularyInv, phase = "idle", NEW bytes \in Packings, MonthNamesFromPacked(bytes)
    PROVE  VocabularyInv'
<1>1. /\ phase' = "judging" /\ declared' = declared /\ packed' = bytes
      /\ at' = at /\ names' = names /\ seen' = seen /\ refusal' = refusal /\ held' = held
      /\ crossed' = crossed
  BY DEF MonthNamesFromPacked
<1>2. declared = Nothing /\ at = 0 /\ names = <<>> /\ seen = {} /\ refusal = NoError /\ held = <<>>
  BY DEF VocabularyInv
<1>3. WellSpelt(bytes)  BY PackingsAreSpelt
<1>4. \E pos : Reading(bytes, 0, <<>>, {}, pos)
  <2>1. PICK pos : Lie(bytes, 0, EntriesOf(bytes), pos)
    BY <1>3, EntriesLie DEF WellSpelt
  <2>2. Len(EntriesOf(bytes)) \in Nat  BY <1>3, LenProperties DEF WellSpelt
  <2>3. <<>> \in Seq(Seq(Byte)) /\ Len(<<>>) = 0  OBVIOUS
  <2>4. pos[0] = 0  BY <2>1 DEF Lie
  <2>5. {} = { EntriesOf(bytes)[i].month : i \in 1 .. 0 }  OBVIOUS
  <2>6. Reading(bytes, 0, <<>>, {}, pos)
    BY <2>1, <2>2, <2>3, <2>4, <2>5 DEF Reading
  <2>7. QED  BY <2>6
<1>5. crossed = Nothing  BY DEF VocabularyInv, Crossed
<1>6. Sourced(Nothing, bytes)  BY <1>3 DEF Sourced
<1>7. QED  BY <1>1, <1>2, <1>4, <1>5, <1>6 DEF VocabularyInv, Crossed

(* A refusal whose verdict is right keeps the invariant.                   *)
LEMMA RefuseKeeps ==
    ASSUME VocabularyInv, phase = "judging", NEW rule, NEW month, Refuse(rule, month),
           Verdict(packed, declared, [rule |-> rule, entry |-> Entry, month |-> month], <<>>)
    PROVE  VocabularyInv'
<1>1. /\ phase' = "judged" /\ refusal' = [rule |-> rule, entry |-> Entry, month |-> month]
      /\ held' = <<>> /\ declared' = declared /\ packed' = packed /\ crossed' = crossed
  BY DEF Refuse
<1>2. Sourced(declared, packed) /\ crossed = Nothing
  BY DEF VocabularyInv, Crossed
<1>3. QED  BY <1>1, <1>2 DEF VocabularyInv, Crossed

(* A refusal over the entry being read: the first rule it breaks.          *)
LEMMA EntryRefused ==
    ASSUME VocabularyInv, MayJudge, Whole, NEW k \in 1 .. 5, NEW month,
           FirstBroken(EntriesOf(packed), Len(names) + 1, k),
           k = 1 /\ declared # Nothing => month = declared[Len(names) + 1].month,
           Refuse(CoreRules[k], month)
    PROVE  VocabularyInv'
<1> DEFINE E == EntriesOf(packed)
           i == Len(names) + 1
           r == [rule |-> CoreRules[k], entry |-> Entry, month |-> month]
<1>1. phase = "judging" /\ at < Len(packed)  BY DEF MayJudge
<1>2. PICK pos : Reading(packed, at, names, seen, pos)  BY <1>1 DEF VocabularyInv
<1>3. WellSpelt(packed)  BY <1>1 DEF VocabularyInv, Sourced
<1>4. i \in 1 .. Len(E)  BY <1>1, <1>2, <1>3, AtEntry
<1>5. Len(names) \in Nat /\ i - 1 = Len(names)  BY <1>2, LenProperties DEF Reading
<1>6. \A j \in 1 .. i - 1 : Clean(E, j)  BY <1>2, <1>5 DEF Reading
<1>7. r.rule = CoreRules[k] /\ r.entry = i - 1 /\ r.month = month  BY <1>5 DEF Entry
<1> HIDE DEF r, i, E
<1>8. EntryVerdict(packed, declared, r, k, i)
  BY <1>6, <1>7 DEF EntryVerdict, E, i
<1>9. Verdict(packed, declared, r, <<>>)  BY <1>4, <1>8 DEF Verdict, E
<1>10. QED  BY <1>1, <1>9, RefuseKeeps DEF r

LEMMA EntryActionsKeep ==
    ASSUME VocabularyInv,
           MonthUndefined \/ NameNotUTF8 \/ NameLength \/ NameCharacters \/ NameDuplicate
    PROVE  VocabularyInv'
<1> DEFINE E == EntriesOf(packed)
           i == Len(names) + 1
<1>1. MayJudge /\ Whole
  BY DEF MonthUndefined, NameNotUTF8, NameLength, NameCharacters, NameDuplicate, MonthDefined,
         NameSpelt
<1>2. phase = "judging" /\ at < Len(packed)  BY <1>1 DEF MayJudge
<1>3. PICK pos : Reading(packed, at, names, seen, pos)  BY <1>2 DEF VocabularyInv
<1>4. WellSpelt(packed)  BY <1>2 DEF VocabularyInv, Sourced
<1>5. /\ EntryName \in Seq(Byte)
      /\ GoBreaks(E, i, CoreRules[1]) <=> EntryMonth \notin Month
      /\ GoBreaks(E, i, CoreRules[2]) <=> Range(EntryName) \cap NotUTF8 # {}
      /\ GoBreaks(E, i, CoreRules[3]) <=> Len(EntryName) \notin 1 .. MaxMonthNameBytes
      /\ GoBreaks(E, i, CoreRules[4]) <=> Range(EntryName) \cap Refused # {}
      /\ GoBreaks(E, i, CoreRules[5]) <=> FoldsToEarlier
  BY <1>1, <1>2, <1>3, <1>4, EntryRules
<1>6. Entry + 1 = i  BY DEF Entry
<1> HIDE DEF E, i
<1>7. CASE MonthUndefined
  <2> DEFINE month == IF declared = Nothing THEN EntryMonth ELSE declared[Entry + 1].month
  <2>1. EntryMonth \notin Month /\ Refuse(CoreRules[1], month)
    BY <1>7, RulesAre DEF MonthUndefined
  <2>2. FirstBroken(E, i, 1)  BY <1>5, <2>1 DEF FirstBroken
  <2>3. declared # Nothing => month = declared[i].month  BY <1>6
  <2> HIDE DEF month
  <2>4. QED  BY <1>1, <2>1, <2>2, <2>3, EntryRefused DEF E, i
<1>8. CASE NameNotUTF8
  <2>1. EntryMonth \in Month /\ Range(EntryName) \cap NotUTF8 # {} /\ Refuse(CoreRules[2], Nothing)
    BY <1>8, RulesAre DEF NameNotUTF8, MonthDefined
  <2>2. FirstBroken(E, i, 2)
    <3>1. \A l \in 1 .. 2 - 1 : l = 1  OBVIOUS
    <3>2. QED  BY <1>5, <2>1, <3>1 DEF FirstBroken
  <2>3. 2 \in 1 .. 5 /\ 2 # 1  OBVIOUS
  <2>4. QED  BY <1>1, <2>1, <2>2, <2>3, EntryRefused DEF E, i
<1>9. CASE NameLength
  <2>1. /\ EntryMonth \in Month /\ Range(EntryName) \cap NotUTF8 = {}
        /\ EntryName = <<>> \/ Len(EntryName) > MaxMonthNameBytes
        /\ Refuse(CoreRules[3], Nothing)
    BY <1>9, RulesAre DEF NameLength, MonthDefined
  <2>2. Len(EntryName) \notin 1 .. MaxMonthNameBytes
    <3>1. CASE EntryName = <<>>
      <4>1. Len(EntryName) = 0  BY <3>1, EmptySeq
      <4>2. QED  BY <4>1
    <3>2. CASE Len(EntryName) > MaxMonthNameBytes
      <4>1. Len(EntryName) \in Nat  BY <1>5, LenProperties
      <4>2. QED  BY <3>2, <4>1, VocabularyAssumption
    <3>3. QED  BY <2>1, <3>1, <3>2
  <2>3. FirstBroken(E, i, 3)
    <3>1. \A l \in 1 .. 3 - 1 : l = 1 \/ l = 2  OBVIOUS
    <3>2. QED  BY <1>5, <2>1, <2>2, <3>1 DEF FirstBroken
  <2>4. 3 \in 1 .. 5 /\ 3 # 1  OBVIOUS
  <2>5. QED  BY <1>1, <2>1, <2>3, <2>4, EntryRefused DEF E, i
<1>10. CASE NameCharacters
  <2>1. /\ EntryMonth \in Month /\ Range(EntryName) \cap NotUTF8 = {}
        /\ Len(EntryName) \in 1 .. MaxMonthNameBytes
        /\ Range(EntryName) \cap Refused # {}
        /\ Refuse(CoreRules[4], Nothing)
    BY <1>10, RulesAre DEF NameCharacters, NameSpelt, MonthDefined
  <2>2. FirstBroken(E, i, 4)
    <3>1. \A l \in 1 .. 4 - 1 : l = 1 \/ l = 2 \/ l = 3  OBVIOUS
    <3>2. QED  BY <1>5, <2>1, <3>1 DEF FirstBroken
  <2>3. 4 \in 1 .. 5 /\ 4 # 1  OBVIOUS
  <2>4. QED  BY <1>1, <2>1, <2>2, <2>3, EntryRefused DEF E, i
<1>11. CASE NameDuplicate
  <2>1. /\ EntryMonth \in Month /\ Range(EntryName) \cap NotUTF8 = {}
        /\ Len(EntryName) \in 1 .. MaxMonthNameBytes
        /\ Range(EntryName) \cap Refused = {}
        /\ FoldsToEarlier
        /\ Refuse(CoreRules[5], Nothing)
    BY <1>11, RulesAre DEF NameDuplicate, NameSpelt, MonthDefined
  <2>2. FirstBroken(E, i, 5)
    <3>1. \A l \in 1 .. 5 - 1 : l = 1 \/ l = 2 \/ l = 3 \/ l = 4  OBVIOUS
    <3>2. QED  BY <1>5, <2>1, <3>1 DEF FirstBroken
  <2>3. 5 \in 1 .. 5 /\ 5 # 1  OBVIOUS
  <2>4. QED  BY <1>1, <2>1, <2>2, <2>3, EntryRefused DEF E, i
<1>12. QED  BY <1>7, <1>8, <1>9, <1>10, <1>11

LEMMA TakeEntryKeeps ==
    ASSUME VocabularyInv, TakeEntry
    PROVE  VocabularyInv'
<1> DEFINE E == EntriesOf(packed)
           k == Len(names)
           i == k + 1
           more == Append(names, EntryName)
<1>1. /\ MayJudge /\ Whole /\ EntryMonth \in Month /\ Range(EntryName) \cap NotUTF8 = {}
      /\ Len(EntryName) \in 1 .. MaxMonthNameBytes /\ Range(EntryName) \cap Refused = {}
      /\ ~FoldsToEarlier
      /\ at' = at + Header + Length /\ names' = more /\ seen' = seen \cup {EntryMonth}
      /\ phase' = phase /\ declared' = declared /\ packed' = packed /\ refusal' = refusal
      /\ held' = held /\ crossed' = crossed
  BY DEF TakeEntry, NameSpelt, MonthDefined
<1>2. phase = "judging" /\ at < Len(packed)  BY <1>1 DEF MayJudge
<1>3. PICK pos : Reading(packed, at, names, seen, pos)  BY <1>2 DEF VocabularyInv
<1>4. WellSpelt(packed)  BY <1>2 DEF VocabularyInv, Sourced
<1>5. /\ EntryName \in Seq(Byte)
      /\ GoBreaks(E, i, CoreRules[1]) <=> EntryMonth \notin Month
      /\ GoBreaks(E, i, CoreRules[2]) <=> Range(EntryName) \cap NotUTF8 # {}
      /\ GoBreaks(E, i, CoreRules[3]) <=> Len(EntryName) \notin 1 .. MaxMonthNameBytes
      /\ GoBreaks(E, i, CoreRules[4]) <=> Range(EntryName) \cap Refused # {}
      /\ GoBreaks(E, i, CoreRules[5]) <=> FoldsToEarlier
  BY <1>1, <1>2, <1>3, <1>4, EntryRules
<1>6. /\ i \in 1 .. Len(E) /\ E[i] = [month |-> EntryMonth, name |-> EntryName]
      /\ pos[i] = at + Header + Length
  BY <1>1, <1>2, <1>3, <1>4, AtEntry
<1>7. /\ Lie(packed, 0, E, pos)
      /\ names \in Seq(Seq(Byte)) /\ k \in Nat /\ k <= Len(E)
      /\ \A j \in 1 .. k : names[j] = E[j].name /\ Clean(E, j)
      /\ seen = { E[j].month : j \in 1 .. k }
  BY <1>3, LenProperties DEF Reading
<1>8. /\ more \in Seq(Seq(Byte)) /\ Len(more) = i /\ more[i] = EntryName
      /\ \A j \in 1 .. k : more[j] = names[j]
  BY <1>5, <1>7, AppendProperties
<1>9. Clean(E, i)
  <2>1. \A l \in 1 .. 5 : l = 1 \/ l = 2 \/ l = 3 \/ l = 4 \/ l = 5  OBVIOUS
  <2> HIDE DEF E, i
  <2>2. QED  BY <1>1, <1>5, <2>1 DEF Clean
<1> HIDE DEF more, E
<1>10. E[i].name = EntryName /\ E[i].month = EntryMonth  BY <1>6
<1>11. \A j \in 1 .. i : j = i \/ j \in 1 .. k  BY <1>7
<1>12. i \in 1 .. i /\ \A j \in 1 .. k : j \in 1 .. i  BY <1>7
<1> HIDE DEF i, k
<1>13. \A j \in 1 .. i : more[j] = E[j].name /\ Clean(E, j)
  BY <1>7, <1>8, <1>9, <1>10, <1>11
<1>14. seen \cup {EntryMonth} = { E[j].month : j \in 1 .. i }
  BY <1>7, <1>10, <1>11, <1>12
<1>15. Reading(packed, at + Header + Length, more, seen \cup {EntryMonth}, pos)
  <2>1. i <= Len(E)  BY <1>6
  <2>2. QED  BY <1>6, <1>7, <1>8, <1>13, <1>14, <2>1 DEF Reading, E
<1>16. /\ refusal = NoError /\ held = <<>> /\ Sourced(declared, packed)
       /\ crossed = Nothing
  BY <1>2 DEF VocabularyInv, Crossed
<1>17. QED  BY <1>1, <1>2, <1>15, <1>16 DEF VocabularyInv, Crossed

LEMMA EntryCutShortKeeps ==
    ASSUME VocabularyInv, EntryCutShort
    PROVE  VocabularyInv'
<1> DEFINE E == EntriesOf(packed)
           r == [rule |-> "cutShort", entry |-> Entry, month |-> Nothing]
<1>1. MayJudge /\ ~Whole /\ Refuse("cutShort", Nothing)  BY DEF EntryCutShort
<1>2. phase = "judging" /\ at < Len(packed)  BY <1>1 DEF MayJudge
<1>3. PICK pos : Reading(packed, at, names, seen, pos)  BY <1>2 DEF VocabularyInv
<1>4. WellSpelt(packed)  BY <1>2 DEF VocabularyInv, Sourced
<1>5. Len(names) = Len(E) /\ at = pos[Len(E)]  BY <1>1, <1>2, <1>3, <1>4, AtEntry
<1>6. \A j \in 1 .. Len(E) : Clean(E, j)  BY <1>3, <1>5 DEF Reading
<1>7. \A j \in 1 .. Len(E) : E[j].month \in Month
  <2>1. 1 \in 1 .. 5  OBVIOUS
  <2>2. \A j \in 1 .. Len(E) : ~GoBreaks(E, j, "month")  BY <1>6, <2>1, RulesAre DEF Clean
  <2>3. QED  BY <2>2 DEF GoBreaks
<1>8. Lie(packed, 0, E, pos) /\ packed \in Seq(Nat)  BY <1>3, <1>4 DEF Reading, WellSpelt
<1> HIDE DEF E
<1>9. pos[Len(E)] # Len(packed)
  <2>1. at \in 0 .. Len(packed) /\ Len(packed) \in Nat
    <3>1. Len(E) \in Nat  BY <1>8, LenProperties DEF Lie
    <3>2. pos[Len(E)] \in 0 .. Len(packed)  BY <1>8, <3>1 DEF Lie
    <3>3. QED  BY <1>5, <1>8, <3>2, LenProperties
  <2>2. QED  BY <1>2, <1>5, <2>1
<1>10. CutShort(packed)
  BY <1>7, <1>8, <1>9, PacksBack DEF E
<1>11. r.rule = "cutShort"  OBVIOUS
<1> HIDE DEF r
<1>12. CutShortVerdict(packed, r)  BY <1>6, <1>10, <1>11 DEF CutShortVerdict, E
<1>13. Verdict(packed, declared, r, <<>>)  BY <1>12 DEF Verdict
<1>14. QED  BY <1>1, <1>2, <1>13, RefuseKeeps DEF r

(* Read to their end, the bytes hold the entries taken and no more.        *)
LEMMA AllReadMeans ==
    ASSUME VocabularyInv, AllRead
    PROVE  AllClean(packed) /\ seen = Months(EntriesOf(packed))
<1> DEFINE E == EntriesOf(packed)
<1>2. phase = "judging" /\ at >= Len(packed)  BY DEF AllRead
<1>3. PICK pos : Reading(packed, at, names, seen, pos)  BY <1>2 DEF VocabularyInv
<1>4. WellSpelt(packed)  BY <1>2 DEF VocabularyInv, Sourced
<1>5. /\ Lie(packed, 0, E, pos) /\ packed \in Seq(Nat) /\ Len(packed) \in Nat
      /\ Len(E) \in Nat /\ Len(names) \in Nat /\ Len(names) <= Len(E) /\ at = pos[Len(names)]
      /\ DOMAIN E = 1 .. Len(E)
  BY <1>3, <1>4, LenProperties DEF Reading, WellSpelt
<1>6. \A j \in 0 .. Len(E) : pos[j] \in 0 .. Len(packed)  BY <1>5 DEF Lie
<1>7. at = Len(packed)
  <2>1. at \in 0 .. Len(packed)  BY <1>5, <1>6
  <2>2. QED  BY <1>2, <1>5, <2>1
<1>8. Len(names) = Len(E)
  <2>1. ASSUME Len(names) # Len(E) PROVE FALSE
    <3> DEFINE k == Len(names)
    <3>1. k + 1 \in 1 .. Len(E) /\ k + 1 \in 0 .. Len(E) /\ (k + 1) - 1 = k  BY <1>5, <2>1
    <3> HIDE DEF k
    <3>2. pos[k + 1] = End(packed, pos[(k + 1) - 1])  BY <1>5, <3>1 DEF Lie
    <3>3. pos[k + 1] = End(packed, at)  BY <1>5, <3>1, <3>2 DEF k
    <3>4. at \in 0 .. Len(packed)  BY <1>5, <1>7
    <3>5. End(packed, at) > at  BY <1>5, <3>4, EndIsLater
    <3>6. End(packed, at) \in 0 .. Len(packed)  BY <1>6, <3>1, <3>3
    <3>7. QED  BY <1>5, <1>7, <3>5, <3>6
  <2>2. QED  BY <2>1
<1>9. \A j \in 1 .. Len(E) : Clean(E, j)  BY <1>3, <1>8 DEF Reading
<1>10. \A j \in 1 .. Len(E) : E[j].month \in Month
  <2>1. 1 \in 1 .. 5  OBVIOUS
  <2>2. \A j \in 1 .. Len(E) : ~GoBreaks(E, j, "month")  BY <1>9, <2>1, RulesAre DEF Clean
  <2>3. QED  BY <2>2 DEF GoBreaks
<1>11. seen = Months(E)  BY <1>3, <1>5, <1>8 DEF Reading, Months
<1> HIDE DEF E
<1>12. ~CutShort(packed)
  <2>1. pos[Len(E)] = Len(packed)  BY <1>5, <1>7, <1>8
  <2>2. QED  BY <1>5, <1>10, <2>1, PacksBack DEF E
<1>13. QED  BY <1>9, <1>11, <1>12 DEF AllClean, E

LEMMA MonthUnnamedKeeps ==
    ASSUME VocabularyInv, MonthUnnamed
    PROVE  VocabularyInv'
<1> DEFINE left == Month \ seen
           first == CHOOSE m \in left : \A n \in left : m <= n
           r == [rule |-> "unnamed", entry |-> Entry, month |-> first]
<1>1. AllRead /\ ~(Month \subseteq seen) /\ Refuse("unnamed", first)  BY DEF MonthUnnamed
<1>2. phase = "judging"  BY <1>1 DEF AllRead
<1>3. AllClean(packed) /\ seen = Months(EntriesOf(packed))  BY <1>1, AllReadMeans
<1>4. left \subseteq Nat /\ left # {}  BY <1>1, VocabularyAssumption DEF Month
<1> HIDE DEF left
<1>5. first \in left /\ \A n \in left : first <= n
  <2>1. \E m \in left : \A n \in left : m <= n  BY <1>4, NatMin
  <2>2. QED  BY <2>1
<1> HIDE DEF first
<1>6. r.rule = "unnamed" /\ r.month = first  OBVIOUS
<1> HIDE DEF r
<1>7. UnnamedVerdict(packed, r)  BY <1>3, <1>5, <1>6 DEF UnnamedVerdict, left
<1>8. Verdict(packed, declared, r, <<>>)  BY <1>7 DEF Verdict
<1>9. QED  BY <1>1, <1>2, <1>8, RefuseKeeps DEF r

LEMMA CoreRefusesKeeps ==
    ASSUME VocabularyInv, CoreRefuses
    PROVE  VocabularyInv'
<1> DEFINE r == [rule |-> "core", entry |-> Entry, month |-> Nothing]
<1>1. AllRead /\ Month \subseteq seen /\ ~CoreAccepts(packed) /\ Refuse("core", Nothing)
  BY DEF CoreRefuses
<1>2. phase = "judging"  BY <1>1 DEF AllRead
<1>3. AllClean(packed) /\ seen = Months(EntriesOf(packed))  BY <1>1, AllReadMeans
<1>4. r.rule = "core"  OBVIOUS
<1> HIDE DEF r
<1>5. CoreVerdict(packed, r)  BY <1>1, <1>3, <1>4 DEF CoreVerdict
<1>6. Verdict(packed, declared, r, <<>>)  BY <1>5 DEF Verdict
<1>7. QED  BY <1>1, <1>2, <1>6, RefuseKeeps DEF r

LEMMA AcceptedKeeps ==
    ASSUME VocabularyInv, Accepted
    PROVE  VocabularyInv'
<1>1. /\ AllRead /\ Month \subseteq seen /\ CoreAccepts(packed)
      /\ phase' = "judged" /\ held' = packed
      /\ declared' = declared /\ packed' = packed /\ refusal' = refusal /\ crossed' = crossed
  BY DEF Accepted
<1>2. phase = "judging"  BY <1>1 DEF AllRead
<1>3. AllClean(packed) /\ seen = Months(EntriesOf(packed))  BY <1>1, AllReadMeans
<1>4. /\ refusal = NoError /\ Sourced(declared, packed)
      /\ crossed = Nothing
  BY <1>2 DEF VocabularyInv, Crossed
<1>5. refusal.rule = "none"  BY <1>4 DEF NoError
<1>6. Verdict(packed, declared, refusal, packed)
  BY <1>1, <1>3, <1>5 DEF Verdict, AcceptedVerdict
<1>7. QED  BY <1>1, <1>4, <1>6 DEF VocabularyInv, Crossed

LEMMA DateCallKeeps ==
    ASSUME VocabularyInv, NEW door \in DateDoor, NEW shapes \in Shapes, NEW pivot \in Pivots,
           DateCall(door, shapes, pivot)
    PROVE  VocabularyInv'
<1> DEFINE options == [shapes |-> shapes, pivot |-> pivot]
           bare == [door |-> door, options |-> Nothing, vocab |-> <<>>]
           full == [door |-> door, options |-> options, vocab |-> VocabFor(door)]
<1>1. /\ phase = "judged"
      /\ phase' = phase /\ declared' = declared /\ packed' = packed /\ at' = at
      /\ names' = names /\ seen' = seen /\ refusal' = refusal /\ held' = held
      /\ \/ held = <<>> /\ crossed' = bare
         \/ crossed' = Panic
         \/ OptionsValid(shapes, pivot) /\ crossed' = full
  BY Zenon DEF DateCall, ZeroOptions
<1>2. Verdict(packed, declared, refusal, held) /\ Sourced(declared, packed)
  BY <1>1 DEF VocabularyInv
<1>3. held = <<>> \/ CoreAccepts(held)  BY <1>2 DEF Verdict, AcceptedVerdict
<1>4. ASSUME held = <<>> PROVE Crossing(bare, held)  BY <1>4 DEF Crossing
<1>5. ASSUME OptionsValid(shapes, pivot) PROVE Crossing(full, held)
  <2>1. options # Nothing  BY CallerAssumption
  <2>2. /\ door \in ReadsVocabulary => VocabFor(door) = held
        /\ door \notin ReadsVocabulary => VocabFor(door) = <<>>
        /\ VocabFor(door) # <<>> => CoreAccepts(VocabFor(door))
    BY <1>3 DEF VocabFor
  <2>3. /\ full.door = door /\ full.options = options /\ full.vocab = VocabFor(door)
        /\ options.shapes = shapes /\ options.pivot = pivot
    OBVIOUS
  <2> HIDE DEF full, options
  <2>4. QED  BY <1>5, <2>1, <2>2, <2>3 DEF Crossing
<1> HIDE DEF bare, full
<1>6. crossed' = Panic \/ Crossing(crossed', held)  BY <1>1, <1>4, <1>5
<1>7. Crossed(phase, crossed, held)'
  <2>1. Crossed(phase', crossed', held')  BY <1>1, <1>6 DEF Crossed
  <2>2. QED  BY <2>1 DEF Crossed, Crossing
<1>8. QED  BY <1>1, <1>2, <1>7 DEF VocabularyInv

(* The invariant: what has been read is the entries the bytes hold, each   *)
(* clean, and a verdict is the first rule those entries break              *)
(* (judgeMonthNames), whatever vocabularies are declared or packed.        *)
THEOREM VocabularyInvariant == Spec => []VocabularyInv
<1>1. Init => VocabularyInv  BY InitVocabulary
<1>2. VocabularyInv /\ [Next]_vars => VocabularyInv'
  <2> SUFFICES ASSUME VocabularyInv, [Next]_vars PROVE VocabularyInv'
    OBVIOUS
  <2>1. CASE phase = "idle" /\ \E entries \in Declarations : NewMonthNames(entries)
    BY <2>1, NewMonthNamesKeeps
  <2>2. CASE phase = "idle" /\ \E bytes \in Packings : MonthNamesFromPacked(bytes)
    BY <2>2, FromPackedKeeps
  <2>3. CASE EntryCutShort  BY <2>3, EntryCutShortKeeps
  <2>4. CASE MonthUndefined \/ NameNotUTF8 \/ NameLength \/ NameCharacters \/ NameDuplicate
    BY <2>4, EntryActionsKeep
  <2>5. CASE TakeEntry  BY <2>5, TakeEntryKeeps
  <2>6. CASE MonthUnnamed  BY <2>6, MonthUnnamedKeeps
  <2>7. CASE CoreRefuses  BY <2>7, CoreRefusesKeeps
  <2>8. CASE Accepted  BY <2>8, AcceptedKeeps
  <2>9. CASE \E door \in DateDoor, shapes \in Shapes, pivot \in Pivots : DateCall(door, shapes, pivot)
    BY <2>9, DateCallKeeps
  <2>10. CASE UNCHANGED vars
    BY <2>10 DEF vars, VocabularyInv, Reading, Sourced, Verdict, Crossed, Crossing
  <2>11. QED
    BY <2>1, <2>2, <2>3, <2>4, <2>5, <2>6, <2>7, <2>8, <2>9, <2>10, Zenon DEF Next
<1>3. QED  BY <1>1, <1>2, PTL DEF Spec

-----------------------------------------------------------------------------
(* The refusal's rule, verdict by verdict, against the core's judgement.   *)
LEMMA VerdictIsTheCores ==
    ASSUME NEW bytes, WellSpelt(bytes), NEW d, NEW r, NEW h, Verdict(bytes, d, r, h)
    PROVE  /\ r.rule = "none" <=> CoreJudges(bytes) = "accepted"
           /\ r.rule # "none" => \/ r.rule = CoreJudges(bytes)
                                 \/ FoldsInCore(EntriesOf(bytes)) /\ CoreJudges(bytes) = "duplicate"
<1> DEFINE E == EntriesOf(bytes)
           rule == CoreJudges(bytes)
           folds == FoldsInCore(E)
<1>1. E \in Seq(Spelt)  BY DEF WellSpelt
<1>2. \A k \in 1 .. 5 : CoreRules[k] \notin {"none", "accepted"}
  <2>1. \A k \in 1 .. 5 : k = 1 \/ k = 2 \/ k = 3 \/ k = 4 \/ k = 5  OBVIOUS
  <2>2. QED  BY <2>1, RulesAre
<1>3. (\A i \in 1 .. Len(E) : Clean(E, i)) =>
         \/ rule = IF CutShort(bytes) THEN "cutShort"
                   ELSE IF ~(Month \subseteq Months(E)) THEN "unnamed" ELSE "accepted"
         \/ folds /\ rule = "duplicate"
  BY <1>1, CleanJudgedAlike DEF Months
<1> HIDE DEF folds, rule
<1>4. CASE AcceptedVerdict(bytes, r)
  BY <1>4 DEF AcceptedVerdict, CoreAccepts, rule
<1>5. ASSUME NEW k \in 1 .. 5, NEW i \in 1 .. Len(E), EntryVerdict(bytes, d, r, k, i)
      PROVE  /\ r.rule # "none" /\ rule # "accepted"
             /\ r.rule = rule \/ (folds /\ rule = "duplicate")
  <2>1. r.rule = CoreRules[k] /\ (\A j \in 1 .. i - 1 : Clean(E, j)) /\ FirstBroken(E, i, k)
    BY <1>5 DEF EntryVerdict
  <2>2. rule = CoreRules[k] \/ (folds /\ rule = "duplicate")
    BY <1>1, <2>1, EntryJudgedAlike DEF rule, folds
  <2>3. QED  BY <1>2, <2>1, <2>2
<1>6. CASE CutShortVerdict(bytes, r)
  <2>1. r.rule = "cutShort" /\ (rule = "cutShort" \/ (folds /\ rule = "duplicate"))
    BY <1>3, <1>6 DEF CutShortVerdict
  <2>2. QED  BY <2>1 DEF rule, folds
<1>7. CASE UnnamedVerdict(bytes, r)
  <2>1. r.rule = "unnamed" /\ (rule = "unnamed" \/ (folds /\ rule = "duplicate"))
    <3>1. r.rule = "unnamed" /\ AllClean(bytes) /\ ~(Month \subseteq Months(E))
      BY <1>7 DEF UnnamedVerdict
    <3>2. QED  BY <1>3, <3>1 DEF AllClean
  <2>2. QED  BY <2>1 DEF rule, folds
<1>8. CASE CoreVerdict(bytes, r)
  <2>1. r.rule = "core" /\ rule # "accepted" /\ folds /\ rule = "duplicate"
    <3>1. r.rule = "core" /\ AllClean(bytes) /\ Month \subseteq Months(E) /\ rule # "accepted"
      BY <1>8 DEF CoreVerdict, CoreAccepts, rule
    <3>2. QED  BY <1>3, <3>1 DEF AllClean
  <2>2. QED  BY <2>1 DEF rule, folds
<1>9. QED  BY <1>4, <1>5, <1>6, <1>7, <1>8 DEF Verdict, rule, folds

(* Of any bytes, lying lengths and entries cut short included, the binding *)
(* and the core accept the same and name the same first rule, but for a    *)
(* name that only the core folds to another (judgeMonthNames).             *)
THEOREM JudgesAsTheCoreDoesHolds == Spec => []JudgesAsTheCoreDoes
<1>1. VocabularyInv => JudgesAsTheCoreDoes
  <2> SUFFICES ASSUME VocabularyInv, Judged PROVE JudgesAsTheCoreDoes
    BY DEF JudgesAsTheCoreDoes
  <2>1. WellSpelt(packed) /\ Verdict(packed, declared, refusal, held)
    BY DEF VocabularyInv, Judged, Sourced
  <2>2. /\ refusal.rule = "none" <=> CoreJudges(packed) = "accepted"
        /\ refusal.rule # "none" =>
              \/ refusal.rule = CoreJudges(packed)
              \/ FoldsInCore(EntriesOf(packed)) /\ CoreJudges(packed) = "duplicate"
    BY <2>1, VerdictIsTheCores
  <2>3. QED  BY <2>2, Zenon DEF JudgesAsTheCoreDoes, FoldsInCore
<1>2. QED  BY <1>1, VocabularyInvariant, PTL

-----------------------------------------------------------------------------
(* The doc's faults of the entries declared are the binding's of the bytes.*)
LEMMA FaultyIsUnclean ==
    ASSUME NEW d \in Declarations, NEW i \in 1 .. Len(d)
    PROVE  EntryFaulty(d, i) <=> ~Clean(AsPacked(d), i)
<1> DEFINE E == AsPacked(d)
<1>1. /\ Len(d) \in Nat
      /\ \A j \in 1 .. Len(d) : /\ E[j].name = d[j].name
                                /\ E[j].month \in Month <=> d[j].month \in Month
  BY DeclaredAreSpelt
<1>2. \A j \in 1 .. i - 1 : j \in 1 .. Len(d)  BY <1>1
<1> HIDE DEF E
<1>3. EntryFaulty(d, i) <=>
         \/ E[i].month \notin Month
         \/ Range(E[i].name) \cap NotUTF8 # {}
         \/ Len(E[i].name) \notin 1 .. MaxMonthNameBytes
         \/ Range(E[i].name) \cap Refused # {}
         \/ \E j \in 1 .. i - 1 : Folded(E[j].name, GoFold) = Folded(E[i].name, GoFold)
  <2>1. \A S : S \cap (NotUTF8 \cup Refused) # {} <=> S \cap NotUTF8 # {} \/ S \cap Refused # {}
    OBVIOUS
  <2>2. (\E j \in 1 .. i - 1 : Folded(d[j].name, GoFold) = Folded(d[i].name, GoFold)) <=>
        (\E j \in 1 .. i - 1 : Folded(E[j].name, GoFold) = Folded(E[i].name, GoFold))
    <3>1. E[i].name = d[i].name /\ \A j \in 1 .. i - 1 : E[j].name = d[j].name
      BY <1>1, <1>2
    <3>2. QED  BY <3>1
  <2>3. Range(d[i].name) \cap (NotUTF8 \cup Refused) # {} <=>
           Range(E[i].name) \cap NotUTF8 # {} \/ Range(E[i].name) \cap Refused # {}
    BY <1>1, <2>1
  <2>4. QED  BY <1>1, <2>2, <2>3 DEF EntryFaulty
<1>4. ~Clean(E, i) <=>
         \/ GoBreaks(E, i, "month") \/ GoBreaks(E, i, "utf8") \/ GoBreaks(E, i, "length")
         \/ GoBreaks(E, i, "characters") \/ GoBreaks(E, i, "duplicate")
  <2>1. \A k \in 1 .. 5 : k = 1 \/ k = 2 \/ k = 3 \/ k = 4 \/ k = 5  OBVIOUS
  <2>2. 1 \in 1 .. 5 /\ 2 \in 1 .. 5 /\ 3 \in 1 .. 5 /\ 4 \in 1 .. 5 /\ 5 \in 1 .. 5  OBVIOUS
  <2>3. QED  BY <2>1, <2>2, RulesAre DEF Clean
<1>5. QED  BY <1>3, <1>4 DEF GoBreaks, E

(* All of a declaration clean, its bytes read back as the entries declared,*)
(* and none is left over.                                                  *)
LEMMA CleanReadsBack ==
    ASSUME NEW d \in Declarations, \A i \in 1 .. Len(d) : Clean(AsPacked(d), i)
    PROVE  AsPacked(d) = d /\ ~CutShort(Pack(d))
<1> DEFINE E == AsPacked(d)
<1>1. /\ WellSpelt(Pack(d)) /\ EntriesOf(Pack(d)) = E
      /\ Len(E) = Len(d) /\ Len(d) \in Nat
      /\ \A i \in 1 .. Len(d) : /\ E[i].month \in Month <=> d[i].month \in Month
                                /\ d[i].month \in Month => E[i] = d[i]
  BY DeclaredAreSpelt
<1>2. \A i \in 1 .. Len(d) : E[i] = d[i]
  <2>1. 1 \in 1 .. 5  OBVIOUS
  <2>2. \A i \in 1 .. Len(d) : ~GoBreaks(E, i, "month")  BY <2>1, RulesAre DEF Clean
  <2>3. \A i \in 1 .. Len(d) : E[i].month \in Month  BY <2>2 DEF GoBreaks
  <2>4. QED  BY <1>1, <2>3
<1>3. E = d
  <2>1. d \in Seq([month : Int, name : Seq(Byte)])  BY CallerAssumption
  <2>2. E \in Seq([month : Int, name : Seq(Byte)])
    <3>1. E \in Seq(Spelt)  BY <1>1 DEF WellSpelt
    <3>2. Spelt \subseteq [month : Int, name : Seq(Byte)]  BY DEF Spelt
    <3>3. QED  BY <3>1, <3>2, SeqMonotonic
  <2> HIDE DEF E
  <2>3. QED  BY <1>1, <1>2, <2>1, <2>2, SeqEqual
<1>4. QED  BY <1>1, <1>3 DEF CutShort

(* NewMonthNames names the first entry that breaks a rule, with the month  *)
(* as declared, and with none breaking one the first month left out.       *)
THEOREM ErrorNamesTheFirstHolds == Spec => []ErrorNamesTheFirst
<1>1. VocabularyInv => ErrorNamesTheFirst
  <2> SUFFICES ASSUME VocabularyInv, Judged, declared # Nothing PROVE ErrorNamesTheFirst
    BY DEF ErrorNamesTheFirst
  <2> DEFINE d == declared
             E == AsPacked(d)
             faulty == { i \in DOMAIN d : EntryFaulty(d, i) }
             unnamed == Month \ { d[i].month : i \in DOMAIN d }
  <2>1. d \in Declarations /\ packed = Pack(d) /\ Verdict(packed, d, refusal, held)
    BY DEF VocabularyInv, Judged, Sourced
  <2>2. /\ EntriesOf(packed) = E /\ Len(E) = Len(d) /\ DOMAIN d = 1 .. Len(d) /\ Len(d) \in Nat
        /\ \A i \in 1 .. Len(d) : E[i].month \in Month <=> d[i].month \in Month
    BY <2>1, DeclaredAreSpelt
  <2>3. \A i \in 1 .. Len(d) : i \in faulty <=> ~Clean(E, i)
    BY <2>1, <2>2, FaultyIsUnclean
  <2>4. faulty \subseteq 1 .. Len(d)  BY <2>2
  <2> HIDE DEF faulty, d, E, unnamed
  <2>5. ASSUME NEW k \in 1 .. 5, NEW i \in 1 .. Len(E), EntryVerdict(packed, d, refusal, k, i)
        PROVE  /\ faulty # {}
               /\ refusal.rule \notin {"none", "cutShort", "unnamed", "core"}
               /\ refusal.entry + 1 \in faulty
               /\ \A j \in faulty : refusal.entry < j
               /\ refusal.rule = "month" => refusal.month = d[refusal.entry + 1].month
               /\ refusal.rule # "month" => d[refusal.entry + 1].month \in Month
    <3>1. /\ refusal.rule = CoreRules[k] /\ refusal.entry = i - 1
          /\ \A j \in 1 .. i - 1 : Clean(E, j)
          /\ GoBreaks(E, i, CoreRules[k]) /\ \A l \in 1 .. k - 1 : ~GoBreaks(E, i, CoreRules[l])
          /\ k = 1 /\ d # Nothing => refusal.month = d[i].month
      BY <2>2, <2>5 DEF EntryVerdict, FirstBroken
    <3>2. refusal.entry + 1 = i /\ i \in 1 .. Len(d)  BY <2>2, <3>1
    <3>3. i \in faulty
      <4>1. ~Clean(E, i)  BY <3>1 DEF Clean
      <4>2. QED  BY <2>3, <3>2, <4>1
    <3>4. ASSUME NEW j \in faulty PROVE refusal.entry < j
      <4>1. j \in 1 .. Len(d) /\ ~Clean(E, j)  BY <2>3, <2>4
      <4>2. j \notin 1 .. i - 1  BY <3>1, <4>1
      <4>3. QED  BY <2>2, <3>1, <3>2, <4>1, <4>2
    <3>5. k = 1 \/ k = 2 \/ k = 3 \/ k = 4 \/ k = 5  OBVIOUS
    <3>6. refusal.rule \notin {"none", "cutShort", "unnamed", "core"}
      BY <3>1, <3>5, RulesAre
    <3>7. ASSUME refusal.rule = "month" PROVE refusal.month = d[i].month
      <4>1. k = 1  BY <3>1, <3>5, <3>7, RulesAre
      <4>2. QED  BY <3>1, <4>1 DEF d
    <3>8. ASSUME refusal.rule # "month" PROVE d[i].month \in Month
      <4>1. k # 1  BY <3>1, <3>8, RulesAre
      <4>2. 1 \in 1 .. k - 1  BY <4>1
      <4>3. ~GoBreaks(E, i, "month")  BY <3>1, <4>2, RulesAre
      <4>4. E[i].month \in Month  BY <4>3 DEF GoBreaks
      <4>5. QED  BY <2>2, <3>2, <4>4
    <3>9. QED  BY <3>2, <3>3, <3>4, <3>6, <3>7, <3>8
  <2>6. ASSUME \A i \in 1 .. Len(EntriesOf(packed)) : Clean(EntriesOf(packed), i)
        PROVE  faulty = {} /\ ~CutShort(packed) /\ Months(EntriesOf(packed)) = Month \ unnamed
    <3>1. \A i \in 1 .. Len(d) : Clean(E, i)  BY <2>2, <2>6
    <3>2. E = d /\ ~CutShort(packed)  BY <2>1, <3>1, CleanReadsBack DEF E
    <3>3. faulty = {}  BY <2>3, <2>4, <3>1
    <3>4. \A i \in 1 .. Len(d) : d[i].month \in Month
      <4>1. 1 \in 1 .. 5  OBVIOUS
      <4>2. \A i \in 1 .. Len(d) : ~GoBreaks(E, i, "month")  BY <3>1, <4>1, RulesAre DEF Clean
      <4>3. \A i \in 1 .. Len(d) : E[i].month \in Month  BY <4>2 DEF GoBreaks
      <4>4. QED  BY <3>2, <4>3
    <3>5. Months(d) = Month \ unnamed
      <4>1. Months(d) \subseteq Month  BY <2>2, <3>4 DEF Months
      <4>2. unnamed = Month \ Months(d)  BY DEF unnamed, Months
      <4>3. QED  BY <4>1, <4>2
    <3>6. QED  BY <2>2, <3>2, <3>3, <3>5
  <2>7. CASE \E k \in 1 .. 5, i \in 1 .. Len(EntriesOf(packed)) : EntryVerdict(packed, d, refusal, k, i)
    <3>1. PICK k \in 1 .. 5, i \in 1 .. Len(E) : EntryVerdict(packed, d, refusal, k, i)
      BY <2>2, <2>7
    <3>2. QED  BY <2>5, <3>1 DEF ErrorNamesTheFirst, faulty, unnamed, d
  <2>8. ASSUME \A i \in 1 .. Len(EntriesOf(packed)) : Clean(EntriesOf(packed), i),
               \/ CutShort(packed) \/ Month \subseteq Months(EntriesOf(packed))
               \/ UnnamedVerdict(packed, refusal)
        PROVE  ErrorNamesTheFirst
    <3>1. faulty = {} /\ ~CutShort(packed) /\ Months(EntriesOf(packed)) = Month \ unnamed
      BY <2>6, <2>8
    <3>2. unnamed \subseteq Month  BY DEF unnamed
    <3>3. CASE Month \subseteq Months(EntriesOf(packed))
      <4>1. unnamed = {}  BY <3>1, <3>2, <3>3
      <4>2. QED  BY <3>1, <4>1 DEF ErrorNamesTheFirst, faulty, unnamed, d
    <3>4. CASE UnnamedVerdict(packed, refusal)
      <4>1. Month \ Months(EntriesOf(packed)) = unnamed  BY <3>1, <3>2
      <4>2. /\ refusal.rule = "unnamed" /\ refusal.month \in unnamed
            /\ \A m \in unnamed : refusal.month <= m
        BY <3>4, <4>1 DEF UnnamedVerdict
      <4>3. QED  BY <3>1, <4>2 DEF ErrorNamesTheFirst, faulty, unnamed, d
    <3>5. QED  BY <2>8, <3>1, <3>3, <3>4
  <2>9. QED
    BY <2>1, <2>7, <2>8
       DEF Verdict, AcceptedVerdict, CutShortVerdict, UnnamedVerdict, CoreVerdict, AllClean
<1>2. QED  BY <1>1, VocabularyInvariant, PTL

-----------------------------------------------------------------------------
(* A vocabulary declared and accepted holds those entries, every month     *)
(* named and every name meaning one month; the two doors that read one get *)
(* the one held, whole, and no other door gets any (dateCall).             *)
THEOREM DoorsSendWhatWasDeclaredHolds == Spec => []DoorsSendWhatWasDeclared
<1>1. VocabularyInv => DoorsSendWhatWasDeclared
  <2> SUFFICES ASSUME VocabularyInv PROVE DoorsSendWhatWasDeclared
    OBVIOUS
  <2>1. ASSUME IsAccepted
        PROVE  LET entries == EntriesOf(held) IN
               /\ declared # Nothing => entries = declared
               /\ { entries[i].month : i \in DOMAIN entries } = Month
               /\ Distinct(entries, GoFold)
    <3> DEFINE E == EntriesOf(packed)
    <3>1. /\ Sourced(declared, packed) /\ Verdict(packed, declared, refusal, held)
          /\ refusal.rule = "none"
      BY <2>1 DEF VocabularyInv, IsAccepted, Judged
    <3>2. AcceptedVerdict(packed, refusal) /\ held = packed
      <4>1. \A k \in 1 .. 5 : CoreRules[k] # "none"
        <5>1. \A k \in 1 .. 5 : k = 1 \/ k = 2 \/ k = 3 \/ k = 4 \/ k = 5  OBVIOUS
        <5>2. QED  BY <5>1, RulesAre
      <4>2. QED
        BY <3>1, <4>1 DEF Verdict, EntryVerdict, CutShortVerdict, UnnamedVerdict, CoreVerdict
    <3>3. (\A i \in 1 .. Len(E) : Clean(E, i)) /\ Month \subseteq Months(E) /\ held = packed
      BY <3>2 DEF AcceptedVerdict, AllClean
    <3>4. DOMAIN E = 1 .. Len(E) /\ Len(E) \in Nat
      BY <3>1, LenProperties DEF Sourced, WellSpelt
    <3> HIDE DEF E
    <3>5. Months(E) = Month
      <4>1. 1 \in 1 .. 5  OBVIOUS
      <4>2. \A i \in 1 .. Len(E) : ~GoBreaks(E, i, "month")  BY <3>3, <4>1, RulesAre DEF Clean
      <4>3. \A i \in 1 .. Len(E) : E[i].month \in Month  BY <4>2 DEF GoBreaks
      <4>4. Months(E) \subseteq Month  BY <3>4, <4>3 DEF Months
      <4>5. QED  BY <3>3, <4>4
    <3>6. Distinct(E, GoFold)
      <4>1. 5 \in 1 .. 5  OBVIOUS
      <4>2. \A i \in 1 .. Len(E) : ~GoBreaks(E, i, "duplicate")  BY <3>3, <4>1, RulesAre DEF Clean
      <4>3. \A i \in 1 .. Len(E) : \A j \in 1 .. i - 1 :
               Folded(E[j].name, GoFold) # Folded(E[i].name, GoFold)
        BY <4>2 DEF GoBreaks
      <4>4. ASSUME NEW i \in 1 .. Len(E), NEW j \in 1 .. Len(E), i # j
            PROVE  Folded(E[i].name, GoFold) # Folded(E[j].name, GoFold)
        <5>1. i \in 1 .. j - 1 \/ j \in 1 .. i - 1  BY <3>4, <4>4
        <5>2. QED  BY <4>3, <5>1
      <4>5. QED  BY <3>4, <4>4 DEF Distinct
    <3>7. ASSUME declared # Nothing PROVE E = declared
      <4>1. declared \in Declarations /\ packed = Pack(declared)  BY <3>1, <3>7 DEF Sourced
      <4>2. E = AsPacked(declared) /\ Len(E) = Len(declared)  BY <4>1, DeclaredAreSpelt DEF E
      <4>3. QED  BY <3>3, <4>1, <4>2, CleanReadsBack
    <3>8. QED  BY <3>3, <3>5, <3>6, <3>7 DEF Months, E
  <2>2. crossed \notin {Nothing, Panic} => Crossing(crossed, held)
    BY DEF VocabularyInv, Crossed
  <2>3. QED  BY <2>1, <2>2, Zenon DEF DoorsSendWhatWasDeclared, Crossing
<1>2. QED  BY <1>1, VocabularyInvariant, PTL
===============================================================================
