--------------------------- MODULE NumFormatsProofs ---------------------------
(***************************************************************************)
(* That the binding's two checks of a format, the documentation's rules    *)
(* and the core's check of the bytes laid out agree, for every symbol.     *)
(***************************************************************************)
EXTENDS NumFormats, SequenceLemmas

Piece == DOMAIN Width
Symbol == Seq(Piece)

USE FormatAssumption DEF Piece

(* What a caller holds is a NumFormat and a DateFormat, whatever is done.  *)
FormatTypeOK ==
    /\ DOMAIN f = SymbolFields \cup {"Styles", "DigitZero"}
    /\ f = [field \in DOMAIN f |-> f[field]]
    /\ \A field \in SymbolFields : f[field] \in Symbol
    /\ f.Styles \in StyleSets
    /\ f.DigitZero \in Int

FormatInv == FormatTypeOK /\ BuildersKeepApart

LEMMA ZeroFormatTyped ==
    /\ DOMAIN ZeroFormat = SymbolFields \cup {"Styles", "DigitZero"}
    /\ ZeroFormat = [field \in DOMAIN ZeroFormat |-> ZeroFormat[field]]
    /\ \A field \in SymbolFields : ZeroFormat[field] = <<>>
    /\ ZeroFormat.Styles = {} /\ ZeroFormat.DigitZero = 0
  BY DEF ZeroFormat, SymbolFields

LEMMA InitFormat == Init => FormatInv
<1> SUFFICES ASSUME Init PROVE FormatInv
  OBVIOUS
<1>0. <<>> \in Symbol /\ Dot \in Symbol /\ Comma \in Symbol
  BY DEF Symbol
<1>1. CASE f = ZeroFormat /\ declared = Declare({}, {})
  BY <1>0, <1>1, ZeroFormatTyped
  DEF FormatInv, FormatTypeOK, BuildersKeepApart, Declare, StyleSets, Flags, PolicyBits
<1>2. CASE /\ f = NumFormatOf(ZeroFormat, Dot, Comma, {"grouping"})
           /\ declared = Declare({"western"}, {"grouping"})
  <2>1. /\ DOMAIN f = SymbolFields \cup {"Styles", "DigitZero"}
        /\ f = [field \in DOMAIN f |-> f[field]]
        /\ \A field \in SymbolFields : f[field] \in {<<>>, Dot, Comma}
        /\ f.Styles = {"grouping"} \cup {"western"} /\ f.DigitZero = 0
    BY <1>2, ZeroFormatTyped DEF NumFormatOf, SymbolFields
  <2>2. QED
    BY <1>0, <1>2, <2>1
    DEF FormatInv, FormatTypeOK, BuildersKeepApart, Declare, StyleSets, Flags, PolicyBits
<1>3. QED  BY <1>1, <1>2 DEF Init

LEMMA NextFormat == FormatInv /\ [Next]_vars => FormatInv'
<1> SUFFICES ASSUME FormatInv, [Next]_vars PROVE FormatInv'
  OBVIOUS
<1>0. /\ <<>> \in Symbol /\ Dot \in Symbol /\ Comma \in Symbol /\ Symbols \subseteq Symbol
      /\ \A styles \in StyleSets : styles \subseteq Flags \cup PolicyBits \cup {UndefinedBit}
      /\ Flags \cap PolicyBits = {} /\ UndefinedBit \notin PolicyBits
  BY DEF Symbol, StyleSets, Flags, PolicyBits, UndefinedBit
<1> USE DEF FormatInv, FormatTypeOK
<1>1. ASSUME NEW field \in SymbolFields, NEW symbol \in Symbols, SetSymbol(field, symbol)
      PROVE  FormatInv'
  BY <1>0, <1>1 DEF SetSymbol, Edit, BuildersKeepApart, SymbolFields
<1>2. ASSUME NEW rune \in DigitZeros, SetDigitZero(rune) PROVE FormatInv'
  BY <1>2 DEF SetDigitZero, Edit, BuildersKeepApart, SymbolFields
<1>3. ASSUME NEW styles \in StyleSets, SetStyles(styles) PROVE FormatInv'
  BY <1>3 DEF SetStyles, Edit, BuildersKeepApart, SymbolFields, Declare
<1>4. ASSUME NEW styles \in StyleSets, WithStyles(styles) PROVE FormatInv'
  <2>1. /\ f' = [f EXCEPT !.Styles = (@ \cap PolicyBits) \cup styles]
        /\ declared' = Declare(declared.policy, styles)
        /\ styles \cap PolicyBits = {}
    BY <1>4 DEF WithStyles, Edit, Carry
  <2>2. /\ f'.Styles = (f.Styles \cap PolicyBits) \cup styles
        /\ DOMAIN f' = DOMAIN f /\ f'.DigitZero = f.DigitZero
        /\ f' = [field \in DOMAIN f' |-> f'[field]]
        /\ \A field \in SymbolFields : f'[field] = f[field]
    BY <2>1 DEF SymbolFields
  <2>3. f'.Styles \in StyleSets
    BY <1>0, <2>2 DEF StyleSets
  <2>4. BuildersKeepApart'
    BY <2>1, <2>2 DEF BuildersKeepApart, Declare
  <2>5. QED  BY <2>2, <2>3, <2>4
<1>5. ASSUME NEW styles \in StyleSets, NewNumFormat(Comma, Dot, styles) PROVE FormatInv'
  <2>1. /\ f' = [NumFormatOf(ZeroFormat, Comma, Dot, styles) EXCEPT !.AM = f.AM, !.PM = f.PM]
        /\ declared' = Declare({"western"}, styles)
        /\ styles \cap PolicyBits = {}
    BY <1>5 DEF NewNumFormat, Edit, Carry
  <2>2. /\ DOMAIN f' = SymbolFields \cup {"Styles", "DigitZero"}
        /\ f' = [field \in DOMAIN f' |-> f'[field]]
        /\ \A field \in SymbolFields : f'[field] \in {<<>>, Dot, Comma, f.AM, f.PM}
        /\ f'.Styles = styles \cup {"western"} /\ f'.DigitZero = 0
    BY <2>1, ZeroFormatTyped DEF NumFormatOf, SymbolFields
  <2>3. f'.Styles \in StyleSets
    BY <1>0, <2>2 DEF StyleSets, PolicyBits
  <2>4. BuildersKeepApart'
    BY <2>1, <2>2 DEF BuildersKeepApart, Declare, PolicyBits
  <2>5. f.AM \in Symbol /\ f.PM \in Symbol
    BY DEF SymbolFields
  <2>6. QED  BY <1>0, <2>2, <2>3, <2>4, <2>5
<1>6. ASSUME NEW policy \in SUBSET PolicyBits, WithGrouping(policy) PROVE FormatInv'
  <2>1. /\ f' = [f EXCEPT !.Styles = (@ \ PolicyBits) \cup policy]
        /\ declared' = Declare(policy, declared.flags)
    BY <1>6 DEF WithGrouping, Edit
  <2>2. /\ f'.Styles = (f.Styles \ PolicyBits) \cup policy
        /\ DOMAIN f' = DOMAIN f /\ f'.DigitZero = f.DigitZero
        /\ f' = [field \in DOMAIN f' |-> f'[field]]
        /\ \A field \in SymbolFields : f'[field] = f[field]
    BY <2>1 DEF SymbolFields
  <2>3. f'.Styles \in StyleSets
    BY <1>0, <2>2 DEF StyleSets
  <2>4. BuildersKeepApart'
    BY <2>1, <2>2 DEF BuildersKeepApart, Declare
  <2>5. QED  BY <2>2, <2>3, <2>4
<1>7. CASE NumDoor \/ DateTimeDoor \/ UNCHANGED vars
  BY <1>7 DEF NumDoor, DateTimeDoor, vars, BuildersKeepApart
<1>8. QED  BY <1>1, <1>2, <1>3, <1>4, <1>5, <1>6, <1>7 DEF Next

(* The formats keep their types, and the policy and the flags are those    *)
(* declared last, however long the chain of builders and assignments.      *)
THEOREM FormatInvariant == Spec => []FormatInv
  BY InitFormat, NextFormat, PTL DEF Spec

(* NumFormat.WithGrouping and WithStyles replace one half of Styles and    *)
(* keep the other.                                                         *)
THEOREM BuildersKeepApartHolds == Spec => []BuildersKeepApart
  BY FormatInvariant, PTL DEF FormatInv
-----------------------------------------------------------------------------
(* A symbol's bytes.                                                       *)
ByteOf == Piece \X (1..4)

BytesOf(piece) == [j \in 1 .. Width[piece] |-> <<piece, j>>]

LEMMA PieceBytes ==
    ASSUME NEW piece \in Piece
    PROVE  /\ BytesOf(piece) \in Seq(ByteOf)
           /\ Len(BytesOf(piece)) = Width[piece] /\ Width[piece] \in 1..4
           /\ \A j \in 1 .. Width[piece] : BytesOf(piece)[j] = <<piece, j>>
<1>1. Width[piece] \in 1..4  OBVIOUS
<1>2. BytesOf(piece) \in [1 .. Width[piece] -> ByteOf]
  BY <1>1 DEF BytesOf, ByteOf
<1>3. Width[piece] \in Nat  BY <1>1
<1>4. BytesOf(piece) \in Seq(ByteOf)
  BY <1>2, <1>3, SeqDef
<1>5. DOMAIN BytesOf(piece) = 1 .. Width[piece]  BY DEF BytesOf
<1>6. Len(BytesOf(piece)) = Width[piece]
  BY <1>3, <1>4, <1>5, LenProperties
<1>7. QED  BY <1>1, <1>4, <1>6 DEF BytesOf

(* What the first i pieces of a symbol come to, byte by byte.              *)
Spells(upTo, symbol) ==
    /\ upTo \in [0 .. Len(symbol) -> Seq(ByteOf)]
    /\ upTo[0] = <<>>
    /\ \A i \in 1 .. Len(symbol) : upTo[i] = upTo[i - 1] \o BytesOf(symbol[i])
    /\ Bytes(symbol) = upTo[Len(symbol)]

LEMMA BytesUnfold ==
    ASSUME NEW symbol \in Symbol
    PROVE  \E upTo : Spells(upTo, symbol)
<1> DEFINE seqs == [i \in DOMAIN symbol |-> BytesOf(symbol[i])]
<1>1. Len(symbol) \in Nat /\ DOMAIN symbol = 1 .. Len(symbol)
  BY LenProperties DEF Symbol
<1>2. \A i \in 1 .. Len(symbol) : symbol[i] \in Piece
  BY ElementOfSeq DEF Symbol
<1>3. seqs \in [1 .. Len(symbol) -> Seq(ByteOf)]
  BY <1>1, <1>2, PieceBytes
<1>4. seqs \in Seq(Seq(ByteOf))
  BY <1>1, <1>3, SeqDef
<1>5. Len(seqs) = Len(symbol)
  <2>1. DOMAIN seqs = 1 .. Len(symbol)  BY <1>1
  <2> HIDE DEF seqs
  <2>2. QED  BY <1>1, <1>4, <2>1, LenProperties
<1>6. Bytes(symbol) = FlattenSeq(seqs)
  BY DEF Bytes, BytesOf
<1>7. \A i \in 1 .. Len(symbol) : seqs[i] = BytesOf(symbol[i])
  BY <1>1
<1> HIDE DEF seqs
<1>8. PICK upTo \in [0 .. Len(seqs) -> Seq(ByteOf)] :
         /\ upTo[0] = <<>>
         /\ \A i \in 1 .. Len(seqs) : upTo[i] = upTo[i - 1] \o seqs[i]
         /\ FlattenSeq(seqs) = upTo[Len(seqs)]
  BY <1>4, FlattenUnfolds
<1>9. QED  BY <1>5, <1>6, <1>7, <1>8 DEF Spells

(* One piece more: its bytes follow those of the pieces before it.         *)
Grows(before, after, piece) ==
    /\ after \in Seq(ByteOf) /\ before \in Seq(ByteOf)
    /\ Len(before) \in Nat
    /\ Len(after) = Len(before) + Width[piece]
    /\ Width[piece] \in 1..4 /\ piece \in Piece
    /\ \A j \in 1 .. Len(before) : after[j] = before[j]
    /\ \A j \in 1 .. Width[piece] : after[Len(before) + j] = <<piece, j>>

LEMMA OnePieceMore ==
    ASSUME NEW symbol \in Symbol, NEW upTo, Spells(upTo, symbol), NEW i \in 1 .. Len(symbol)
    PROVE  Grows(upTo[i - 1], upTo[i], symbol[i])
<1>1. Len(symbol) \in Nat  BY LenProperties DEF Symbol
<1>2. upTo[i] \in Seq(ByteOf) /\ upTo[i - 1] \in Seq(ByteOf)
  <2>1. i \in 0 .. Len(symbol) /\ i - 1 \in 0 .. Len(symbol)  BY <1>1
  <2>2. upTo \in [0 .. Len(symbol) -> Seq(ByteOf)]  BY DEF Spells
  <2>3. QED  BY <2>1, <2>2
<1>3. symbol[i] \in Piece  BY ElementOfSeq DEF Symbol
<1> DEFINE rest == BytesOf(symbol[i])
<1>4. /\ rest \in Seq(ByteOf) /\ Len(rest) = Width[symbol[i]] /\ Width[symbol[i]] \in 1..4
      /\ \A j \in 1 .. Width[symbol[i]] : rest[j] = <<symbol[i], j>>
  BY <1>3, PieceBytes
<1>5. upTo[i] = upTo[i - 1] \o rest  BY DEF Spells
<1> DEFINE before == upTo[i - 1]
           w == Width[symbol[i]]
<1> HIDE DEF rest, w, before
<1>6. /\ before \in Seq(ByteOf) /\ upTo[i] = before \o rest /\ Len(rest) = w /\ w \in 1..4
      /\ \A j \in 1 .. w : rest[j] = <<symbol[i], j>>
  BY <1>2, <1>4, <1>5 DEF before, w
<1>7. Len(before) \in Nat  BY <1>6, LenProperties
<1>8. /\ Len(upTo[i]) = Len(before) + w
      /\ \A j \in 1 .. Len(before) + w :
            upTo[i][j] = IF j <= Len(before) THEN before[j] ELSE rest[j - Len(before)]
  BY <1>4, <1>6, ConcatProperties
<1>9. \A j \in 1 .. Len(before) : upTo[i][j] = before[j]
  BY <1>6, <1>7, <1>8
<1>10. ASSUME NEW j \in 1 .. w PROVE upTo[i][Len(before) + j] = <<symbol[i], j>>
  <2>1. /\ Len(before) + j \in 1 .. Len(before) + w /\ ~(Len(before) + j <= Len(before))
        /\ (Len(before) + j) - Len(before) = j
    BY <1>6, <1>7
  <2>2. upTo[i][Len(before) + j] = rest[(Len(before) + j) - Len(before)]
    BY <1>8, <2>1
  <2>3. QED  BY <1>6, <2>1, <2>2
<1>11. QED  BY <1>2, <1>3, <1>6, <1>7, <1>8, <1>9, <1>10 DEF before, w, Grows

(* Each byte is of a piece of the symbol, each piece has its bytes, the    *)
(* first byte is the first piece's, and there are at least as many bytes   *)
(* as pieces.                                                              *)
SpellsOf(symbol, bytes, i) ==
    /\ Len(bytes) >= i
    /\ \A k \in 1 .. Len(bytes) : \E j \in 1 .. i : bytes[k][1] = symbol[j]
    /\ \A j \in 1 .. i : \E k \in 1 .. Len(bytes) : bytes[k][1] = symbol[j]
    /\ i # 0 => bytes[1][1] = symbol[1]

LEMMA OnePieceMoreSpelt ==
    ASSUME NEW symbol \in Symbol, NEW upTo, Spells(upTo, symbol), NEW i \in 1 .. Len(symbol),
           SpellsOf(symbol, upTo[i - 1], i - 1)
    PROVE  SpellsOf(symbol, upTo[i], i)
<1> DEFINE before == upTo[i - 1]
           after == upTo[i]
           m == Len(before)
           w == Width[symbol[i]]
<1>1. /\ after \in Seq(ByteOf) /\ before \in Seq(ByteOf)
      /\ m \in Nat /\ Len(after) = m + w /\ w \in 1..4
      /\ \A j \in 1 .. m : after[j] = before[j]
      /\ \A j \in 1 .. w : after[m + j] = <<symbol[i], j>>
  <2>1. Grows(before, after, symbol[i])  BY OnePieceMore
  <2>2. QED  BY <2>1 DEF Grows
<1>2. SpellsOf(symbol, before, i - 1)
  OBVIOUS
<1>3. i \in Nat \ {0}
  <2>1. Len(symbol) \in Nat  BY LenProperties DEF Symbol
  <2>2. QED  BY <2>1
<1>m. m = Len(before)  OBVIOUS
<1> HIDE DEF before, after, w, m
<1>4. after[m + 1][1] = symbol[i] /\ m + 1 \in 1 .. m + w
  BY <1>1
<1>5. Len(after) >= i
  BY <1>1, <1>2, <1>3, <1>m DEF SpellsOf
<1>6. ASSUME NEW k \in 1 .. Len(after) PROVE \E j \in 1 .. i : after[k][1] = symbol[j]
  <2>1. CASE k \in 1 .. m
    <3>1. PICK j \in 1 .. i - 1 : before[k][1] = symbol[j]  BY <1>2, <1>m, <2>1 DEF SpellsOf
    <3>2. j \in 1 .. i  BY <1>3
    <3>3. QED  BY <1>1, <2>1, <3>1, <3>2
  <2>2. CASE k \notin 1 .. m
    <3>1. k - m \in 1 .. w /\ m + (k - m) = k  BY <1>1, <2>2
    <3>2. after[k] = <<symbol[i], k - m>>  BY <1>1, <3>1
    <3>3. i \in 1 .. i  BY <1>3
    <3>4. QED  BY <3>2, <3>3
  <2>3. QED  BY <2>1, <2>2
<1>7. ASSUME NEW j \in 1 .. i PROVE \E k \in 1 .. Len(after) : after[k][1] = symbol[j]
  <2>1. CASE j = i
    BY <1>1, <1>4, <2>1
  <2>2. CASE j # i
    <3>1. j \in 1 .. i - 1  BY <1>3, <2>2
    <3>2. PICK k \in 1 .. m : before[k][1] = symbol[j]  BY <1>2, <1>m, <3>1 DEF SpellsOf
    <3>3. k \in 1 .. Len(after) /\ after[k] = before[k]  BY <1>1, <1>m, SMTT(30)
    <3>4. QED  BY <1>m, <3>2, <3>3
  <2>3. QED  BY <2>1, <2>2
<1>8. after[1][1] = symbol[1]
  <2>1. CASE i = 1
    <3>1. m = 0
      <4>1. before = <<>>  BY <2>1 DEF Spells, before
      <4>2. QED  BY <1>m, <4>1
    <3>2. QED  BY <1>4, <2>1, <3>1
  <2>2. CASE i # 1
    <3>1. i - 1 # 0 /\ m >= i - 1 /\ before[1][1] = symbol[1]
      BY <1>2, <1>3, <1>m, <2>2 DEF SpellsOf
    <3>2. 1 \in 1 .. m  BY <1>1, <1>3, <3>1
    <3>3. QED  BY <1>1, <3>1, <3>2
  <2>3. QED  BY <2>1, <2>2
<1>9. SpellsOf(symbol, after, i)
  BY <1>5, <1>6, <1>7, <1>8 DEF SpellsOf
<1>10. QED  BY <1>9 DEF after

LEMMA AllSpelt ==
    ASSUME NEW symbol \in Symbol, NEW upTo, Spells(upTo, symbol)
    PROVE  \A i \in 0 .. Len(symbol) : SpellsOf(symbol, upTo[i], i)
<1> DEFINE n == Len(symbol)
           S == { i \in Nat : i <= n => SpellsOf(symbol, upTo[i], i) }
<1>1. n \in Nat  BY LenProperties DEF Symbol
<1>2. 0 \in S
  BY DEF SpellsOf, Spells
<1>3. ASSUME NEW i \in S PROVE i + 1 \in S
  <2>1. i \in Nat /\ (i <= n => SpellsOf(symbol, upTo[i], i))  OBVIOUS
  <2> HIDE DEF S
  <2>2. ASSUME i + 1 <= n PROVE SpellsOf(symbol, upTo[i + 1], i + 1)
    <3>1. i + 1 \in 1 .. n /\ (i + 1) - 1 = i /\ i <= n  BY <1>1, <2>1, <2>2
    <3>2. SpellsOf(symbol, upTo[(i + 1) - 1], (i + 1) - 1)  BY <2>1, <3>1
    <3>3. QED  BY <3>1, <3>2, OnePieceMoreSpelt
  <2>3. QED  BY <2>1, <2>2 DEF S
<1>4. S = Nat
  <2> HIDE DEF S
  <2>1. S \subseteq Nat  BY DEF S
  <2>2. QED  BY <1>2, <1>3, <2>1, NatInd
<1>5. QED  BY <1>1, <1>4

(* What a symbol's bytes tell of it.                                       *)
LEMMA BytesTell ==
    ASSUME NEW symbol \in Symbol
    PROVE  /\ Bytes(symbol) \in Seq(ByteOf) /\ Len(Bytes(symbol)) \in Nat
           /\ Len(Bytes(symbol)) >= Len(symbol) /\ Len(symbol) \in Nat
           /\ Len(Bytes(symbol)) = 0 <=> symbol = <<>>
           /\ Pieces(Bytes(symbol)) = Range(symbol)
           /\ symbol # <<>> =>
                 /\ Bytes(symbol)[1][1] = Head(symbol)
                 /\ Bytes(symbol)[Len(Bytes(symbol))] = <<Last(symbol), Width[Last(symbol)]>>
           /\ Len(Bytes(symbol)) = 1 => Len(symbol) = 1 /\ Width[symbol[1]] = 1
<1> DEFINE n == Len(symbol)
           bytes == Bytes(symbol)
<1>1. n \in Nat /\ DOMAIN symbol = 1 .. n
  BY LenProperties DEF Symbol
<1>2. PICK upTo : Spells(upTo, symbol)  BY BytesUnfold
<1>3. bytes = upTo[n] /\ upTo[n] \in Seq(ByteOf) /\ SpellsOf(symbol, upTo[n], n)
  <2>1. n \in 0 .. n  BY <1>1
  <2>2. upTo \in [0 .. n -> Seq(ByteOf)] /\ bytes = upTo[n]  BY <1>2 DEF Spells
  <2>3. QED  BY <1>2, <2>1, <2>2, AllSpelt
<1>4. bytes \in Seq(ByteOf) /\ Len(bytes) \in Nat /\ DOMAIN bytes = 1 .. Len(bytes)
  BY <1>3, LenProperties
<1>5. n = 0 <=> symbol = <<>>
  BY EmptySeq DEF Symbol
<1>6. n = 0 => Len(bytes) = 0
  BY <1>2, <1>3 DEF Spells
<1>7. Len(bytes) >= n
  BY <1>3 DEF SpellsOf
<1>8. Pieces(bytes) = Range(symbol)
  <2>1. /\ \A k \in 1 .. Len(bytes) : \E j \in 1 .. n : bytes[k][1] = symbol[j]
        /\ \A j \in 1 .. n : \E k \in 1 .. Len(bytes) : bytes[k][1] = symbol[j]
    BY <1>3 DEF SpellsOf
  <2> HIDE DEF bytes
  <2>2. ASSUME NEW p \in Pieces(bytes) PROVE p \in Range(symbol)
    <3>1. PICK k \in 1 .. Len(bytes) : p = bytes[k][1]  BY <1>4, Zenon DEF Pieces
    <3>2. PICK j \in 1 .. n : bytes[k][1] = symbol[j]  BY <2>1
    <3>3. QED  BY <1>1, <3>1, <3>2, Zenon DEF Range
  <2>3. ASSUME NEW p \in Range(symbol) PROVE p \in Pieces(bytes)
    <3>1. PICK j \in 1 .. n : p = symbol[j]  BY <1>1, Zenon DEF Range
    <3>2. PICK k \in 1 .. Len(bytes) : bytes[k][1] = symbol[j]  BY <2>1
    <3>3. QED  BY <1>4, <3>1, <3>2, Zenon DEF Pieces
  <2>4. QED  BY <2>2, <2>3
<1>9. ASSUME n # 0
      PROVE  /\ bytes[1][1] = symbol[1]
             /\ bytes[Len(bytes)] = <<symbol[n], Width[symbol[n]]>>
             /\ Len(bytes) = 1 => n = 1 /\ Width[symbol[n]] = 1
  <2>1. bytes[1][1] = symbol[1]  BY <1>3, <1>9 DEF SpellsOf
  <2> DEFINE m == Len(upTo[n - 1])
             w == Width[symbol[n]]
  <2>2. n \in 1 .. n /\ n - 1 \in 0 .. n  BY <1>1, <1>9
  <2>3. /\ m \in Nat /\ Len(bytes) = m + w /\ w \in 1..4
        /\ \A j \in 1 .. w : bytes[m + j] = <<symbol[n], j>>
    <3>1. Grows(upTo[n - 1], upTo[n], symbol[n])  BY <1>2, <2>2, OnePieceMore
    <3>2. bytes = upTo[n]  BY <1>3
    <3> HIDE DEF bytes
    <3>3. QED  BY <3>1, <3>2 DEF Grows
  <2>4. m >= n - 1
    <3>1. SpellsOf(symbol, upTo[n - 1], n - 1)  BY <1>2, <2>2, AllSpelt
    <3>2. QED  BY <3>1 DEF SpellsOf
  <2> DEFINE l == Len(bytes)
  <2>l. l = m + w  BY <2>3
  <2> HIDE DEF m, w, bytes, l, n
  <2>5. w \in 1 .. w  BY <2>3
  <2>6. bytes[Len(bytes)] = <<symbol[n], w>>  BY <2>3, <2>5
  <2>7. l = 1 => n = 1 /\ w = 1  BY <1>1, <1>9, <2>3, <2>4, <2>l
  <2>8. QED  BY <2>1, <2>6, <2>7 DEF w, l
<1>10. symbol # <<>> => Head(symbol) = symbol[1] /\ Last(symbol) = symbol[n]
  BY DEF Symbol, Last
<1> HIDE DEF bytes
<1>11. Len(bytes) = 1 => n = 1 /\ Width[symbol[1]] = 1
  <2>1. ASSUME Len(bytes) = 1 PROVE n = 1 /\ Width[symbol[1]] = 1
    <3>1. n # 0  BY <1>6, <2>1
    <3>2. n = 1 /\ Width[symbol[n]] = 1  BY <1>9, <2>1, <3>1
    <3>3. QED  BY <3>2
  <2>2. QED  BY <2>1
<1>12. Len(bytes) = 0 <=> symbol = <<>>  BY <1>1, <1>4, <1>5, <1>6, <1>7
<1>13. symbol # <<>> => /\ bytes[1][1] = Head(symbol)
                        /\ bytes[Len(bytes)] = <<Last(symbol), Width[Last(symbol)]>>
  BY <1>5, <1>9, <1>10
<1>14. QED  BY <1>1, <1>4, <1>7, <1>8, <1>11, <1>12, <1>13 DEF bytes

(* Two symbols spelled alike are one: their last bytes say whose pieces    *)
(* they end in, and so on backwards.                                       *)
LEMMA SpelledAlike ==
    ASSUME NEW s \in Symbol, NEW t \in Symbol, NEW ofS, Spells(ofS, s), NEW ofT, Spells(ofT, t),
           NEW i \in 1 .. Len(s), NEW j \in 1 .. Len(t), ofS[i] = ofT[j]
    PROVE  s[i] = t[j] /\ ofS[i - 1] = ofT[j - 1]
<1> DEFINE bytes == ofS[i]
           a == ofS[i - 1]
           b == ofT[j - 1]
           la == Len(a)
           lb == Len(b)
           wa == Width[s[i]]
           wb == Width[t[j]]
<1>1. /\ a \in Seq(ByteOf) /\ la \in Nat /\ Len(bytes) = la + wa /\ wa \in 1..4
      /\ \A k \in 1 .. la : bytes[k] = a[k]
      /\ \A k \in 1 .. wa : bytes[la + k] = <<s[i], k>>
  <2>1. Grows(a, bytes, s[i])  BY OnePieceMore
  <2>2. QED  BY <2>1 DEF Grows
<1>2. /\ b \in Seq(ByteOf) /\ lb \in Nat /\ Len(bytes) = lb + wb /\ wb \in 1..4
      /\ \A k \in 1 .. lb : bytes[k] = b[k]
      /\ \A k \in 1 .. wb : bytes[lb + k] = <<t[j], k>>
  <2>1. Grows(b, bytes, t[j])  BY OnePieceMore
  <2>2. QED  BY <2>1 DEF Grows
<1>3. s[i] = t[j] => wa = wb
  OBVIOUS
<1>4. la = Len(a) /\ lb = Len(b)
  OBVIOUS
<1> HIDE DEF bytes, a, b, la, lb, wa, wb
<1>5. bytes[la + wa] = <<s[i], wa>> /\ bytes[lb + wb] = <<t[j], wb>> /\ la + wa = lb + wb
  <2>1. wa \in 1 .. wa /\ wb \in 1 .. wb  BY <1>1, <1>2
  <2>2. bytes[la + wa] = <<s[i], wa>>  BY <1>1, <2>1
  <2>3. bytes[lb + wb] = <<t[j], wb>>  BY <1>2, <2>1
  <2>4. la + wa = lb + wb  BY <1>1, <1>2
  <2>5. QED  BY <2>2, <2>3, <2>4
<1>6. s[i] = t[j]
  BY <1>5
<1>7. la = lb
  BY <1>1, <1>2, <1>3, <1>5, <1>6
<1>8. \A k \in 1 .. Len(a) : a[k] = b[k]
  BY <1>1, <1>2, <1>4, <1>7
<1>9. a = b
  BY <1>1, <1>2, <1>4, <1>7, <1>8, SeqEqual
<1>10. QED  BY <1>6, <1>9 DEF a, b

LEMMA SpelledApart ==
    ASSUME NEW s \in Symbol, NEW t \in Symbol, NEW ofS, Spells(ofS, s), NEW ofT, Spells(ofT, t)
    PROVE  \A i \in 0 .. Len(s), j \in 0 .. Len(t) :
              ofS[i] = ofT[j] => i = j /\ \A l \in 1 .. i : s[l] = t[l]
<1> DEFINE m == Len(s)
           n == Len(t)
           Alike(i, j) == i = j /\ \A l \in 1 .. i : s[l] = t[l]
           S == { i \in Nat : i <= m => \A j \in 0 .. n : ofS[i] = ofT[j] => Alike(i, j) }
<1>1. m \in Nat /\ n \in Nat  BY LenProperties DEF Symbol
<1>2. /\ \A i \in 0 .. m : Len(ofS[i]) >= i
      /\ \A j \in 0 .. n : Len(ofT[j]) >= j
  BY AllSpelt DEF SpellsOf
<1>3. ofS[0] = <<>> /\ ofT[0] = <<>> /\ Len(ofS[0]) = 0 /\ Len(ofT[0]) = 0
  BY DEF Spells
<1>4. 0 \in S
  <2>1. ASSUME NEW j \in 0 .. n, ofS[0] = ofT[j] PROVE Alike(0, j)
    <3>1. Len(ofT[j]) = 0  BY <1>3, <2>1
    <3>2. j = 0  BY <1>1, <1>2, <3>1
    <3>3. QED  BY <3>2
  <2>2. QED  BY <2>1
<1>5. ASSUME NEW i \in S PROVE i + 1 \in S
  <2>1. i \in Nat /\ (i <= m => \A j \in 0 .. n : ofS[i] = ofT[j] => Alike(i, j))  OBVIOUS
  <2> HIDE DEF S
  <2>2. ASSUME i + 1 <= m, NEW j \in 0 .. n, ofS[i + 1] = ofT[j] PROVE Alike(i + 1, j)
    <3>1. i + 1 \in 1 .. m /\ i + 1 \in 0 .. m /\ i <= m /\ (i + 1) - 1 = i
      BY <1>1, <2>1, <2>2
    <3>2. j # 0
      <4>1. Len(ofS[i + 1]) >= i + 1  BY <1>2, <3>1
      <4>2. ASSUME j = 0 PROVE FALSE
        <5>1. Len(ofS[i + 1]) = 0  BY <1>3, <2>2, <4>2
        <5>2. QED  BY <2>1, <4>1, <5>1
      <4>3. QED  BY <4>2
    <3>3. j \in 1 .. n /\ j - 1 \in 0 .. n  BY <1>1, <3>2
    <3>4. s[i + 1] = t[j] /\ ofS[(i + 1) - 1] = ofT[j - 1]
      BY <2>2, <3>1, <3>3, SpelledAlike
    <3>5. Alike(i, j - 1)  BY <2>1, <3>1, <3>3, <3>4
    <3>6. i + 1 = j  BY <1>1, <2>1, <3>3, <3>5
    <3>7. ASSUME NEW l \in 1 .. i + 1 PROVE s[l] = t[l]
      <4>1. CASE l = i + 1  BY <3>4, <3>6, <4>1
      <4>2. CASE l # i + 1
        <5>1. l \in 1 .. i  BY <2>1, <4>2
        <5>2. QED  BY <3>5, <5>1
      <4>3. QED  BY <4>1, <4>2
    <3>8. QED  BY <3>6, <3>7
  <2>3. i + 1 \in Nat  BY <2>1
  <2> HIDE DEF Alike
  <2>4. QED  BY <2>2, <2>3 DEF S
<1>6. S = Nat
  <2> HIDE DEF S
  <2>1. S \subseteq Nat  BY DEF S
  <2>2. QED  BY <1>4, <1>5, <2>1, NatInd
<1>7. ASSUME NEW i \in 0 .. m PROVE i \in S /\ i <= m
  BY <1>1, <1>6
<1> HIDE DEF Alike
<1>8. \A i \in 0 .. m : \A j \in 0 .. n : ofS[i] = ofT[j] => Alike(i, j)
  BY <1>7
<1>9. QED  BY <1>8 DEF Alike

(* What the core compares are bytes, what the binding compares symbols.    *)
LEMMA BytesTellApart ==
    ASSUME NEW s \in Symbol, NEW t \in Symbol
    PROVE  Bytes(s) = Bytes(t) <=> s = t
<1> SUFFICES ASSUME Bytes(s) = Bytes(t) PROVE s = t
  OBVIOUS
<1>1. PICK ofS : Spells(ofS, s)  BY BytesUnfold
<1>2. PICK ofT : Spells(ofT, t)  BY BytesUnfold
<1>3. Len(s) \in Nat /\ Len(t) \in Nat /\ s \in Seq(Piece) /\ t \in Seq(Piece)
  BY LenProperties DEF Symbol
<1>4. ofS[Len(s)] = ofT[Len(t)]  BY <1>1, <1>2 DEF Spells
<1>5. Len(s) \in 0 .. Len(s) /\ Len(t) \in 0 .. Len(t)  BY <1>3
<1>6. Len(s) = Len(t) /\ \A l \in 1 .. Len(s) : s[l] = t[l]
  BY <1>1, <1>2, <1>4, <1>5, SpelledApart
<1>7. QED  BY <1>3, <1>6, SeqEqual
-----------------------------------------------------------------------------
(* What a symbol must be, whichever of the checks is asked.                *)
Allowed(symbol, capacity, space) ==
    /\ Len(Bytes(symbol)) <= capacity
    /\ BadPiece \notin Range(symbol) /\ DigitPiece \notin Range(symbol)
    /\ space = "nowhere" => ~HasWhiteSpace(symbol)
    /\ space = "edges" => ~WhiteSpaceAtAnEdge(symbol)

Capacity == 1 .. ByteValues - 1
Spaces == {"anywhere", "nowhere", "edges"}

LEMMA EmptySymbol ==
    /\ <<>> \in Symbol /\ Range(<<>>) = {} /\ Len(Bytes(<<>>)) = 0
    /\ \A capacity \in Capacity, space \in Spaces : Allowed(<<>>, capacity, space)
<1>1. <<>> \in Symbol  BY DEF Symbol
<1>2. Range(<<>>) = {}  BY DEF Range
<1>3. Len(Bytes(<<>>)) = 0  BY <1>1, BytesTell
<1>4. ~HasWhiteSpace(<<>>) /\ ~WhiteSpaceAtAnEdge(<<>>)
  BY <1>2 DEF HasWhiteSpace, WhiteSpaceAtAnEdge
<1>5. QED  BY <1>1, <1>2, <1>3, <1>4 DEF Allowed, Capacity

LEMMA SymbolRange ==
    ASSUME NEW symbol \in Symbol
    PROVE  /\ Len(symbol) \in Nat /\ DOMAIN symbol = 1 .. Len(symbol)
           /\ Range(symbol) \subseteq Piece
           /\ \A i \in 1 .. Len(symbol) : symbol[i] \in Range(symbol)
           /\ \A piece \in Range(symbol) : \E i \in 1 .. Len(symbol) : piece = symbol[i]
           /\ symbol # <<>> => /\ Len(symbol) # 0
                              /\ Head(symbol) = symbol[1] /\ Last(symbol) = symbol[Len(symbol)]
                              /\ Head(symbol) \in Range(symbol) /\ Last(symbol) \in Range(symbol)
<1>1. Len(symbol) \in Nat /\ DOMAIN symbol = 1 .. Len(symbol)
  BY LenProperties DEF Symbol
<1>2. \A i \in 1 .. Len(symbol) : symbol[i] \in Range(symbol)
  BY <1>1, Zenon DEF Range
<1>3. \A piece \in Range(symbol) : \E i \in 1 .. Len(symbol) : piece = symbol[i]
  BY <1>1, Zenon DEF Range
<1>4. \A i \in 1 .. Len(symbol) : symbol[i] \in Piece
  BY ElementOfSeq DEF Symbol
<1>5. symbol # <<>> => Len(symbol) # 0
  BY EmptySeq DEF Symbol
<1>6. symbol # <<>> => Head(symbol) = symbol[1] /\ Last(symbol) = symbol[Len(symbol)]
  BY DEF Symbol, Last
<1>7. symbol # <<>> => Head(symbol) \in Range(symbol) /\ Last(symbol) \in Range(symbol)
  BY <1>1, <1>2, <1>5, <1>6
<1>8. QED  BY <1>1, <1>2, <1>3, <1>4, <1>5, <1>6, <1>7

(* The fast check of a symbol refuses what is not allowed: the one byte it *)
(* decides inline is a whole code point.                                   *)
LEMMA OneByteIsAllowed ==
    ASSUME NEW symbol \in Symbol, Len(Bytes(symbol)) = 1,
           NEW capacity \in Capacity, NEW space \in Spaces
    PROVE  SymbolOK(symbol, capacity, space) <=> Allowed(symbol, capacity, space)
<1>1. Len(symbol) = 1 /\ Width[symbol[1]] = 1 /\ symbol # <<>>
  BY BytesTell
<1>2. Range(symbol) = {symbol[1]} /\ symbol[1] \in Piece /\ DOMAIN symbol = {1}
  BY <1>1, SymbolRange
<1>3. Head(symbol) = symbol[1] /\ Last(symbol) = symbol[1]
  BY <1>1, SymbolRange
<1>4. symbol[1] \notin WideSpaces
  BY <1>1, <1>2
<1>5. Ascii(symbol) <=> symbol[1] # BadPiece
  BY <1>1, <1>2 DEF Ascii
<1>6. HasWhiteSpace(symbol) <=> symbol[1] \in AsciiSpaces
  BY <1>2, <1>4 DEF HasWhiteSpace, WhiteSpace
<1>7. WhiteSpaceAtAnEdge(symbol) <=> symbol[1] \in AsciiSpaces
  BY <1>1, <1>3, <1>4 DEF WhiteSpaceAtAnEdge, WhiteSpace
<1>8. 1 <= capacity
  BY DEF Capacity
<1>9. QED
  BY <1>2, <1>5, <1>6, <1>7, <1>8 DEF SymbolOK, Allowed, Spaces

LEMMA SlowIsAllowed ==
    ASSUME NEW symbol \in Symbol, NEW capacity \in Capacity, NEW space \in Spaces
    PROVE  SymbolOKSlow(symbol, capacity, space) <=> Allowed(symbol, capacity, space)
<1>1. ASSUME Ascii(symbol)
      PROVE  BadPiece \notin Range(symbol) /\ Range(symbol) \cap WideSpaces = {}
  BY <1>1, SymbolRange DEF Ascii
<1>2. HasWhiteSpace(symbol) <=>
         Range(symbol) \cap AsciiSpaces # {} \/ Range(symbol) \cap WideSpaces # {}
  BY DEF HasWhiteSpace, WhiteSpace
<1>3. QED  BY <1>1, <1>2 DEF SymbolOKSlow, Allowed, ValidString

LEMMA SymbolOKIsAllowed ==
    ASSUME NEW symbol \in Symbol, NEW capacity \in Capacity, NEW space \in Spaces
    PROVE  SymbolOK(symbol, capacity, space) <=> Allowed(symbol, capacity, space)
<1>1. CASE Len(Bytes(symbol)) = 1
  BY <1>1, OneByteIsAllowed
<1>2. CASE Len(Bytes(symbol)) # 1
  BY <1>2, SlowIsAllowed, EmptySymbol DEF SymbolOK
<1>3. QED  BY <1>1, <1>2

(* FirstFault finds nothing exactly when there is nothing to find.         *)
LEMMA FirstFaultFinds ==
    ASSUME NEW faults, DOMAIN faults \subseteq Nat
    PROVE  FirstFault(faults) = Nothing <=> \A i \in DOMAIN faults : faults[i] = Nothing
<1> DEFINE found == { i \in DOMAIN faults : faults[i] # Nothing }
<1>1. FirstFault(faults) = IF found = {} THEN Nothing ELSE faults[Min(found)]
  BY DEF FirstFault
<1>2. found # {} => Min(found) \in found
  <2>1. found \subseteq Nat  OBVIOUS
  <2> HIDE DEF found
  <2>2. QED  BY <2>1, MinIsLeast
<1>3. \A i \in found : faults[i] # Nothing
  OBVIOUS
<1>4. found = {} <=> \A i \in DOMAIN faults : faults[i] = Nothing
  OBVIOUS
<1> HIDE DEF found
<1>5. QED  BY <1>1, <1>2, <1>3, <1>4

LEMMA FaultNames ==
    ASSUME NEW rule \in FaultRules, NEW refused
    PROVE  Fault(refused, rule) = Nothing <=> ~refused
  BY FaultAssumption DEF Fault

LEMMA RulesNamed ==
    /\ "length" \in FaultRules /\ "UTF-8" \in FaultRules /\ "digit" \in FaultRules
    /\ "white space" \in FaultRules /\ "white space at an edge" \in FaultRules
    /\ "no policy" \in FaultRules /\ "undefined bits" \in FaultRules /\ "undeclared" \in FaultRules
    /\ "equal" \in FaultRules /\ "currency equal" \in FaultRules /\ "digit zero" \in FaultRules
  BY Zenon DEF FaultRules

LEMMA SymbolFaultIsNotAllowed ==
    ASSUME NEW symbol \in Symbol, NEW capacity \in Capacity, NEW space \in Spaces
    PROVE  SymbolFault(symbol, capacity, space) = Nothing <=> Allowed(symbol, capacity, space)
<1> DEFINE faults == <<
        Fault(Len(Bytes(symbol)) > capacity, "length"),
        Fault(~ValidString(symbol), "UTF-8"),
        Fault(DigitPiece \in Range(symbol), "digit"),
        IF space = "nowhere" THEN WhiteSpaceFault(symbol) ELSE Nothing,
        IF space = "edges" THEN EdgeFault(symbol) ELSE Nothing >>
<1>1. SymbolFault(symbol, capacity, space) = FirstFault(faults)
  BY DEF SymbolFault
<1>2. DOMAIN faults = 1..5
  OBVIOUS
<1>3. /\ faults[1] = Nothing <=> Len(Bytes(symbol)) <= capacity
      /\ faults[2] = Nothing <=> BadPiece \notin Range(symbol)
      /\ faults[3] = Nothing <=> DigitPiece \notin Range(symbol)
      /\ faults[4] = Nothing <=> (space = "nowhere" => ~HasWhiteSpace(symbol))
      /\ faults[5] = Nothing <=> (space = "edges" => ~WhiteSpaceAtAnEdge(symbol))
  <2>1. Len(Bytes(symbol)) \in Nat /\ capacity \in Nat  BY BytesTell DEF Capacity
  <2>2. ~(Len(Bytes(symbol)) > capacity) <=> Len(Bytes(symbol)) <= capacity
    BY <2>1
  <2>3. /\ Fault(Len(Bytes(symbol)) > capacity, "length") = Nothing
              <=> ~(Len(Bytes(symbol)) > capacity)
        /\ Fault(~ValidString(symbol), "UTF-8") = Nothing <=> ~~ValidString(symbol)
        /\ Fault(DigitPiece \in Range(symbol), "digit") = Nothing <=> ~(DigitPiece \in Range(symbol))
        /\ WhiteSpaceFault(symbol) = Nothing <=> ~HasWhiteSpace(symbol)
        /\ EdgeFault(symbol) = Nothing <=> ~WhiteSpaceAtAnEdge(symbol)
    BY RulesNamed, FaultNames, Zenon DEF WhiteSpaceFault, EdgeFault
  <2>4. /\ faults[1] = Fault(Len(Bytes(symbol)) > capacity, "length")
        /\ faults[2] = Fault(~ValidString(symbol), "UTF-8")
        /\ faults[3] = Fault(DigitPiece \in Range(symbol), "digit")
        /\ faults[4] = IF space = "nowhere" THEN WhiteSpaceFault(symbol) ELSE Nothing
        /\ faults[5] = IF space = "edges" THEN EdgeFault(symbol) ELSE Nothing
    OBVIOUS
  <2> HIDE DEF faults
  <2>5. QED  BY <2>2, <2>3, <2>4, Zenon DEF ValidString
<1>4. (\A i \in 1..5 : faults[i] = Nothing) <=>
        /\ faults[1] = Nothing /\ faults[2] = Nothing /\ faults[3] = Nothing
        /\ faults[4] = Nothing /\ faults[5] = Nothing
  <2> HIDE DEF faults
  <2>1. QED  OBVIOUS
<1> HIDE DEF faults
<1>5. FirstFault(faults) = Nothing <=> \A i \in 1..5 : faults[i] = Nothing
  BY <1>2, FirstFaultFinds
<1>6. QED  BY <1>1, <1>3, <1>4, <1>5 DEF Allowed
-----------------------------------------------------------------------------
(* Through its slot the core sees a symbol's own bytes, if they fit.       *)
LEMMA LengthTold ==
    ASSUME NEW symbol \in Symbol, NEW capacity \in Capacity, Len(Bytes(symbol)) < ByteValues
    PROVE  Laid(symbol, capacity).Len = Len(Bytes(symbol))
<1> DEFINE n == Len(Bytes(symbol))
<1>1. n \in Nat /\ ByteValues \in Nat  BY BytesTell
<1>2. Laid(symbol, capacity).Len = n % ByteValues  BY DEF Laid
<1>3. n < ByteValues  OBVIOUS
<1> HIDE DEF n
<1>4. n % ByteValues = n  BY <1>1, <1>3
<1>5. QED  BY <1>2, <1>4 DEF n

LEMMA LaidWhole ==
    ASSUME NEW symbol \in Symbol, NEW capacity \in Capacity, Len(Bytes(symbol)) <= capacity
    PROVE  /\ Laid(symbol, capacity).Len = Len(Bytes(symbol))
           /\ CoreBytes(Laid(symbol, capacity)) = Bytes(symbol)
<1> DEFINE bytes == Bytes(symbol)
           n == Len(bytes)
<1>1. n \in Nat /\ bytes \in Seq(ByteOf) /\ capacity \in Nat /\ capacity < ByteValues
  BY BytesTell DEF Capacity
<1>2. Laid(symbol, capacity).Len = n
  <2>1. n < ByteValues  BY <1>1
  <2>2. QED  BY <2>1, LengthTold
<1>3. SubSeq(bytes, 1, n) = bytes
  BY <1>1, SubSeqFull
<1>4. Laid(symbol, capacity).Bytes = SubSeq(bytes, 1, IF n < capacity THEN n ELSE capacity)
  BY DEF Laid
<1>5. (IF n < capacity THEN n ELSE capacity) = n
  <2>1. n <= capacity  OBVIOUS
  <2> HIDE DEF n
  <2>2. QED  BY <1>1, <2>1
<1> HIDE DEF bytes, n
<1>6. CoreBytes(Laid(symbol, capacity)) = SubSeq(SubSeq(bytes, 1, n), 1, n)
  BY <1>2, <1>4, <1>5 DEF CoreBytes
<1>7. QED  BY <1>2, <1>3, <1>6 DEF bytes, n

LEMMA CoreReadsSymbol ==
    ASSUME NEW symbol \in Symbol, NEW capacity \in Capacity, Len(Bytes(symbol)) <= capacity
    PROVE  /\ CoreSymbol(Laid(symbol, capacity), capacity) <=> Allowed(symbol, capacity, "anywhere")
           /\ NoSpaceInside(Laid(symbol, capacity)) <=> ~HasWhiteSpace(symbol)
           /\ NoSpaceAtEdges(Laid(symbol, capacity)) <=> ~WhiteSpaceAtAnEdge(symbol)
           /\ Laid(symbol, capacity).Len = 0 <=> symbol = <<>>
<1> DEFINE slot == Laid(symbol, capacity)
           bytes == Bytes(symbol)
<1>1. slot.Len = Len(bytes) /\ CoreBytes(slot) = bytes
  BY LaidWhole
<1>2. /\ bytes \in Seq(ByteOf) /\ Len(bytes) \in Nat
      /\ Len(bytes) = 0 <=> symbol = <<>>
      /\ Pieces(bytes) = Range(symbol)
      /\ symbol # <<>> => /\ bytes[1][1] = Head(symbol)
                         /\ bytes[Len(bytes)] = <<Last(symbol), Width[Last(symbol)]>>
  BY BytesTell
<1>3. Len(bytes) <= capacity
  OBVIOUS
<1> HIDE DEF slot, bytes
<1>4. bytes = <<>> <=> symbol = <<>>
  BY <1>2, EmptySeq
<1>5. Last(bytes) = bytes[Len(bytes)]
  BY DEF Last
<1>6. ~CutShort(CoreBytes(slot))
  BY <1>1, <1>2, <1>4, <1>5 DEF CutShort
<1>7. CoreSymbol(slot, capacity) <=> Range(symbol) \cap {DigitPiece, BadPiece} = {}
  BY <1>1, <1>2, <1>3, <1>6 DEF CoreSymbol
<1>8. Allowed(symbol, capacity, "anywhere") <=> Range(symbol) \cap {DigitPiece, BadPiece} = {}
  BY <1>3 DEF Allowed, bytes
<1>9. NoSpaceInside(slot) <=> ~HasWhiteSpace(symbol)
  BY <1>1, <1>2 DEF NoSpaceInside, HasWhiteSpace
<1>10. NoSpaceAtEdges(slot) <=> ~WhiteSpaceAtAnEdge(symbol)
  <2>1. symbol # <<>> => bytes[1][1] = Head(symbol) /\ Last(bytes)[1] = Last(symbol)
    BY <1>2, <1>5
  <2>2. QED  BY <1>1, <1>4, <2>1 DEF NoSpaceAtEdges, WhiteSpaceAtAnEdge
<1>11. QED  BY <1>1, <1>2, <1>7, <1>8, <1>9, <1>10 DEF slot

(* One too long for its slot, but short enough for its length to be told,  *)
(* the core refuses.                                                       *)
LEMMA CoreReadsLength ==
    ASSUME NEW symbol \in Symbol, NEW capacity \in Capacity, Len(Bytes(symbol)) < ByteValues,
           CoreSymbol(Laid(symbol, capacity), capacity)
    PROVE  Len(Bytes(symbol)) <= capacity
  BY LengthTold DEF CoreSymbol

-----------------------------------------------------------------------------
(* What a number format must be, the text of NumFormat's documentation in  *)
(* one place.                                                              *)
Decimals == {"DecimalSep", "CurrencyDecimalSep"}
Groups == {"GroupSep", "CurrencyGroupSep"}
Marks == {"MinusSign", "PlusSign", "Percent"}

NumFormatRules ==
    /\ UndefinedBit \notin f.Styles /\ ~(PolicyBits \subseteq f.Styles)
    /\ f.DecimalSep # <<>> /\ f.GroupSep # <<>>
    /\ f.DecimalSep # f.GroupSep /\ CurrencyDecimal # CurrencyGroup
    /\ \A field \in Decimals \cup Marks : Allowed(f[field], SymbolMaxBytes, "nowhere")
    /\ \A field \in Groups : Allowed(f[field], SymbolMaxBytes, "anywhere")
    /\ Allowed(f.Currency, CurrencyMaxBytes, "edges")
    /\ DigitZeroOK

DateFormatRules ==
    Allowed(f.AM, DesignatorMaxBytes, "edges") /\ Allowed(f.PM, DesignatorMaxBytes, "edges")

LEMMA Typed ==
    ASSUME FormatTypeOK
    PROVE  /\ \A field \in SymbolFields : f[field] \in Symbol
           /\ SymbolMaxBytes \in Capacity /\ CurrencyMaxBytes \in Capacity
           /\ DesignatorMaxBytes \in Capacity /\ f.DigitZero \in Int
           /\ \A field \in Decimals \cup Groups \cup Marks \cup {"Currency", "AM", "PM"} :
                 field \in SymbolFields
           /\ \A space \in Spaces : /\ Allowed(<<>>, SymbolMaxBytes, space)
                                    /\ Allowed(<<>>, CurrencyMaxBytes, space)
<1>1. SymbolMaxBytes \in Capacity /\ CurrencyMaxBytes \in Capacity /\ DesignatorMaxBytes \in Capacity
  BY DEF Capacity
<1>2. QED  BY <1>1, EmptySymbol DEF FormatTypeOK, SymbolFields, Decimals, Groups, Marks

(* The fast path's shortcut takes nothing the rules refuse.                *)
LEMMA ValidIsRules ==
    ASSUME FormatTypeOK
    PROVE  /\ NumFormatValid <=> NumFormatRules
           /\ DateFormatValid <=> DateFormatRules
<1>1. /\ \A field \in Decimals \cup Marks :
            SymbolOK(f[field], SymbolMaxBytes, "nowhere") <=> Allowed(f[field], SymbolMaxBytes, "nowhere")
      /\ \A field \in Groups :
            SymbolOK(f[field], SymbolMaxBytes, "anywhere") <=> Allowed(f[field], SymbolMaxBytes, "anywhere")
      /\ SymbolOK(f.Currency, CurrencyMaxBytes, "edges") <=> Allowed(f.Currency, CurrencyMaxBytes, "edges")
  BY Typed, SymbolOKIsAllowed DEF Spaces
<1>2. ASSUME NothingElse
      PROVE  /\ CurrencyDecimal = f.DecimalSep /\ CurrencyGroup = f.GroupSep
             /\ \A field \in Marks \cup {"CurrencyDecimalSep"} :
                   Allowed(f[field], SymbolMaxBytes, "nowhere")
             /\ Allowed(f.CurrencyGroupSep, SymbolMaxBytes, "anywhere")
             /\ Allowed(f.Currency, CurrencyMaxBytes, "edges")
             /\ DigitZeroOK
  <2>1. /\ f.CurrencyDecimalSep = <<>> /\ f.CurrencyGroupSep = <<>> /\ f.Currency = <<>>
        /\ \A field \in Marks : f[field] = <<>>
        /\ f.DigitZero = 0
    BY <1>2 DEF NothingElse, SymbolFields, Marks
  <2>2. QED  BY <2>1, Typed DEF CurrencyDecimal, CurrencyGroup, Or, DigitZeroOK, Spaces
<1>3. NumFormatValid <=> NumFormatRules
  BY <1>1, <1>2 DEF NumFormatValid, NumFormatRules, Decimals, Groups, Marks
<1>4. DateFormatValid <=> DateFormatRules
  <2>1. /\ SymbolOK(f.AM, DesignatorMaxBytes, "edges") <=> Allowed(f.AM, DesignatorMaxBytes, "edges")
        /\ SymbolOK(f.PM, DesignatorMaxBytes, "edges") <=> Allowed(f.PM, DesignatorMaxBytes, "edges")
    BY Typed, SymbolOKIsAllowed DEF Spaces
  <2>2. QED  BY <2>1 DEF DateFormatValid, DateFormatRules
<1>5. QED  BY <1>3, <1>4

(* fault names something whenever a rule is broken, and only then.         *)
LEMMA NumFaultIsRules ==
    ASSUME FormatTypeOK
    PROVE  NumFormatFault = Nothing <=> NumFormatRules
<1> DEFINE faults == <<
        Fault(PolicyBits \subseteq f.Styles, "no policy"),
        Fault(UndefinedBit \in f.Styles, "undefined bits"),
        Fault(f.DecimalSep = <<>> \/ f.GroupSep = <<>>, "undeclared"),
        SymbolFault(f.DecimalSep, SymbolMaxBytes, "anywhere"),
        SymbolFault(f.GroupSep, SymbolMaxBytes, "anywhere"),
        Fault(f.DecimalSep = f.GroupSep, "equal"),
        WhiteSpaceFault(f.DecimalSep),
        SymbolFault(f.CurrencyDecimalSep, SymbolMaxBytes, "anywhere"),
        SymbolFault(f.CurrencyGroupSep, SymbolMaxBytes, "anywhere"),
        Fault(CurrencyDecimal = CurrencyGroup, "currency equal"),
        WhiteSpaceFault(f.CurrencyDecimalSep),
        SymbolFault(f.MinusSign, SymbolMaxBytes, "nowhere"),
        SymbolFault(f.PlusSign, SymbolMaxBytes, "nowhere"),
        SymbolFault(f.Percent, SymbolMaxBytes, "nowhere"),
        SymbolFault(f.Currency, CurrencyMaxBytes, "edges"),
        Fault(~DigitZeroOK, "digit zero") >>
<1>1. NumFormatFault = FirstFault(faults)
  BY DEF NumFormatFault
<1>2. DOMAIN faults = 1..16
  OBVIOUS
<1>3. /\ Fault(PolicyBits \subseteq f.Styles, "no policy") = Nothing <=> ~(PolicyBits \subseteq f.Styles)
      /\ Fault(UndefinedBit \in f.Styles, "undefined bits") = Nothing <=> ~(UndefinedBit \in f.Styles)
      /\ Fault(f.DecimalSep = <<>> \/ f.GroupSep = <<>>, "undeclared") = Nothing
            <=> ~(f.DecimalSep = <<>> \/ f.GroupSep = <<>>)
      /\ Fault(f.DecimalSep = f.GroupSep, "equal") = Nothing <=> ~(f.DecimalSep = f.GroupSep)
      /\ Fault(CurrencyDecimal = CurrencyGroup, "currency equal") = Nothing
            <=> ~(CurrencyDecimal = CurrencyGroup)
      /\ Fault(~DigitZeroOK, "digit zero") = Nothing <=> ~~DigitZeroOK
  BY RulesNamed, FaultNames, Zenon
<1>4. \A symbol : WhiteSpaceFault(symbol) = Nothing <=> ~HasWhiteSpace(symbol)
  BY RulesNamed, FaultNames, Zenon DEF WhiteSpaceFault
<1>5. /\ \A field \in Decimals \cup Groups :
            SymbolFault(f[field], SymbolMaxBytes, "anywhere") = Nothing
              <=> Allowed(f[field], SymbolMaxBytes, "anywhere")
      /\ \A field \in Marks :
            SymbolFault(f[field], SymbolMaxBytes, "nowhere") = Nothing
              <=> Allowed(f[field], SymbolMaxBytes, "nowhere")
      /\ SymbolFault(f.Currency, CurrencyMaxBytes, "edges") = Nothing
              <=> Allowed(f.Currency, CurrencyMaxBytes, "edges")
  BY Typed, SymbolFaultIsNotAllowed DEF Spaces
<1>6. \A symbol : Allowed(symbol, SymbolMaxBytes, "nowhere")
                     <=> Allowed(symbol, SymbolMaxBytes, "anywhere") /\ ~HasWhiteSpace(symbol)
  BY DEF Allowed
<1>7. (\A i \in 1..16 : faults[i] = Nothing) <=>
        /\ faults[1] = Nothing /\ faults[2] = Nothing /\ faults[3] = Nothing /\ faults[4] = Nothing
        /\ faults[5] = Nothing /\ faults[6] = Nothing /\ faults[7] = Nothing /\ faults[8] = Nothing
        /\ faults[9] = Nothing /\ faults[10] = Nothing /\ faults[11] = Nothing /\ faults[12] = Nothing
        /\ faults[13] = Nothing /\ faults[14] = Nothing /\ faults[15] = Nothing /\ faults[16] = Nothing
  <2> HIDE DEF faults
  <2>1. QED  OBVIOUS
<1>8. /\ faults[1] = Fault(PolicyBits \subseteq f.Styles, "no policy")
      /\ faults[2] = Fault(UndefinedBit \in f.Styles, "undefined bits")
      /\ faults[3] = Fault(f.DecimalSep = <<>> \/ f.GroupSep = <<>>, "undeclared")
      /\ faults[4] = SymbolFault(f.DecimalSep, SymbolMaxBytes, "anywhere")
      /\ faults[5] = SymbolFault(f.GroupSep, SymbolMaxBytes, "anywhere")
      /\ faults[6] = Fault(f.DecimalSep = f.GroupSep, "equal")
      /\ faults[7] = WhiteSpaceFault(f.DecimalSep)
      /\ faults[8] = SymbolFault(f.CurrencyDecimalSep, SymbolMaxBytes, "anywhere")
      /\ faults[9] = SymbolFault(f.CurrencyGroupSep, SymbolMaxBytes, "anywhere")
      /\ faults[10] = Fault(CurrencyDecimal = CurrencyGroup, "currency equal")
      /\ faults[11] = WhiteSpaceFault(f.CurrencyDecimalSep)
      /\ faults[12] = SymbolFault(f.MinusSign, SymbolMaxBytes, "nowhere")
      /\ faults[13] = SymbolFault(f.PlusSign, SymbolMaxBytes, "nowhere")
      /\ faults[14] = SymbolFault(f.Percent, SymbolMaxBytes, "nowhere")
      /\ faults[15] = SymbolFault(f.Currency, CurrencyMaxBytes, "edges")
      /\ faults[16] = Fault(~DigitZeroOK, "digit zero")
  OBVIOUS
<1> HIDE DEF faults
<1>9. FirstFault(faults) = Nothing <=> \A i \in 1..16 : faults[i] = Nothing
  <2>1. 1..16 \subseteq Nat  OBVIOUS
  <2>2. QED  BY <1>2, <2>1, FirstFaultFinds, Zenon
<1> DEFINE Separators ==
        /\ Allowed(f.DecimalSep, SymbolMaxBytes, "nowhere")
        /\ Allowed(f.CurrencyDecimalSep, SymbolMaxBytes, "nowhere")
        /\ Allowed(f.GroupSep, SymbolMaxBytes, "anywhere")
        /\ Allowed(f.CurrencyGroupSep, SymbolMaxBytes, "anywhere")
<1>10. /\ faults[4] = Nothing /\ faults[5] = Nothing /\ faults[7] = Nothing
       /\ faults[8] = Nothing /\ faults[9] = Nothing /\ faults[11] = Nothing
       <=> Separators
  BY <1>4, <1>5, <1>6, <1>8 DEF Decimals, Groups
<1>11. /\ faults[12] = Nothing /\ faults[13] = Nothing /\ faults[14] = Nothing
       <=> \A field \in Marks : Allowed(f[field], SymbolMaxBytes, "nowhere")
  BY <1>5, <1>8 DEF Marks
<1>12. (\A i \in 1..16 : faults[i] = Nothing) <=>
         /\ ~(PolicyBits \subseteq f.Styles) /\ UndefinedBit \notin f.Styles
         /\ f.DecimalSep # <<>> /\ f.GroupSep # <<>> /\ f.DecimalSep # f.GroupSep
         /\ CurrencyDecimal # CurrencyGroup
         /\ Separators
         /\ \A field \in Marks : Allowed(f[field], SymbolMaxBytes, "nowhere")
         /\ Allowed(f.Currency, CurrencyMaxBytes, "edges")
         /\ DigitZeroOK
  <2> HIDE DEF Separators
  <2>1. QED  BY <1>3, <1>5, <1>7, <1>8, <1>10, <1>11, Zenon
<1>13. Separators <=> /\ \A field \in Decimals : Allowed(f[field], SymbolMaxBytes, "nowhere")
                      /\ \A field \in Groups : Allowed(f[field], SymbolMaxBytes, "anywhere")
  BY DEF Decimals, Groups
<1> HIDE DEF Separators
<1>14. QED  BY <1>1, <1>9, <1>12, <1>13 DEF NumFormatRules

LEMMA DateFaultIsRules ==
    ASSUME FormatTypeOK
    PROVE  DateFormatFault = Nothing <=> DateFormatRules
<1> DEFINE faults == <<
        SymbolFault(f.AM, DesignatorMaxBytes, "anywhere"), EdgeFault(f.AM),
        SymbolFault(f.PM, DesignatorMaxBytes, "anywhere"), EdgeFault(f.PM) >>
<1>1. DateFormatFault = FirstFault(faults)
  BY DEF DateFormatFault
<1>2. DOMAIN faults = 1..4
  OBVIOUS
<1>3. \A symbol : EdgeFault(symbol) = Nothing <=> ~WhiteSpaceAtAnEdge(symbol)
  BY RulesNamed, FaultNames, Zenon DEF EdgeFault
<1>4. \A field \in {"AM", "PM"} :
         SymbolFault(f[field], DesignatorMaxBytes, "anywhere") = Nothing
           <=> Allowed(f[field], DesignatorMaxBytes, "anywhere")
  BY Typed, SymbolFaultIsNotAllowed DEF Spaces
<1>5. \A symbol : Allowed(symbol, DesignatorMaxBytes, "edges")
                     <=> Allowed(symbol, DesignatorMaxBytes, "anywhere") /\ ~WhiteSpaceAtAnEdge(symbol)
  BY DEF Allowed
<1>6. /\ faults[1] = SymbolFault(f.AM, DesignatorMaxBytes, "anywhere") /\ faults[2] = EdgeFault(f.AM)
      /\ faults[3] = SymbolFault(f.PM, DesignatorMaxBytes, "anywhere") /\ faults[4] = EdgeFault(f.PM)
  OBVIOUS
<1> HIDE DEF faults
<1>7. (\A i \in 1..4 : faults[i] = Nothing) <=>
        faults[1] = Nothing /\ faults[2] = Nothing /\ faults[3] = Nothing /\ faults[4] = Nothing
  OBVIOUS
<1>8. FirstFault(faults) = Nothing <=> \A i \in 1..4 : faults[i] = Nothing
  BY <1>2, FirstFaultFinds
<1>9. QED  BY <1>1, <1>3, <1>4, <1>5, <1>6, <1>7, <1>8 DEF DateFormatRules

(* The two ways the binding judges a format agree on every format.         *)
THEOREM ValidAgreesWithFaultHolds == Spec => []ValidAgreesWithFault
<1>1. FormatInv => ValidAgreesWithFault
  BY ValidIsRules, NumFaultIsRules, DateFaultIsRules DEF FormatInv, ValidAgreesWithFault
<1>2. QED  BY <1>1, FormatInvariant, PTL

-----------------------------------------------------------------------------
(* A digit zero modulo 64 at most 54 is one whose nine keeps its prefix,   *)
(* and neither the surrogates nor the end of Unicode come in between.      *)
LEMMA DigitZeroDocumented ==
    ASSUME NEW zero \in Int, zero # 0
    PROVE  zero >= 128 /\ ValidRune(zero) /\ zero % 64 <= 54 <=> StartsTenDigits(zero)
<1> DEFINE high == zero \div 64
           low == zero % 64
<1>1. high \in Int /\ low \in 0..63 /\ zero = 64 * high + low
  OBVIOUS
<1>2. \A i \in 0..9 : low + i <= 63 => (zero + i) \div 64 = high
  BY <1>1
<1>3. (zero + 9) \div 64 = high => low + 9 <= 63
  BY <1>1
<1>4. 55296 = 64 * 864 /\ 57343 = 64 * 895 + 63 /\ 1114111 = 64 * 17407 + 63
  BY SMT
<1> HIDE DEF high, low
<1>5. ASSUME zero >= 128, ValidRune(zero), low <= 54, NEW i \in 0..9
      PROVE  ValidRune(zero + i) /\ (zero + i) \div 64 = high
  <2>1. (zero + i) \div 64 = high  BY <1>1, <1>2, <1>5
  <2>2. zero + i = 64 * high + (low + i) /\ low + i \in 0..63  BY <1>1, <1>5
  <2>3. (0 <= zero /\ zero < 55296) \/ (57343 < zero /\ zero <= 1114111)  BY <1>5, SMT DEF ValidRune
  <2>4. (0 <= high /\ high < 864) \/ (895 < high /\ high <= 17407)
    BY <1>1, <1>4, <2>3, SMT
  <2>5. (0 <= zero + i /\ zero + i < 55296) \/ (57343 < zero + i /\ zero + i <= 1114111)
    <3> DEFINE v == zero + i
               l == low + i
    <3>1. v = 64 * high + l /\ l \in 0..63 /\ high \in Int  BY <1>1, <2>2
    <3> HIDE DEF v, l
    <3>2. (0 <= v /\ v < 55296) \/ (57343 < v /\ v <= 1114111)  BY <2>4, <3>1, SMT
    <3>3. QED  BY <3>2, SMT DEF v
  <2>6. QED  BY <2>1, <2>5, SMT DEF ValidRune
<1>6. ASSUME zero > 127, \A i \in 0..9 : ValidRune(zero + i) /\ (zero + i) \div 64 = high
      PROVE  zero >= 128 /\ ValidRune(zero) /\ low <= 54
  <2>1. ValidRune(zero + 0) /\ (zero + 9) \div 64 = high  BY <1>6
  <2>2. zero + 0 = zero /\ zero >= 128  BY <1>6
  <2>3. low <= 54  BY <1>1, <1>3, <2>1
  <2>4. QED  BY <2>1, <2>2, <2>3
<1>7. QED  BY <1>5, <1>6 DEF high, low, StartsTenDigits

LEMMA DocumentedIsRules ==
    ASSUME FormatTypeOK
    PROVE  Documented <=> NumFormatRules
<1> DEFINE flush == {"DecimalSep", "CurrencyDecimalSep", "MinusSign", "PlusSign", "Percent"}
           Fine(field) == /\ Len(Bytes(f[field])) <= Slot(field)
                          /\ Range(f[field]) \cap {BadPiece, DigitPiece} = {}
<1>1. /\ \A field \in Decimals \cup Marks : field \in flush
      /\ \A field \in flush : field \in Decimals \cup Marks
      /\ \A field \in flush \cup Groups : Slot(field) = SymbolMaxBytes
      /\ Slot("Currency") = CurrencyMaxBytes
  BY DEF Decimals, Groups, Marks, Slot
<1>2. \A field \in flush :
         Fine(field) /\ Range(f[field]) \cap WhiteSpace = {}
           <=> Allowed(f[field], SymbolMaxBytes, "nowhere")
  BY <1>1 DEF Allowed, HasWhiteSpace
<1>3. \A field \in Groups : Fine(field) <=> Allowed(f[field], SymbolMaxBytes, "anywhere")
  BY <1>1 DEF Allowed
<1>4. Fine("Currency") /\ ~WhiteSpaceAtAnEdge(f.Currency) <=> Allowed(f.Currency, CurrencyMaxBytes, "edges")
  BY <1>1 DEF Allowed
<1>5. DigitZeroOK <=> (f.DigitZero # 0 => StartsTenDigits(f.DigitZero))
  BY DigitZeroDocumented, Typed DEF DigitZeroOK
<1>6. Documented <=>
        /\ UndefinedBit \notin f.Styles /\ ~(PolicyBits \subseteq f.Styles)
        /\ f.DecimalSep # <<>> /\ f.GroupSep # <<>>
        /\ f.DecimalSep # f.GroupSep /\ CurrencyDecimal # CurrencyGroup
        /\ \A field \in flush \cup Groups \cup {"Currency"} : Fine(field)
        /\ \A field \in flush : Range(f[field]) \cap WhiteSpace = {}
        /\ ~WhiteSpaceAtAnEdge(f.Currency)
        /\ DigitZeroOK
  <2>1. {"DecimalSep", "CurrencyDecimalSep"} \cup {"MinusSign", "PlusSign", "Percent"} = flush
    OBVIOUS
  <2>2. QED  BY <1>5, <2>1, Zenon DEF Documented, Groups
<1> HIDE DEF flush, Fine
<1>7. (/\ \A field \in flush \cup Groups \cup {"Currency"} : Fine(field)
       /\ \A field \in flush : Range(f[field]) \cap WhiteSpace = {}
       /\ ~WhiteSpaceAtAnEdge(f.Currency))
      <=> /\ \A field \in Decimals \cup Marks : Allowed(f[field], SymbolMaxBytes, "nowhere")
          /\ \A field \in Groups : Allowed(f[field], SymbolMaxBytes, "anywhere")
          /\ Allowed(f.Currency, CurrencyMaxBytes, "edges")
  BY <1>1, <1>2, <1>3, <1>4
<1>8. QED  BY <1>6, <1>7, Zenon DEF NumFormatRules

(* valid takes what the doc of NumFormat lists and nothing else.           *)
THEOREM AcceptsTheDocumentedHolds == Spec => []AcceptsTheDocumented
<1>1. FormatInv => AcceptsTheDocumented
  BY ValidIsRules, DocumentedIsRules DEF FormatInv, AcceptsTheDocumented
<1>2. QED  BY <1>1, FormatInvariant, PTL

-----------------------------------------------------------------------------
(* Where every symbol fits, the core takes what the rules take.            *)
LEMMA FittingIsRules ==
    ASSUME FormatTypeOK, \A field \in NumFields : Len(Bytes(f[field])) <= Slot(field)
    PROVE  CoreTakesNumFormat(NumLayout) <=> NumFormatRules
<1> DEFINE laid(field) == Laid(f[field], Slot(field))
           flush == {"DecimalSep", "CurrencyDecimalSep", "MinusSign", "PlusSign", "Percent"}
<1>1. \A field \in NumFields :
         /\ f[field] \in Symbol
         /\ CoreBytes(laid(field)) = Bytes(f[field])
         /\ CoreSymbol(laid(field), Slot(field)) <=> Allowed(f[field], Slot(field), "anywhere")
         /\ NoSpaceInside(laid(field)) <=> ~HasWhiteSpace(f[field])
         /\ NoSpaceAtEdges(laid(field)) <=> ~WhiteSpaceAtAnEdge(f[field])
         /\ laid(field).Len = 0 <=> f[field] = <<>>
  <2> SUFFICES ASSUME NEW field \in NumFields
               PROVE  /\ f[field] \in Symbol
                      /\ CoreBytes(laid(field)) = Bytes(f[field])
                      /\ CoreSymbol(laid(field), Slot(field)) <=> Allowed(f[field], Slot(field), "anywhere")
                      /\ NoSpaceInside(laid(field)) <=> ~HasWhiteSpace(f[field])
                      /\ NoSpaceAtEdges(laid(field)) <=> ~WhiteSpaceAtAnEdge(f[field])
                      /\ laid(field).Len = 0 <=> f[field] = <<>>
    OBVIOUS
  <2>1. f[field] \in Symbol  BY DEF FormatTypeOK, NumFields
  <2>2. Slot(field) \in Capacity  BY Typed DEF Slot
  <2>3. Len(Bytes(f[field])) <= Slot(field)  OBVIOUS
  <2>4. QED  BY <2>1, <2>2, <2>3, LaidWhole, CoreReadsSymbol
<1>2. /\ Decimals \cup Groups \cup Marks \cup {"Currency"} = NumFields
      /\ Decimals \cup Marks = flush /\ flush \subseteq NumFields
      /\ \A field \in flush \cup Groups : Slot(field) = SymbolMaxBytes
      /\ Slot("Currency") = CurrencyMaxBytes
      /\ {"DecimalSep", "CurrencyDecimalSep", "GroupSep", "CurrencyGroupSep", "Currency"} \subseteq NumFields
  BY DEF Decimals, Groups, Marks, NumFields, SymbolFields, Slot
<1>3. /\ NumLayout.Flags = f.Styles /\ NumLayout.DigitZero = f.DigitZero
      /\ \A field \in NumFields : NumLayout.Symbols[field] = laid(field)
  BY DEF NumLayout, Layout
<1> HIDE DEF laid, flush
<1>4. CoreDigitZero(f.DigitZero) <=> DigitZeroOK
  BY Typed, SMT DEF CoreDigitZero, DigitZeroOK
<1>5. InForce(laid("CurrencyDecimalSep"), laid("DecimalSep")) = Bytes(CurrencyDecimal)
  BY <1>1, <1>2 DEF InForce, CurrencyDecimal, Or
<1>6. InForce(laid("CurrencyGroupSep"), laid("GroupSep")) = Bytes(CurrencyGroup)
  BY <1>1, <1>2 DEF InForce, CurrencyGroup, Or
<1>7. CurrencyDecimal \in Symbol /\ CurrencyGroup \in Symbol
  BY <1>1, <1>2 DEF CurrencyDecimal, CurrencyGroup, Or
<1>8. /\ Bytes(f.DecimalSep) = Bytes(f.GroupSep) <=> f.DecimalSep = f.GroupSep
      /\ Bytes(CurrencyDecimal) = Bytes(CurrencyGroup) <=> CurrencyDecimal = CurrencyGroup
  BY <1>1, <1>2, <1>7, BytesTellApart
<1>9. /\ (\A field \in NumFields : CoreSymbol(laid(field), Slot(field)))
      /\ NoSpaceAtEdges(laid("Currency"))
      /\ (\A field \in flush : NoSpaceInside(laid(field)))
      <=> /\ \A field \in Decimals \cup Marks : Allowed(f[field], SymbolMaxBytes, "nowhere")
          /\ \A field \in Groups : Allowed(f[field], SymbolMaxBytes, "anywhere")
          /\ Allowed(f.Currency, CurrencyMaxBytes, "edges")
  <2>1. \A symbol, capacity :
          /\ Allowed(symbol, capacity, "nowhere")
                <=> Allowed(symbol, capacity, "anywhere") /\ ~HasWhiteSpace(symbol)
          /\ Allowed(symbol, capacity, "edges")
                <=> Allowed(symbol, capacity, "anywhere") /\ ~WhiteSpaceAtAnEdge(symbol)
    BY DEF Allowed
  <2>2. QED  BY <1>1, <1>2, <2>1
<1>10. CoreTakesNumFormat(NumLayout) <=>
         /\ UndefinedBit \notin f.Styles /\ ~(PolicyBits \subseteq f.Styles)
         /\ \A field \in NumFields : CoreSymbol(laid(field), Slot(field))
         /\ NoSpaceAtEdges(laid("Currency"))
         /\ f.DecimalSep # <<>> /\ f.GroupSep # <<>>
         /\ f.DecimalSep # f.GroupSep /\ CurrencyDecimal # CurrencyGroup
         /\ \A field \in flush : NoSpaceInside(laid(field))
         /\ DigitZeroOK
  <2>1. /\ laid("DecimalSep").Len # 0 <=> f.DecimalSep # <<>>
        /\ laid("GroupSep").Len # 0 <=> f.GroupSep # <<>>
        /\ CoreBytes(laid("DecimalSep")) # CoreBytes(laid("GroupSep")) <=> f.DecimalSep # f.GroupSep
        /\ InForce(laid("CurrencyDecimalSep"), laid("DecimalSep"))
              # InForce(laid("CurrencyGroupSep"), laid("GroupSep")) <=> CurrencyDecimal # CurrencyGroup
    BY <1>1, <1>2, <1>5, <1>6, <1>8
  <2>2. QED  BY <1>2, <1>3, <1>4, <2>1 DEF CoreTakesNumFormat, flush
<1>11. QED  BY <1>9, <1>10 DEF NumFormatRules

LEMMA FittingPeriodsAreRules ==
    ASSUME FormatTypeOK, \A field \in {"AM", "PM"} : Len(Bytes(f[field])) <= Slot(field)
    PROVE  CoreTakesPeriods(PeriodsLayout) <=> DateFormatRules
<1>1. \A field \in {"AM", "PM"} : /\ f[field] \in Symbol /\ Slot(field) = DesignatorMaxBytes
                                 /\ PeriodsLayout[field] = Laid(f[field], DesignatorMaxBytes)
  BY DEF FormatTypeOK, SymbolFields, Slot, PeriodsLayout, Layout
<1>2. \A field \in {"AM", "PM"} :
         CoreSymbol(PeriodsLayout[field], DesignatorMaxBytes) /\ NoSpaceAtEdges(PeriodsLayout[field])
           <=> Allowed(f[field], DesignatorMaxBytes, "edges")
  BY <1>1, Typed, CoreReadsSymbol DEF Allowed
<1>3. QED  BY <1>2 DEF CoreTakesPeriods, DateFormatRules

(* What the rules take fits, and so does what the core takes if lengths    *)
(* are told.                                                               *)
LEMMA RulesFit ==
    /\ NumFormatRules => \A field \in NumFields : Len(Bytes(f[field])) <= Slot(field)
    /\ DateFormatRules => \A field \in {"AM", "PM"} : Len(Bytes(f[field])) <= Slot(field)
<1>1. /\ \A field \in NumFields : field \in Decimals \cup Groups \cup Marks \cup {"Currency"}
      /\ \A field \in Decimals \cup Groups \cup Marks : Slot(field) = SymbolMaxBytes
      /\ Slot("Currency") = CurrencyMaxBytes
      /\ Slot("AM") = DesignatorMaxBytes /\ Slot("PM") = DesignatorMaxBytes
  BY DEF Decimals, Groups, Marks, NumFields, SymbolFields, Slot
<1>2. QED  BY <1>1 DEF NumFormatRules, DateFormatRules, Allowed

LEMMA TakenFits ==
    ASSUME FormatTypeOK, \A field \in SymbolFields : Len(Bytes(f[field])) < ByteValues
    PROVE  /\ CoreTakesNumFormat(NumLayout) =>
                 \A field \in NumFields : Len(Bytes(f[field])) <= Slot(field)
           /\ CoreTakesPeriods(PeriodsLayout) =>
                 \A field \in {"AM", "PM"} : Len(Bytes(f[field])) <= Slot(field)
<1>1. \A field \in SymbolFields : f[field] \in Symbol /\ Slot(field) \in Capacity
  BY Typed DEF FormatTypeOK, Slot
<1>2. \A field \in SymbolFields : CoreSymbol(Laid(f[field], Slot(field)), Slot(field))
                                   => Len(Bytes(f[field])) <= Slot(field)
  BY <1>1, CoreReadsLength
<1>3. /\ NumFields \subseteq SymbolFields
      /\ \A field \in NumFields : NumLayout.Symbols[field] = Laid(f[field], Slot(field))
  BY DEF NumLayout, Layout, NumFields
<1>4. \A field \in {"AM", "PM"} : /\ field \in SymbolFields /\ Slot(field) = DesignatorMaxBytes
                                 /\ PeriodsLayout[field] = Laid(f[field], DesignatorMaxBytes)
  BY DEF SymbolFields, Slot, PeriodsLayout, Layout
<1>5. ASSUME CoreTakesNumFormat(NumLayout), NEW field \in NumFields
      PROVE  Len(Bytes(f[field])) <= Slot(field)
  <2>1. CoreSymbol(NumLayout.Symbols[field], Slot(field))  BY <1>5 DEF CoreTakesNumFormat
  <2>2. QED  BY <1>2, <1>3, <2>1
<1>6. ASSUME CoreTakesPeriods(PeriodsLayout), NEW field \in {"AM", "PM"}
      PROVE  Len(Bytes(f[field])) <= Slot(field)
  <2>1. CoreSymbol(PeriodsLayout[field], DesignatorMaxBytes)  BY <1>6 DEF CoreTakesPeriods
  <2>2. QED  BY <1>2, <1>4, <2>1
<1>7. QED  BY <1>5, <1>6

(* What valid takes the core takes of the bytes laid out, and the other    *)
(* way round unless a symbol is long enough to pass for a short one.       *)
THEOREM CoreTakesWhatValidTakesHolds == Spec => []CoreTakesWhatValidTakes
<1>1. FormatInv => CoreTakesWhatValidTakes
  <2> SUFFICES ASSUME FormatInv PROVE CoreTakesWhatValidTakes
    OBVIOUS
  <2>1. FormatTypeOK  BY DEF FormatInv
  <2>2. (NumFormatValid <=> NumFormatRules) /\ (DateFormatValid <=> DateFormatRules)
    BY <2>1, ValidIsRules
  <2>3. NumFormatRules => CoreTakesNumFormat(NumLayout)
    BY <2>1, RulesFit, FittingIsRules
  <2>4. DateFormatRules => CoreTakesPeriods(PeriodsLayout)
    BY <2>1, RulesFit, FittingPeriodsAreRules
  <2>5. ASSUME \A field \in SymbolFields : Len(Bytes(f[field])) < ByteValues
        PROVE  /\ CoreTakesNumFormat(NumLayout) => NumFormatRules
               /\ CoreTakesPeriods(PeriodsLayout) => DateFormatRules
    BY <2>1, <2>5, TakenFits, FittingIsRules, FittingPeriodsAreRules
  <2>6. QED  BY <2>2, <2>3, <2>4, <2>5 DEF CoreTakesWhatValidTakes
<1>2. QED  BY <1>1, FormatInvariant, PTL

=============================================================================
