------------------------------ MODULE NumFormats ------------------------------
(***************************************************************************)
(* NumFormat and DateFormat (go/cast.go, go/interop.go): a caller fills or *)
(* builds one, a door checks it on its fast path (valid), names the rule   *)
(* on its slow one (fault) and lays it out for the core, which judges what *)
(* it reads by its own code (internal/core/core.go, as translated).        *)
(***************************************************************************)
EXTENDS Integers, SequencesExt

CONSTANTS
    Width,             \* the code points symbols hold, with their bytes of UTF-8
    DigitPiece,        \* an ASCII digit
    AsciiSpaces,       \* ASCII white space
    WideSpaces,        \* the rest of Unicode's White_Space
    BadPiece,          \* a byte that is not UTF-8
    Dot, Comma,        \* the symbols "." and ","
    SymbolMaxBytes, CurrencyMaxBytes, DesignatorMaxBytes,
    ByteValues,        \* what a slot's length byte tells apart: 256
    Symbols,           \* what callers fill a symbol with, sequences of pieces
    DigitZeros,        \* what callers fill DigitZero with
    MaxEdits,          \* bound: what a caller does before a door
    Nothing,           \* no fault, nil
    Panic              \* a caller-bug panic

ASSUME FormatAssumption ==
    /\ ByteValues \in Nat
    /\ {SymbolMaxBytes, CurrencyMaxBytes, DesignatorMaxBytes} \subseteq 1 .. ByteValues - 1
    /\ \A piece \in DOMAIN Width : Width[piece] \in 1..4
    /\ \A piece \in WideSpaces \cap DOMAIN Width : Width[piece] > 1
    /\ {Dot, Comma} \cup Symbols \subseteq Seq(DOMAIN Width)
    /\ DigitZeros \subseteq Int

(* The rules a fault names; no fault is none of them.                      *)
FaultRules == {"length", "UTF-8", "digit", "white space", "white space at an edge", "no policy",
               "undefined bits", "undeclared", "equal", "currency equal", "digit zero"}

ASSUME FaultAssumption == Nothing \notin FaultRules

Flags == {"grouping", "trailingSign"}
PolicyBits == {"western", "indian"}
UndefinedBit == "bit10"
StyleSets == SUBSET (Flags \cup PolicyBits \cup {UndefinedBit})
Policies == {{}, {"western"}, {"indian"}}

SymbolFields == {"DecimalSep", "GroupSep", "Currency", "CurrencyDecimalSep", "CurrencyGroupSep",
                 "MinusSign", "PlusSign", "Percent", "AM", "PM"}

VARIABLES
    f,                 \* the formats the caller holds: NumFormat's fields and DateFormat's
    declared,          \* the policy and the flags declared last (history)
    edits,
    crossed            \* what a door laid out for the core, Panic, or Nothing

vars == <<f, declared, edits, crossed>>

ZeroFormat ==
    [field \in SymbolFields \cup {"Styles", "DigitZero"} |->
        IF field = "Styles" THEN {} ELSE IF field = "DigitZero" THEN 0 ELSE <<>>]

NumFormatOf(format, decimalSep, groupSep, styles) ==
    [format EXCEPT !.DecimalSep = decimalSep, !.GroupSep = groupSep,
                   !.Styles = styles \cup {"western"}]

Declare(policy, flags) == [policy |-> policy, flags |-> flags]

(* A literal's zero value, or a package's Invariant.                       *)
Init ==
    /\ \/ f = ZeroFormat /\ declared = Declare({}, {})
       \/ /\ f = NumFormatOf(ZeroFormat, Dot, Comma, {"grouping"})
          /\ declared = Declare({"western"}, {"grouping"})
    /\ edits = 0
    /\ crossed = Nothing

-----------------------------------------------------------------------------
(* Symbols.                                                                *)
Bytes(symbol) ==
    FlattenSeq([i \in DOMAIN symbol |-> [j \in 1 .. Width[symbol[i]] |-> <<symbol[i], j>>]])

WhiteSpace == AsciiSpaces \cup WideSpaces

ValidString(symbol) == BadPiece \notin Range(symbol)
HasWhiteSpace(symbol) == Range(symbol) \cap WhiteSpace # {}
WhiteSpaceAtAnEdge(symbol) == symbol # <<>> /\ {Head(symbol), Last(symbol)} \cap WhiteSpace # {}

(* symbolOK decides one byte inline, which is a whole code point only in   *)
(* ASCII, and leaves the rest to symbolOKSlow.                             *)
Ascii(symbol) == \A i \in DOMAIN symbol : Width[symbol[i]] = 1 /\ symbol[i] # BadPiece

(* Mutant: code points are counted against the slot's bytes.               *)
SymbolOKSlowByRunes(symbol, capacity, space) ==
    /\ Len(symbol) <= capacity
    /\ DigitPiece \notin Range(symbol)
    /\ space = "nowhere" => Range(symbol) \cap AsciiSpaces = {}
    /\ Ascii(symbol) \/ (ValidString(symbol) /\ ~(space = "nowhere" /\ HasWhiteSpace(symbol)))
    /\ ~(space = "edges" /\ WhiteSpaceAtAnEdge(symbol))

SymbolOKSlow(symbol, capacity, space) ==
    /\ Len(Bytes(symbol)) <= capacity
    /\ DigitPiece \notin Range(symbol)
    /\ space = "nowhere" => Range(symbol) \cap AsciiSpaces = {}
    /\ Ascii(symbol) \/ (ValidString(symbol) /\ ~(space = "nowhere" /\ HasWhiteSpace(symbol)))
    /\ ~(space = "edges" /\ WhiteSpaceAtAnEdge(symbol))

SymbolOK(symbol, capacity, space) ==
    IF Len(Bytes(symbol)) = 1
    THEN /\ Ascii(symbol)
         /\ symbol[1] # DigitPiece
         /\ ~(space # "anywhere" /\ symbol[1] \in AsciiSpaces)
    ELSE symbol = <<>> \/ SymbolOKSlow(symbol, capacity, space)

FirstFault(faults) ==
    LET found == { i \in DOMAIN faults : faults[i] # Nothing }
    IN  IF found = {} THEN Nothing ELSE faults[Min(found)]

Fault(refused, rule) == IF refused THEN rule ELSE Nothing

WhiteSpaceFault(symbol) == Fault(HasWhiteSpace(symbol), "white space")
EdgeFault(symbol) == Fault(WhiteSpaceAtAnEdge(symbol), "white space at an edge")

SymbolFault(symbol, capacity, space) ==
    FirstFault(<<
        Fault(Len(Bytes(symbol)) > capacity, "length"),
        Fault(~ValidString(symbol), "UTF-8"),
        Fault(DigitPiece \in Range(symbol), "digit"),
        IF space = "nowhere" THEN WhiteSpaceFault(symbol) ELSE Nothing,
        IF space = "edges" THEN EdgeFault(symbol) ELSE Nothing >>)

-----------------------------------------------------------------------------
(* NumFormat's checks.                                                     *)
Or(symbol, fallback) == IF symbol = <<>> THEN fallback ELSE symbol
CurrencyDecimal == Or(f.CurrencyDecimalSep, f.DecimalSep)
CurrencyGroup == Or(f.CurrencyGroupSep, f.GroupSep)

ValidRune(r) == (0 <= r /\ r < 55296) \/ (57343 < r /\ r <= 1114111)

(* Mutant: a zero whose nine leaves its prefix.                            *)
DigitZeroLoose == f.DigitZero = 0 \/ (f.DigitZero >= 128 /\ ValidRune(f.DigitZero) /\ f.DigitZero % 64 <= 55)

DigitZeroOK == f.DigitZero = 0 \/ (f.DigitZero >= 128 /\ ValidRune(f.DigitZero) /\ f.DigitZero % 64 <= 54)

(* Mutant: the fast path forgets the digit zero.                           *)
NoOtherSymbol == \A field \in SymbolFields \ {"DecimalSep", "GroupSep", "AM", "PM"} : f[field] = <<>>

(* valid skips what few formats declare.                                   *)
NothingElse ==
    /\ \A field \in SymbolFields \ {"DecimalSep", "GroupSep", "AM", "PM"} : f[field] = <<>>
    /\ f.DigitZero = 0

NumFormatValid ==
    /\ UndefinedBit \notin f.Styles /\ ~(PolicyBits \subseteq f.Styles)
    /\ f.DecimalSep # <<>> /\ f.GroupSep # <<>> /\ f.DecimalSep # f.GroupSep
    /\ SymbolOK(f.DecimalSep, SymbolMaxBytes, "nowhere")
    /\ SymbolOK(f.GroupSep, SymbolMaxBytes, "anywhere")
    /\ \/ NothingElse
       \/ /\ SymbolOK(f.CurrencyDecimalSep, SymbolMaxBytes, "nowhere")
          /\ SymbolOK(f.CurrencyGroupSep, SymbolMaxBytes, "anywhere")
          /\ CurrencyDecimal # CurrencyGroup
          /\ \A field \in {"MinusSign", "PlusSign", "Percent"} :
                SymbolOK(f[field], SymbolMaxBytes, "nowhere")
          /\ SymbolOK(f.Currency, CurrencyMaxBytes, "edges")
          /\ DigitZeroOK

NumFormatFault ==
    FirstFault(<<
        Fault(PolicyBits \subseteq f.Styles, "no policy"),
        Fault(UndefinedBit \in f.Styles, "undefined bits"),
        Fault(f.DecimalSep = <<>> \/ f.GroupSep = <<>>, "undeclared"),
        SymbolFault(f.DecimalSep, SymbolMaxBytes, "anywhere"),
        SymbolFault(f.GroupSep, SymbolMaxBytes, "anywhere"),
        Fault(f.DecimalSep = f.GroupSep, "equal"),
        WhiteSpaceFault(f.DecimalSep),
        SymbolFault(f.CurrencyDecimalSep, SymbolMaxBytes, "anywhere"),
        SymbolFault(f.CurrencyGroupSep, SymbolMaxBytes, "anywhere"),
        Fault(CurrencyDecimal = CurrencyGroup, "currency equal"),
        WhiteSpaceFault(f.CurrencyDecimalSep),
        SymbolFault(f.MinusSign, SymbolMaxBytes, "nowhere"),
        SymbolFault(f.PlusSign, SymbolMaxBytes, "nowhere"),
        SymbolFault(f.Percent, SymbolMaxBytes, "nowhere"),
        SymbolFault(f.Currency, CurrencyMaxBytes, "edges"),
        Fault(~DigitZeroOK, "digit zero") >>)

DateFormatValid ==
    SymbolOK(f.AM, DesignatorMaxBytes, "edges") /\ SymbolOK(f.PM, DesignatorMaxBytes, "edges")

DateFormatFault ==
    FirstFault(<<
        SymbolFault(f.AM, DesignatorMaxBytes, "anywhere"), EdgeFault(f.AM),
        SymbolFault(f.PM, DesignatorMaxBytes, "anywhere"), EdgeFault(f.PM) >>)

(* symbol8 and symbol16: the bytes that fit, and the length as a uint8.    *)
Laid(symbol, slot) ==
    [Bytes |-> SubSeq(Bytes(symbol), 1, IF Len(Bytes(symbol)) < slot THEN Len(Bytes(symbol)) ELSE slot),
     Len |-> Len(Bytes(symbol)) % ByteValues]

Slot(field) ==
    IF field = "Currency" THEN CurrencyMaxBytes
    ELSE IF field \in {"AM", "PM"} THEN DesignatorMaxBytes
    ELSE SymbolMaxBytes

Layout(fields) == [field \in fields |-> Laid(f[field], Slot(field))]

NumFields == SymbolFields \ {"AM", "PM"}

NumLayout == [Flags |-> f.Styles, DigitZero |-> f.DigitZero, Symbols |-> Layout(NumFields)]
PeriodsLayout == Layout({"AM", "PM"})

-----------------------------------------------------------------------------
(* The core reads as many bytes of a slot as its length word says, up to   *)
(* the slot; each is [piece, which of its bytes].                          *)
CoreBytes(slot) == SubSeq(slot.Bytes, 1, slot.Len)

CutShort(bytes) == bytes # <<>> /\ Width[Last(bytes)[1]] # Last(bytes)[2]

Pieces(bytes) == { bytes[i][1] : i \in DOMAIN bytes }

CoreSymbol(slot, capacity) ==
    /\ slot.Len <= capacity
    /\ ~CutShort(CoreBytes(slot))
    /\ Pieces(CoreBytes(slot)) \cap {DigitPiece, BadPiece} = {}

NoSpaceInside(slot) == Pieces(CoreBytes(slot)) \cap WhiteSpace = {}

NoSpaceAtEdges(slot) ==
    CoreBytes(slot) # <<>> => {CoreBytes(slot)[1][1], Last(CoreBytes(slot))[1]} \cap WhiteSpace = {}

CoreDigitZero(zero) == zero = 0 \/ (ValidRune(zero) /\ zero > 127 /\ zero % 64 < 55)

(* The separators in force for a currency amount.                          *)
InForce(currency, plain) == IF currency.Len = 0 THEN CoreBytes(plain) ELSE CoreBytes(currency)

(* The core's judgement of a number format; a door it refuses answers -1,  *)
(* which the binding takes for a bug of its own.                           *)
CoreTakesNumFormat(raw) ==
    LET symbols == raw.Symbols
    IN  /\ UndefinedBit \notin raw.Flags /\ ~(PolicyBits \subseteq raw.Flags)
        /\ \A field \in NumFields : CoreSymbol(symbols[field], Slot(field))
        /\ NoSpaceAtEdges(symbols["Currency"])
        /\ symbols["DecimalSep"].Len # 0 /\ symbols["GroupSep"].Len # 0
        /\ CoreBytes(symbols["DecimalSep"]) # CoreBytes(symbols["GroupSep"])
        /\ InForce(symbols["CurrencyDecimalSep"], symbols["DecimalSep"])
              # InForce(symbols["CurrencyGroupSep"], symbols["GroupSep"])
        /\ \A field \in {"DecimalSep", "CurrencyDecimalSep", "MinusSign", "PlusSign", "Percent"} :
              NoSpaceInside(symbols[field])
        /\ CoreDigitZero(raw.DigitZero)

CoreTakesPeriods(raw) ==
    \A field \in {"AM", "PM"} :
        CoreSymbol(raw[field], DesignatorMaxBytes) /\ NoSpaceAtEdges(raw[field])

-----------------------------------------------------------------------------
(* What a caller does with the formats, up to MaxEdits times.              *)
Edit(format) ==
    /\ crossed = Nothing /\ edits < MaxEdits
    /\ edits' = edits + 1
    /\ f' = format
    /\ UNCHANGED crossed

(* NumFormat and DateFormat are plain structs: any field may be set.       *)
SetSymbol(field, symbol) == Edit([f EXCEPT ![field] = symbol]) /\ UNCHANGED declared
SetDigitZero(rune) == Edit([f EXCEPT !.DigitZero = rune]) /\ UNCHANGED declared
SetStyles(styles) ==
    /\ Edit([f EXCEPT !.Styles = styles])
    /\ declared' = Declare(styles \cap PolicyBits, styles \ PolicyBits)

(* The builders, which panic on what they do not take.                     *)
Carry(styles) == styles \cap PolicyBits # {}

NewNumFormat(decimalSep, groupSep, styles) ==
    /\ ~Carry(styles)
    /\ Edit([NumFormatOf(ZeroFormat, decimalSep, groupSep, styles)
                EXCEPT !.AM = f.AM, !.PM = f.PM])
    /\ declared' = Declare({"western"}, styles)

(* Mutant: the policy joins the one declared before.                       *)
WithGroupingCombines(policy) ==
    /\ policy \in Policies
    /\ Edit([f EXCEPT !.Styles = @ \cup policy])
    /\ declared' = Declare(policy, declared.flags)

WithGrouping(policy) ==
    /\ policy \in Policies
    /\ Edit([f EXCEPT !.Styles = (@ \ PolicyBits) \cup policy])
    /\ declared' = Declare(policy, declared.flags)

WithStyles(styles) ==
    /\ ~Carry(styles)
    /\ Edit([f EXCEPT !.Styles = (@ \cap PolicyBits) \cup styles])
    /\ declared' = Declare(declared.policy, styles)

(* A numeric door, and DateTimeWith, under the format held.                *)
NumDoor ==
    /\ crossed = Nothing
    /\ crossed' = IF NumFormatValid THEN NumLayout ELSE Panic
    /\ UNCHANGED <<f, declared, edits>>

DateTimeDoor ==
    /\ crossed = Nothing
    /\ crossed' = IF DateFormatValid THEN PeriodsLayout ELSE Panic
    /\ UNCHANGED <<f, declared, edits>>

Next ==
    \/ \E field \in SymbolFields, symbol \in Symbols : SetSymbol(field, symbol)
    \/ \E rune \in DigitZeros : SetDigitZero(rune)
    \/ \E styles \in StyleSets : SetStyles(styles) \/ WithStyles(styles)
    \/ \E styles \in StyleSets : NewNumFormat(Comma, Dot, styles)
    \/ \E policy \in SUBSET PolicyBits : WithGrouping(policy)
    \/ NumDoor \/ DateTimeDoor

Spec == Init /\ [][Next]_vars

-----------------------------------------------------------------------------
(* The two ways a format is judged agree: valid refuses what fault can     *)
(* name, and nothing else; a door that refused a format fault finds        *)
(* nothing wrong with would fail on a nil error (raw, Raw).                *)
ValidAgreesWithFault ==
    /\ NumFormatValid <=> NumFormatFault = Nothing
    /\ DateFormatValid <=> DateFormatFault = Nothing

(* A code point outside ASCII that starts ten sharing their UTF-8 prefix.   *)
StartsTenDigits(zero) ==
    zero > 127 /\ \A i \in 0..9 : ValidRune(zero + i) /\ (zero + i) \div 64 = zero \div 64

(* valid takes what the doc of NumFormat lists and nothing else, read one  *)
(* rule at a time with no fast path.                                       *)
Documented ==
    LET decimals == {"DecimalSep", "CurrencyDecimalSep"}
        groups == {"GroupSep", "CurrencyGroupSep"}
        flush == decimals \cup {"MinusSign", "PlusSign", "Percent"}
    IN  /\ UndefinedBit \notin f.Styles /\ ~(PolicyBits \subseteq f.Styles)
        /\ f.DecimalSep # <<>> /\ f.GroupSep # <<>>
        /\ f.DecimalSep # f.GroupSep /\ CurrencyDecimal # CurrencyGroup
        /\ \A field \in flush \cup groups \cup {"Currency"} :
              /\ Len(Bytes(f[field])) <= Slot(field)
              /\ Range(f[field]) \cap {BadPiece, DigitPiece} = {}
        /\ \A field \in flush : Range(f[field]) \cap WhiteSpace = {}
        /\ ~WhiteSpaceAtAnEdge(f.Currency)
        /\ f.DigitZero # 0 => StartsTenDigits(f.DigitZero)

AcceptsTheDocumented == NumFormatValid <=> Documented

(* What the binding takes the core takes, and what the core would take the *)
(* binding does: a format let through would come back as a binding bug,    *)
(* one refused in vain would be a caller's panic over a good format. Both  *)
(* are judged as the core reads them, in bytes and through their slots,    *)
(* where a symbol of 256 bytes or more would pass for a short one (symbol8 *)
(* keeps its length modulo 256): that none is laid out is valid's doing.   *)
CoreTakesWhatValidTakes ==
    LET lengthsTold == \A field \in SymbolFields : Len(Bytes(f[field])) < ByteValues
    IN  /\ NumFormatValid => CoreTakesNumFormat(NumLayout)
        /\ DateFormatValid => CoreTakesPeriods(PeriodsLayout)
        /\ lengthsTold /\ CoreTakesNumFormat(NumLayout) => NumFormatValid
        /\ lengthsTold /\ CoreTakesPeriods(PeriodsLayout) => DateFormatValid

(* Whatever the chain of builders, the policy is the one declared last and *)
(* the flags are those declared last: replacing one neither combines with  *)
(* what it was nor touches the other (WithGrouping, WithStyles).           *)
BuildersKeepApart ==
    /\ f.Styles \cap PolicyBits = declared.policy
    /\ f.Styles \ PolicyBits = declared.flags
=============================================================================
