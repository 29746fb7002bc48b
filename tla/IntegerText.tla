----------------------------- MODULE IntegerText -----------------------------
(***************************************************************************)
(* The integer doors' grammar as the core reads it (internal/core/core.go, *)
(* as translated, the 8-bit door's copy of it): white space trimmed, a     *)
(* radix prefix, two shortcuts over plain digits, and the long way: the    *)
(* dress of signs, parentheses and a currency symbol taken off, then one   *)
(* scan of what is left.                                                   *)
(*                                                                         *)
(* A text is a sequence of characters, a window its characters from lo to  *)
(* hi, and a separator one character; both letter cases are one letter.    *)
(***************************************************************************)
EXTENDS Integers, SequencesExt, Powers

CONSTANTS
    Least, Greatest,   \* what the door's type spans, two's complement
    MagnitudeMost,     \* 2^127 - 1: what the scan computes in
    ShortcutDigits,    \* 19: the digits a shortcut reads
    ExponentMost,      \* 100000: where a written exponent stops counting
    White,             \* Unicode's White_Space
    SpaceLike,         \* ' ', U+00A0 and U+202F, which stand for each other
    Wide,              \* characters of more than one byte
    NativeDigit,       \* the digits a DigitZero declares, with their values
    None,              \* no symbol, no fault, no answer
    Notations          \* formats, each with the pieces its texts are made of,
                       \* and how many of them

ASSUME IntegerTextAssumption ==
    /\ Least \in Int /\ Greatest \in Nat /\ Least <= 0
    /\ MagnitudeMost \in Nat /\ ShortcutDigits \in Nat /\ ExponentMost \in Nat
    /\ Greatest <= MagnitudeMost /\ Tens[ShortcutDigits] <= MagnitudeMost
    /\ SpaceLike \subseteq White

HexDigit ==
    LET order == <<"0", "1", "2", "3", "4", "5", "6", "7", "8", "9", "a", "b", "c", "d", "e", "f">>
    IN  [c \in ToSet(order) |-> (CHOOSE i \in DOMAIN order : order[i] = c) - 1]

AsciiDigit == [c \in { h \in DOMAIN HexDigit : HexDigit[h] < 10 } |-> HexDigit[c]]

(* What NumFormat.valid leaves a caller's symbols (go/cast.go): a format   *)
(* it refuses never crosses. No symbol holds an ASCII digit, a currency    *)
(* symbol neither starts nor ends in white space.                          *)
Symbols == Seq(STRING \ DOMAIN AsciiDigit)

Formats == [ Styles : SUBSET STRING, policy : {"legacy", "western", "indian"},
             DecimalSep : STRING, GroupSep : STRING,
             CurrencyDecimalSep : STRING \cup {None}, CurrencyGroupSep : STRING \cup {None},
             Currency : { symbol \in Symbols : symbol # <<>> => {Head(symbol), Last(symbol)} \cap White = {} },
             MinusSign : Symbols, PlusSign : Symbols, native : BOOLEAN ]

ASSUME NotationsAssumption ==
    /\ \A n \in Notations : n.format \in Formats /\ n.pieces \subseteq Seq(STRING)
    /\ White \cap (DOMAIN AsciiDigit \cup {"-", "+"}) = {}
    /\ DOMAIN NativeDigit \subseteq Wide
    /\ None \notin [width : Nat, negative : BOOLEAN]

(* Mutant: declared digits replace the ASCII ones.                         *)
DigitOfNative(f) == IF f.native THEN NativeDigit ELSE AsciiDigit

DigitOf(f) == IF f.native THEN [c \in DOMAIN NativeDigit \cup DOMAIN AsciiDigit |->
                                  IF c \in DOMAIN AsciiDigit THEN AsciiDigit[c] ELSE NativeDigit[c]]
              ELSE AsciiDigit

-----------------------------------------------------------------------------
(* Verdicts: a value, or a reason, a detail and a span.                    *)
Reads(n) == [status |-> "value", value |-> n]

Fault(reason, detail, lo, hi) ==
    [status |-> "fault", reason |-> reason, detail |-> detail, at |-> lo - 1, length |-> hi - lo + 1]

Malformed(detail, lo, hi) == Fault("Malformed", detail, lo, hi)

OutOfRange(negative, w) ==
    Fault("OutOfRange",
          IF ~negative THEN "TooLarge" ELSE IF Least = 0 THEN "NegativeNotAllowed" ELSE "TooSmall",
          w.lo, w.hi)

InRange(n, w) == IF n \in Least .. Greatest THEN Reads(n) ELSE OutOfRange(n < 0, w)

Signed(negative, n) == IF negative THEN -n ELSE n

(* A number with a digit appended, or TooMuch for ever.                    *)
TooMuch == MagnitudeMost + 1

Append10(n, digit) == IF n > (MagnitudeMost - digit) \div 10 THEN TooMuch ELSE 10 * n + digit

-----------------------------------------------------------------------------
(* Windows and what stands at their edges.                                 *)
Window(lo, hi) == [lo |-> lo, hi |-> hi]

Chars(t, w) == SubSeq(t, w.lo, w.hi)

Ink(t, w) == { i \in w.lo .. w.hi : t[i] \notin White }

TrimStart(t, w) == [w EXCEPT !.lo = IF Ink(t, w) = {} THEN w.hi + 1 ELSE Min(Ink(t, w))]
TrimEnd(t, w) == [w EXCEPT !.hi = IF Ink(t, w) = {} THEN w.lo - 1 ELSE Max(Ink(t, w))]
Trim(t, w) == TrimEnd(t, TrimStart(t, w))

Blank(w) == w.lo > w.hi

Alike(c, symbol) == c = symbol \/ {c, symbol} \subseteq SpaceLike

(* A symbol in a window, from lo on; a space in a currency symbol may be   *)
(* another of its kind.                                                    *)
LooseAt(t, w, symbol, lo) ==
    /\ symbol # <<>> /\ lo >= w.lo /\ lo + Len(symbol) - 1 <= w.hi
    /\ \A i \in DOMAIN symbol : Alike(t[lo + i - 1], symbol[i])

ExactAt(t, w, symbol, lo) == LooseAt(t, w, symbol, lo) /\ SubSeq(t, lo, lo + Len(symbol) - 1) = symbol

(* The spellings of a sign, in the order they are tried.                   *)
Signs(f) == << [symbol |-> <<"-">>, negative |-> TRUE], [symbol |-> <<"+">>, negative |-> FALSE],
               [symbol |-> f.MinusSign, negative |-> TRUE],
               [symbol |-> f.PlusSign, negative |-> FALSE] >>

FirstSign(f, found) ==
    IF found = {} THEN None
    ELSE [width |-> Len(Signs(f)[Min(found)].symbol), negative |-> Signs(f)[Min(found)].negative]

SignAt(f, t, w) == FirstSign(f, { k \in 1 .. 4 : ExactAt(t, w, Signs(f)[k].symbol, w.lo) })

(* Mutant: only the ASCII signs end a text.                                *)
SignEndingAscii(f, t, w) ==
    FirstSign(f, { k \in 1 .. 2 : ExactAt(t, w, Signs(f)[k].symbol, w.hi) })

SignEnding(f, t, w) ==
    FirstSign(f, { k \in 1 .. 4 : ExactAt(t, w, Signs(f)[k].symbol, w.hi - Len(Signs(f)[k].symbol) + 1) })

(* A declared symbol of an amount, in force where a currency symbol was    *)
(* found, or else the number's own.                                        *)
Or(symbol, fallback) == IF symbol = None THEN fallback ELSE symbol
DecimalOf(f, amount) == IF amount THEN Or(f.CurrencyDecimalSep, f.DecimalSep) ELSE f.DecimalSep
GroupOf(f, amount) == IF amount THEN Or(f.CurrencyGroupSep, f.GroupSep) ELSE f.GroupSep

HasCurrency(f) == "currency" \in f.Styles /\ f.Currency # <<>>

(* Digits to a group but the one next to the decimal separator, which has  *)
(* three.                                                                  *)
Strict(f) == f.policy # "legacy"
GroupDigits(f) == IF f.policy = "indian" THEN 2 ELSE 3

-----------------------------------------------------------------------------
(* Dress: signs, parentheses and a currency symbol around the numeral.     *)
(* Taken off, it leaves the numeral's window, its sign and whether it is   *)
(* an amount; or a fault.                                                  *)
Bare(numeral, negative, amount) ==
    [status |-> "bare", numeral |-> numeral, negative |-> negative, amount |-> amount]

(* What is left once parentheses and the currency symbol are off: a sign   *)
(* before it, unless one stood before the symbol, or after it, unless one  *)
(* stands before it or around it.                                          *)
Unsigned(f, t, body, rest, parens, before, after, amount) ==
    LET sign == SignAt(f, t, rest)
        here == IF before = None /\ sign # None
                THEN TrimStart(t, Window(rest.lo + sign.width, rest.hi)) ELSE rest
        negative == IF before # None THEN before.negative
                    ELSE IF sign # None THEN sign.negative ELSE parens
        taken == parens \/ before # None \/ sign # None
        last == IF "trailingSign" \in f.Styles /\ ~Blank(here) THEN SignEnding(f, t, here) ELSE None
    IN  IF sign # None /\ (before # None \/ parens)
        THEN Malformed("SignMisplaced", rest.lo, rest.lo + sign.width - 1)
        ELSE IF before # None /\ parens
        THEN Malformed("SignMisplaced", body.lo, body.lo + before.width - 1)
        ELSE IF last # None /\ taken
        THEN Malformed("SignMisplaced", here.hi - last.width + 1, here.hi)
        ELSE IF after # None /\ (taken \/ last # None)
        THEN Malformed("SignMisplaced", body.hi - after.width + 1, body.hi)
        ELSE IF last # None
        THEN Bare(TrimEnd(t, Window(here.lo, here.hi - last.width)), last.negative, amount)
        ELSE Bare(here, IF after # None THEN after.negative ELSE negative, amount)

(* The currency symbol at the front of the body, behind a sign or not, or  *)
(* at its end, before a sign or not.                                       *)
WithoutCurrency(f, t, body, parens) ==
    LET lead == SignAt(f, t, body)
        front == IF lead = None THEN body ELSE TrimStart(t, Window(body.lo + lead.width, body.hi))
        ending == IF "trailingSign" \in f.Styles THEN SignEnding(f, t, body) ELSE None
        tail == IF ending = None \/ ending.width = body.hi - body.lo + 1 THEN None ELSE ending
        back == IF tail = None THEN body ELSE TrimEnd(t, Window(body.lo, body.hi - tail.width))
        width == Len(f.Currency)
        prefixed == HasCurrency(f) /\ LooseAt(t, front, f.Currency, front.lo)
        suffixed == HasCurrency(f) /\ LooseAt(t, back, f.Currency, back.hi - width + 1)
        rest == Trim(t, IF prefixed THEN Window(front.lo + width, front.hi)
                        ELSE Window(back.lo, back.hi - width))
    IN  IF ~prefixed /\ ~suffixed THEN Unsigned(f, t, body, body, parens, None, None, FALSE)
        ELSE IF Blank(rest) THEN Malformed("NoDigits", body.lo, body.hi)
        ELSE IF prefixed THEN Unsigned(f, t, body, rest, parens, lead, None, TRUE)
        ELSE Unsigned(f, t, body, rest, parens, None, tail, TRUE)

Undress(f, t, w) ==
    LET parens == "parentheses" \in f.Styles /\ t[w.lo] = "("
        inside == Trim(t, Window(w.lo + 1, w.hi - 1))
    IN  IF ~parens THEN WithoutCurrency(f, t, w, FALSE)
        ELSE IF w.lo = w.hi \/ t[w.hi] # ")" \/ Blank(inside)
        THEN Malformed("ParenthesesUnbalanced", w.lo, w.hi)
        ELSE WithoutCurrency(f, t, inside, TRUE)

-----------------------------------------------------------------------------
(* The scan: digits, group separators between them and one exponent. "run" *)
(* digits have passed since position "from", where the numeral started or  *)
(* its last group separator stands; "mark" is the exponent's letter.       *)
Digit(f, t, i, hi) == i <= hi /\ t[i] \in DOMAIN DigitOf(f)

BadLastGroup(f, s) == Strict(f) /\ s.grouped /\ s.run # 3

GroupSize(s, i) == Malformed("GroupSize", s.from, i - 1)

(* What a character that fits nowhere is called.                           *)
Unexpected(f, t, n, i) ==
    LET rest == Window(i, n.hi)
    IN  IF t[i] \in {"-", "+"} \/ \E k \in 3 .. 4 : ExactAt(t, rest, Signs(f)[k].symbol, i)
        THEN Malformed("SignMisplaced", i, i)
        ELSE IF i = n.lo /\ Chars(t, n) \in { <<"n", "a", "n">>, <<"i", "n", "f">>,
                                              <<"i", "n", "f", "i", "n", "i", "t", "y">> }
        THEN Malformed("NotFinite", i, i)
        ELSE Malformed("UnexpectedCharacter", i, i)

(* Mutant: the leftmost group may have any size.                           *)
GroupedLeftmost(f, t, n, s, i) ==
    IF s.run = 0 \/ ~Digit(f, t, i + 1, n.hi) THEN Malformed("GroupMisplaced", i, i)
    ELSE IF Strict(f) /\ s.grouped /\ s.run # GroupDigits(f) THEN GroupSize(s, i)
    ELSE None

Grouped(f, t, n, s, i) ==
    LET conforms == ~Strict(f) \/ s.run = GroupDigits(f) \/ (~s.grouped /\ s.run < GroupDigits(f))
    IN  IF s.run = 0 THEN Malformed("GroupMisplaced", i, i)
        ELSE IF ~conforms THEN GroupSize(s, i)
        ELSE IF ~Digit(f, t, i + 1, n.hi) THEN Malformed("GroupMisplaced", i, i)
        ELSE None

ScanStep(f, t, n, amount, s, i) ==
    IF s.fault # None \/ s.mark # None THEN s
    ELSE IF Digit(f, t, i, n.hi)
    THEN [s EXCEPT !.value = Append10(@, DigitOf(f)[t[i]]), !.run = @ + 1]
    ELSE IF t[i] = DecimalOf(f, amount)
    THEN [s EXCEPT !.fault = IF BadLastGroup(f, s) THEN GroupSize(s, i)
                             ELSE Malformed("FractionNotAllowed", i, i)]
    ELSE IF "grouping" \in f.Styles /\ Alike(t[i], GroupOf(f, amount))
    THEN [s EXCEPT !.fault = Grouped(f, t, n, s, i), !.run = 0, !.from = i, !.grouped = TRUE]
    ELSE IF BadLastGroup(f, s) THEN [s EXCEPT !.fault = GroupSize(s, i)]
    ELSE IF t[i] = "e" /\ "exponent" \in f.Styles /\ i > n.lo THEN [s EXCEPT !.mark = i]
    ELSE [s EXCEPT !.fault = Unexpected(f, t, n, i)]

Scanned(f, t, n, amount) ==
    LET start == [value |-> 0, run |-> 0, from |-> n.lo, grouped |-> FALSE, fault |-> None, mark |-> None]
        at[i \in n.lo - 1 .. n.hi] ==
            IF i < n.lo THEN start ELSE ScanStep(f, t, n, amount, at[i - 1], i)
    IN  at[n.hi]

(* A written exponent, after the letter at "mark": no sign but a plus,     *)
(* digits to the numeral's end.                                            *)
ExponentStart(t, n, mark) == mark + (IF mark < n.hi /\ t[mark + 1] = "+" THEN 2 ELSE 1)

ExponentFault(f, t, n, amount, mark) ==
    LET start == ExponentStart(t, n, mark)
        bad == { i \in start .. n.hi : ~Digit(f, t, i, n.hi) }
    IN  IF start <= n.hi /\ t[start] = "-" THEN Malformed("FractionNotAllowed", start, start)
        ELSE IF start > n.hi \/ start \in bad THEN Malformed("DigitExpected", mark, mark)
        ELSE IF bad = {} THEN None
        ELSE IF "grouping" \in f.Styles /\ Strict(f) /\ Alike(t[Min(bad)], GroupOf(f, amount))
        THEN Malformed("GroupInFraction", Min(bad), Min(bad))
        ELSE Unexpected(f, t, n, Min(bad))

WrittenExponent(f, t, lo, hi) ==
    FoldLeft(LAMBDA e, c : Min({ 10 * e + DigitOf(f)[c], ExponentMost + 1 }), 0, SubSeq(t, lo, hi))

Scaled(value, exponent) ==
    LET at[e \in 0 .. exponent] == IF e = 0 THEN value ELSE Append10(at[e - 1], 0) IN at[exponent]

(* The scan's end, s, and its verdict.                                     *)
ExponentOf(f, t, n, s) ==
    IF s.mark = None THEN 0 ELSE WrittenExponent(f, t, ExponentStart(t, n, s.mark), n.hi)

Judged(negative, n, w) == IF n = TooMuch THEN OutOfRange(negative, w) ELSE InRange(Signed(negative, n), w)

FaultAtEnd(f, t, n, amount, s) ==
    IF s.fault # None THEN s.fault
    ELSE IF s.mark # None THEN ExponentFault(f, t, n, amount, s.mark)
    ELSE IF BadLastGroup(f, s) THEN GroupSize(s, n.hi + 1)
    ELSE None

ScanEnd(f, t, w, bare, s, fault) ==
    IF fault # None THEN fault
    ELSE Judged(bare.negative, Scaled(s.value, ExponentOf(f, t, bare.numeral, s)), w)

ScanOf(f, t, w, bare, s) == ScanEnd(f, t, w, bare, s, FaultAtEnd(f, t, bare.numeral, bare.amount, s))

Scan(f, t, w, bare) ==
    IF bare.status = "fault" THEN bare
    ELSE IF Blank(bare.numeral) THEN Malformed("NoDigits", w.lo, w.hi)
    ELSE ScanOf(f, t, w, bare, Scanned(f, t, bare.numeral, bare.amount))

LongWay(f, t, w) == Scan(f, t, w, Undress(f, t, w))

-----------------------------------------------------------------------------
(* SeparatorDetect: the separators a text itself shows. One mark alone, in *)
(* front of three digits, could be either.                                 *)
AsciiDigits(t, lo, hi) == \A i \in lo .. hi : t[i] \in DOMAIN AsciiDigit

(* Mutant: any 0 before the mark proves it a decimal one, not a lone one.  *)
AmbiguousAfterZero(t, w, i) ==
    /\ i + 3 <= w.hi /\ AsciiDigits(t, i + 1, i + 3)
    /\ i + 4 <= w.hi => t[i + 4] \notin DOMAIN AsciiDigit
    /\ i > w.lo => t[i - 1] # "0"

Ambiguous(t, w, i) ==
    /\ i + 3 <= w.hi /\ AsciiDigits(t, i + 1, i + 3)
    /\ i + 4 <= w.hi => t[i + 4] \notin DOMAIN AsciiDigit
    /\ ~ /\ i > w.lo /\ t[i - 1] = "0"
         /\ i - 1 > w.lo => t[i - 2] \notin DOMAIN AsciiDigit

Detected(f, t, w) ==
    LET points == { i \in w.lo .. w.hi : t[i] = "." }
        commas == { i \in w.lo .. w.hi : t[i] = "," }
        comma == IF points # {} /\ commas # {} THEN Max(commas) > Max(points)
                 ELSE Cardinality(commas) = 1 \/ Cardinality(points) > 1
    IN  IF "detect" \notin f.Styles THEN f
        ELSE IF Cardinality(points \cup commas) = 1 /\ Ambiguous(t, w, Max(points \cup commas))
        THEN Malformed("AmbiguousSeparator", Max(points \cup commas), Max(points \cup commas))
        ELSE [f EXCEPT !.Styles = @ \ {"detect"},
                       !.DecimalSep = IF comma THEN "," ELSE ".", !.GroupSep = IF comma THEN "." ELSE ",",
                       !.CurrencyDecimalSep = None, !.CurrencyGroupSep = None]

(* A radix prefix: the digits that follow are the bits of the door's type. *)
RadixOf(t, w) ==
    IF w.lo = w.hi THEN None
    ELSE CASE Chars(t, Window(w.lo, w.lo + 1)) \in { <<"0", "x">>, <<"&", "h">> } -> 16
           [] Chars(t, Window(w.lo, w.lo + 1)) = <<"0", "b">> -> 2
           [] OTHER -> None

Span == Greatest - Least

Bits(t, w, radix) ==
    LET digits == { c \in DOMAIN HexDigit : HexDigit[c] < radix }
        bad == { i \in w.lo + 2 .. w.hi : t[i] \notin digits }
        n == FoldLeft(LAMBDA sum, c : IF sum > Span THEN sum ELSE radix * sum + HexDigit[c],
                      0, SubSeq(t, w.lo + 2, w.hi))
    IN  IF w.lo + 1 = w.hi THEN Malformed("NoDigits", w.lo, w.hi)
        ELSE IF bad # {} THEN Malformed("DigitExpected", Min(bad), Min(bad))
        ELSE IF n > Span THEN OutOfRange(FALSE, w)
        ELSE Reads(IF n > Greatest THEN n - Span - 1 ELSE n)

-----------------------------------------------------------------------------
(* Shortcuts: answers for the plainest texts, None for every other.        *)
PlainSign(t, w) == ~Blank(w) /\ t[w.lo] \in {"-", "+"}

BehindSign(t, w) == IF PlainSign(t, w) THEN Window(w.lo + 1, w.hi) ELSE w

Value(t, w) ==
    LET at[i \in w.lo - 1 .. w.hi] ==
            IF i < w.lo THEN 0
            ELSE IF t[i] \in DOMAIN AsciiDigit THEN Append10(at[i - 1], AsciiDigit[t[i]]) ELSE at[i - 1]
    IN  at[w.hi]

DigitsAlone(t, w) ==
    LET digits == BehindSign(t, w)
    IN  IF Blank(digits) \/ digits.hi - digits.lo >= ShortcutDigits \/ ~AsciiDigits(t, digits.lo, digits.hi)
        THEN None
        ELSE InRange(Signed(t[w.lo] = "-", Value(t, digits)), w)

(* Groups as a strict policy has them.                                     *)
Conforms(f, t, n, group) ==
    LET marks == { i \in n.lo .. n.hi : t[i] = group }
        run(i) == (IF i = Max(marks) THEN n.hi + 1 ELSE Min({ j \in marks : j > i })) - i - 1
    IN  marks # {} => /\ Min(marks) - n.lo <= GroupDigits(f)
                      /\ \A i \in marks : run(i) = IF i = Max(marks) THEN 3 ELSE GroupDigits(f)

(* Mutant: the shortcut leaves the groups' sizes to the long way.          *)
PlainNumeralAnyGroups(f, t, n, amount) ==
    LET marks == { i \in n.lo .. n.hi : t[i] \notin DOMAIN AsciiDigit }
    IN  /\ ~Blank(n) /\ n.hi - n.lo + 1 - Cardinality(marks) <= ShortcutDigits
        /\ marks # {} => "grouping" \in f.Styles
        /\ \A i \in marks : /\ t[i] = GroupOf(f, amount) /\ {i - 1, i + 1} \subseteq n.lo .. n.hi
                            /\ {i - 1, i + 1} \cap marks = {}

PlainNumeral(f, t, n, amount) ==
    LET group == GroupOf(f, amount)
        marks == { i \in n.lo .. n.hi : t[i] \notin DOMAIN AsciiDigit }
    IN  /\ ~Blank(n) /\ n.hi - n.lo + 1 - Cardinality(marks) <= ShortcutDigits
        /\ marks # {} => "grouping" \in f.Styles /\ group # DecimalOf(f, amount)
        /\ \A i \in marks : /\ t[i] = group /\ {i - 1, i + 1} \subseteq n.lo .. n.hi
                            /\ {i - 1, i + 1} \cap marks = {}
        /\ Strict(f) => Conforms(f, t, n, group)

PlainlyDressed(f, t, w) ==
    LET parens == "parentheses" \in f.Styles /\ t[w.lo] = "("
        inside == IF parens THEN Window(w.lo + 1, w.hi - 1) ELSE w
        signed == PlainSign(t, inside)
        front == BehindSign(t, inside)
        width == Len(f.Currency)
        prefixed == HasCurrency(f) /\ ExactAt(t, front, f.Currency, front.lo)
        suffixed == HasCurrency(f) /\ ~prefixed /\ ExactAt(t, inside, f.Currency, inside.hi - width + 1)
        amount == prefixed \/ suffixed
        behind == Window(front.lo + width, front.hi)
        numeral == IF prefixed THEN BehindSign(t, behind)
                   ELSE IF suffixed THEN Window(front.lo, front.hi - width) ELSE front
        again == prefixed /\ PlainSign(t, behind)
        negative == IF again THEN t[behind.lo] = "-" ELSE IF signed THEN t[inside.lo] = "-" ELSE parens
    IN  IF /\ {f.DecimalSep, f.GroupSep, DecimalOf(f, amount), GroupOf(f, amount)} \cap Wide = {}
           /\ parens => w.lo < w.hi /\ t[w.hi] = ")" /\ ~signed
           /\ again => ~parens /\ ~signed
           /\ PlainNumeral(f, t, numeral, amount)
        THEN InRange(Signed(negative, Value(t, numeral)), w) ELSE None

-----------------------------------------------------------------------------
(* A text against a format.                                                *)
IsFault(answer) == "status" \in DOMAIN answer

OrElse(answer, next) == IF answer # None THEN answer ELSE next

Numeral(f, t, w) ==
    LET radix == IF "radix" \in f.Styles THEN RadixOf(t, w) ELSE None
    IN  IF radix # None THEN Bits(t, w, radix) ELSE OrElse(PlainlyDressed(f, t, w), LongWay(f, t, w))

Under(found, t, w) == IF IsFault(found) THEN found ELSE Numeral(found, t, w)

Parse(f, t) ==
    LET w == Trim(t, Window(1, Len(t)))
    IN  IF Blank(w) THEN Fault("Empty", "Blank", 1, 0)
        ELSE OrElse(DigitsAlone(t, w), Under(Detected(f, t, w), t, w))

-----------------------------------------------------------------------------
(* A caller types a text and the door reads it after every piece.          *)
VARIABLES notation, text, typed, read

vars == <<notation, text, typed, read>>

Format == notation.format

Init ==
    /\ notation \in Notations
    /\ text = <<>> /\ typed = 0
    /\ read = Parse(notation.format, <<>>)

Type ==
    /\ typed < notation.room
    /\ typed' = typed + 1
    /\ \E piece \in notation.pieces : text' = text \o piece
    /\ read' = Parse(Format, text')
    /\ UNCHANGED notation

Spec == Init /\ [][Type]_vars

-----------------------------------------------------------------------------
IsValue(verdict) == verdict.status = "value"

Whole == Trim(text, Window(1, Len(text)))

(* A shortcut that answers gives the very verdict of the long way it       *)
(* spares: same value, same refusal, same span.                            *)
RoutesAgreeUnder(f, longWay) ==
    \A answer \in {DigitsAlone(text, Whole), PlainlyDressed(f, text, Whole)} \ {None} : answer = longWay

RoutesAgree ==
    \A f \in {Detected(Format, text, Whole)} :
        ~Blank(Whole) => RoutesAgreeUnder(IF IsFault(f) THEN Format ELSE f,
                                          LongWay(IF IsFault(f) THEN Format ELSE f, text, Whole))

(* From the first digit to the last before an exponent.                    *)
NumeralText ==
    LET isDigit(i) == text[i] \in DOMAIN DigitOf(Format)
        first == Min({ i \in DOMAIN text : isDigit(i) })
        letters == { i \in first .. Len(text) : text[i] = "e" }
        end == IF letters = {} THEN Len(text) ELSE Min(letters) - 1
    IN  SubSeq(text, first, Max({ i \in first .. end : isDigit(i) }))

(* Three digits next to the numeral's end, and groups of the policy's size *)
(* to their left.                                                          *)
GroupStarts(policy, r) == r = 3 \/ (r > 3 /\ (r - 3) % (IF policy = "indian" THEN 2 ELSE 3) = 0)

GroupsConform(policy, numeral) ==
    LET digits == { i \in DOMAIN numeral : numeral[i] \in DOMAIN DigitOf(Format) }
        after(i) == Cardinality({ j \in digits : j >= i })
    IN  digits = DOMAIN numeral \/
        \A i \in digits \ {1} : i - 1 \notin digits <=> GroupStarts(policy, after(i))

(* A strict policy reads what the legacy one reads, as the same number,    *)
(* when its groups conform, and nothing else: "once a numeral uses a group *)
(* separator every group must conform", and "an ungrouped numeral is valid *)
(* under every policy" (GroupingPolicy's doc in cast.go).                  *)
PoliciesJudgeGroups ==
    LET plain == "radix" \notin Format.Styles \/ Blank(Whole) \/ RadixOf(text, Whole) = None
        under == [policy \in {"legacy", "western", "indian"} |->
                    Parse([Format EXCEPT !.policy = policy], text)]
    IN  plain => \A verdict \in {under}, policy \in {"western", "indian"} :
          IF IsValue(verdict["legacy"]) /\ GroupsConform(policy, NumeralText)
          THEN verdict[policy] = verdict["legacy"] ELSE ~IsValue(verdict[policy])

(* "Nothing that parsed before a symbol was declared stops parsing once it *)
(* is" (NumFormat's doc in cast.go), nor does it become another number:    *)
(* without a sign, the currency or the native digits, the door reads less. *)
DeclaringReadsNoLess ==
    LET less == { [Format EXCEPT !.MinusSign = <<>>], [Format EXCEPT !.PlusSign = <<>>],
                  [Format EXCEPT !.Currency = <<>>], [Format EXCEPT !.native = FALSE] }
    IN  \A before \in { Parse(f, text) : f \in less } : IsValue(before) => read = before

-----------------------------------------------------------------------------
(* The ways the docs of NumStyles and NumFormat write a number down.       *)
GroupedDigits(digits, group) ==
    FlattenSeq([i \in DOMAIN digits |->
        IF i > 1 /\ GroupStarts(Format.policy, Len(digits) - i + 1)
        THEN <<group, digits[i]>> ELSE <<digits[i]>>])

Spellings(digits, negative) ==
    LET numerals(amount) ==
            {digits} \cup (IF {"grouping", "detect"} \cap Format.Styles = {"grouping"}
                           THEN { GroupedDigits(digits, GroupOf(Format, amount)) } ELSE {})
        gaps == { <<>>, <<" ">> }
        symbols == IF HasCurrency(Format) THEN {Format.Currency} ELSE {}
        signs == (IF negative THEN { <<"-">>, Format.MinusSign } ELSE { <<"+">>, Format.PlusSign }) \ { <<>> }
        bare == numerals(FALSE)
                \cup { c \o gap \o n : c \in symbols, gap \in gaps, n \in numerals(TRUE) }
                \cup { n \o gap \o c : c \in symbols, gap \in gaps, n \in numerals(TRUE) }
        signed == { s \o gap \o n : s \in signs, gap \in gaps, n \in bare }
                  \cup { c \o gap \o s \o n : c \in symbols, gap \in gaps, s \in signs, n \in numerals(TRUE) }
                  \cup (IF "trailingSign" \in Format.Styles
                        THEN { n \o gap \o s : n \in bare, gap \in gaps, s \in signs }
                             \cup { n \o s \o gap \o c :
                                     c \in symbols, gap \in gaps, s \in signs, n \in numerals(TRUE) }
                        ELSE {})
    IN  signed \cup (IF ~negative THEN bare
                     ELSE { <<"(">> \o n \o <<")">> : n \in IF "parentheses" \in Format.Styles THEN bare ELSE {} })

(* A number reads back from every way the docs write it down: grouped by   *)
(* its policy or not, its sign in front, behind the currency symbol, after *)
(* the digits or as parentheses, in any spelling, the symbol at either     *)
(* edge with a gap or without.                                             *)
SpellingsReadBack ==
    text # <<>> /\ AsciiDigits(text, 1, Len(text)) /\ text[1] # "0" =>
        \A negative \in BOOLEAN :
            LET n == Signed(negative, Value(text, Window(1, Len(text))))
            IN  n \in Least .. Greatest =>
                    \A t \in Spellings(text, negative) : Parse(Format, t) = Reads(n)

(* Under SeparatorDetect the door reads what either convention reads, or   *)
(* says that the separator is ambiguous; only a lone 0 before a separator  *)
(* proves it a decimal one (SeparatorDetect's doc in cast.go).             *)
DetectionReadsOrAsks ==
    LET conventions ==
            { [Format EXCEPT !.Styles = @ \ {"detect"}, !.DecimalSep = d,
                             !.GroupSep = IF d = "." THEN "," ELSE "."] : d \in {".", ","} }
        loneZero == \E i \in DOMAIN text :
            /\ text[i] \in {".", ","} /\ i > 1 /\ text[i - 1] = "0"
            /\ i > 2 => text[i - 2] \notin DOMAIN AsciiDigit
    IN  "detect" \in Format.Styles => \A readings \in { { Parse(f, text) : f \in conventions } } :
          /\ IsValue(read) => read \in readings
          /\ \A other \in readings : IsValue(other) =>
                read \in {other} \/ loneZero \/ read.detail = "AmbiguousSeparator"

(* A currency symbol never takes part in the digit scan, "so a symbol      *)
(* containing a separator character is fine" (README.md, cast.go): spelled *)
(* with a point, it takes nothing from what the door reads.                *)
SymbolsTakeNoPart ==
    LET dotted == [Format EXCEPT !.Currency = Append(@, ".")]
        spelled == FlattenSeq([i \in DOMAIN text |->
                       IF <<text[i]>> = Format.Currency THEN dotted.Currency ELSE <<text[i]>>])
    IN  IsValue(read) => Parse(dotted, spelled) = read

=============================================================================
