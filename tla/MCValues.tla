------------------------------ MODULE MCValues ------------------------------
(***************************************************************************)
(* One value a caller holds, asked of what converts it: AsDuration over    *)
(* every duration of a small window, wider than its integer; the Excel     *)
(* doors over every double of a small format; the real calendar, a cell a  *)
(* day; Decimal.String over every magnitude of two small words. A          *)
(* magnitude of at most 2^9 - 1 has three digits, and the scale is at most *)
(* one less, as 28 is one less than the 29 digits of 2^96 - 1; the buffer  *)
(* holds the digits, a point and a sign and no more, for the spare places  *)
(* of the real one would hide an overrun.                                  *)
(***************************************************************************)
EXTENDS DurationConvert, ExcelSerials, DecimalText

CONSTANTS
    Precision,              \* bits of a mantissa under its first: 52
    Shifts,                 \* the binades
    Years                   \* years whose every day is asked for

(* No double in range stores two whole seconds, and one past MaxShift is   *)
(* nearer to none than to the first nanosecond.                            *)
ASSUME DoublesAssumption ==
    /\ Precision \in Nat /\ Shifts \subseteq Nat
    /\ (Last1900 + 1) * Day < Twos[Precision] * Second
    /\ WindowSeconds < Twos[Precision]
    /\ 8 * Twos[Precision + 1] * Day <= Twos[MaxShift + 1]

ASSUME YearsAssumption == \A y \in Years : y \in Nat /\ 1900 <= y /\ y <= 9999

(* The workbook's own calendar, at its real size.                          *)
RealLast1900 == 2958465
RealLast1904 == 2957003
Real == INSTANCE ExcelSerials
            WITH Phantom <- 60, Last1900 <- RealLast1900, Last1904 <- RealLast1904

MCShifts == 5 .. 24
MCWord == 2 ^ 5
MCHighWord == 2 ^ 4
MCYears == (1900 .. 2301) \cup (9990 .. 9999)

VARIABLES asked, result

Nothing == [kind |-> "nothing"]

-----------------------------------------------------------------------------
Double(negative, mantissa, shift) ==
    [ finite |-> TRUE, negative |-> negative, mantissa |-> mantissa, shift |-> shift,
      power |-> mantissa = Twos[Precision] ]

Doubles ==
    { Double(bits[1], bits[2], bits[3]) :
        bits \in BOOLEAN \X (Twos[Precision] .. Twos[Precision + 1] - 1) \X Shifts }
    \cup { Double(b, 0, MaxShift + 1) : b \in BOOLEAN }
    \cup { [Double(FALSE, 0, 0) EXCEPT !.finite = FALSE] }

(* The calendar by its own rules, to hold the arithmetic against.          *)
LeapYear(y) == y % 4 = 0 /\ (y % 100 # 0 \/ y % 400 = 0)

DaysIn(y, m) ==
    IF m = 2 THEN IF LeapYear(y) THEN 29 ELSE 28
    ELSE IF m \in {4, 6, 9, 11} THEN 30 ELSE 31

Date(y, m, day) == [year |-> y, month |-> m, day |-> day]

NextDay(date) ==
    IF date.day < DaysIn(date.year, date.month) THEN Date(date.year, date.month, date.day + 1)
    ELSE IF date.month < 12 THEN Date(date.year, date.month + 1, 1)
    ELSE Date(date.year + 1, 1, 1)

(* The serial of a year's first day: 1900-01-01 is 1, with the phantom     *)
(* counted after it, and 1904-01-01 is 0.                                  *)
FirstDay(epoch, y) ==
    LET start == IF epoch = 1 THEN 1900 ELSE 1904
        leaps == Cardinality({ z \in start .. y - 1 : LeapYear(z) })
    IN  365 * (y - start) + leaps + (IF epoch # 1 THEN 0 ELSE IF y = 1900 THEN 1 ELSE 2)

NothingToRender ==
    /\ d = Nothing /\ stage = "none"
    /\ hi = 0 /\ lo = 0 /\ digits = 0 /\ n = 0 /\ buf = <<>>

AskedToConvert ==
    /\ NothingToRender
    /\ result = Nothing
    /\ \/ \E x \in Durations : asked = [kind |-> "duration", d |-> x]
       \/ \E v \in Doubles, door \in {"serial", "time", "span"}, epoch \in 1 .. 2 :
             /\ epoch = 2 => door = "serial"
             /\ asked = [kind |-> "double", v |-> v, door |-> door, epoch |-> epoch]
       \/ \E epoch \in 1 .. 2, y \in Years :
             /\ epoch = 2 => y >= 1904
             /\ asked = [ kind |-> "cell", epoch |-> epoch, serial |-> FirstDay(epoch, y),
                          date |-> Date(y, 1, 1) ]

AskedToRender == asked = [kind |-> "decimal"] /\ result = Nothing /\ Init

MCInit == AskedToConvert \/ AskedToRender

Answer(answer) == result = Nothing /\ result' = answer /\ UNCHANGED <<asked, vars>>

Converted(x) == [kind |-> "converted", value |-> AsDuration(x).value, ok |-> AsDuration(x).ok]

ConvertDuration == asked.kind = "duration" /\ Answer(Converted(asked.d))

ReadDouble ==
    /\ asked.kind = "double"
    /\ Answer(CASE asked.door = "serial" -> ExcelSerialFromFloat64(asked.v, asked.epoch)
                [] asked.door = "time"   -> ExcelTime(asked.v)
                [] asked.door = "span"   -> ExcelDuration(asked.v))

ReadCell ==
    /\ asked.kind = "cell"
    /\ Answer([kind |-> "civil", date |-> Real!CivilOfSerial(asked.serial, asked.epoch)])

(* The workbook's next row, a day later; the 1900 system has 60 between    *)
(* the twenty-eighth of February and the first of March.                   *)
PhantomDay == Date(1900, 2, 29)

NextRow(epoch, date) ==
    IF epoch = 1 /\ date = Date(1900, 2, 28) THEN PhantomDay
    ELSE IF date = PhantomDay THEN Date(1900, 3, 1) ELSE NextDay(date)

NextCell ==
    /\ asked.kind = "cell" /\ result # Nothing
    /\ asked.date.day # 31 \/ asked.date.month # 12 \/ asked.date.year = 9999
    /\ asked.date.year # 10000
    /\ asked' = [ kind |-> "cell", epoch |-> asked.epoch, serial |-> asked.serial + 1,
                  date |-> NextRow(asked.epoch, asked.date) ]
    /\ result' = Nothing
    /\ UNCHANGED vars

Render == asked.kind = "decimal" /\ Next /\ UNCHANGED <<asked, result>>

MCNext == ConvertDuration \/ ReadDouble \/ ReadCell \/ NextCell \/ Render

MCSpec == MCInit /\ [][MCNext]_<<asked, result, vars>>

-----------------------------------------------------------------------------
Answered(kind) == asked.kind = kind /\ result # Nothing

(* Every duration a time.Duration can hold converts, to the nanosecond, at *)
(* either end of its range too (Duration.AsDuration).                      *)
WhatFitsConverts ==
    Answered("duration") /\ Representable(asked.d) =>
        result.ok /\ result.value = Exactly(asked.d)

(* AsDuration "report[s] false when the value exceeds time.Duration's      *)
(* +-292-year representable range", and so never returns a wrapped value.  *)
WhatDoesNotFitIsReported ==
    Answered("duration") /\ ~Representable(asked.d) => ~result.ok

(* The double v stores the nanosecond t: t rounds to it.                   *)
Off(v, t) == t * Scale(v) - Nanos(v)

Stores(v, t) ==
    IF Odd(v) THEN Off(v, t) > -Below(v) /\ Off(v, t) < Above(v)
    ELSE Off(v, t) >= -Below(v) /\ Off(v, t) <= Above(v)

Size(x) == IF x < 0 THEN -x ELSE x

(* The times with the fewest fractional-second digits that v stores, the   *)
(* nearest of them; when v stores none, the nearest nanoseconds.           *)
Moments(v) ==
    LET near == Nanos(v) \div Scale(v)
        stored == { t \in near - Second .. near + Second : t >= 0 /\ Stores(v, t) }
        step == Max({ p \in { Tens[k] : k \in 0 .. Digits } : \E t \in stored : t % p = 0 })
        fewest == IF stored = {} THEN {near, near + 1} ELSE { t \in stored : t % step = 0 }
    IN  { t \in fewest : \A u \in fewest : Size(Off(v, t)) <= Size(Off(v, u)) }

(* ExcelSerialFromFloat64, ExcelTime and ExcelDuration read "the time with *)
(* the fewest fractional-second digits that the same float64 stores", and  *)
(* the same one: a time that snaps to midnight is the next day's, and a    *)
(* serial is out of range exactly when the day it snaps to has no date.    *)
SnapsToTheFewestDigits ==
    Answered("double") /\ asked.v.finite =>
        LET v == asked.v
            dateOf(t) == CivilOfSerial(t \div Day, asked.epoch)
        IN  CASE result.kind = "duration" ->
                   Size(result.seconds * Second + result.nanos) \in Moments(v)
              [] result.kind = "time" -> \E t \in Moments(v) : t % Day = result.nanos
              [] result.kind = "civil" ->
                   \E t \in Moments(v) : t % Day = result.nanos /\ dateOf(t) = result.date
              [] result = OutOfRange /\ asked.door = "serial" /\ ~PastTheLast(v) ->
                   \E t \in Moments(v) : dateOf(t) = OutOfRange
              [] result = OutOfRange /\ (asked.door # "serial" \/ PastTheLast(v)) ->
                   Nanos(v) >= Scale(v) * (IF asked.door = "span" THEN WindowSeconds * Second
                                           ELSE (Last1900 + 1) * Day)
              [] result = Malformed -> asked.door # "span" /\ Negative(v)

(* Serials follow the calendar day by day, leap years and centuries        *)
(* included, from either system's first day to 9999-12-31; the 1900        *)
(* system's phantom 60, 1900-02-29, is out of range, and so is what lies   *)
(* past the end (ExcelSerial's doc in cast.go).                            *)
SerialsFollowTheCalendar ==
    Answered("cell") =>
        result.date = IF asked.date = PhantomDay \/ asked.date.year = 10000 THEN OutOfRange
                      ELSE asked.date
=============================================================================
