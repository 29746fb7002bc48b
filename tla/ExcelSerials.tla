---------------------------- MODULE ExcelSerials -----------------------------
(***************************************************************************)
(* The doors that read a spreadsheet's number of days - go/cast.go's       *)
(* ExcelSerialFromFloat64, ExcelTime and ExcelDuration - as the generated  *)
(* core computes them (internal/core/core.go, fn143, fn124, fn125, fn123): *)
(* the double is snapped to the time with the fewest fractional digits it  *)
(* stores, and whole days become a date of the declared epoch's calendar.  *)
(***************************************************************************)
EXTENDS Integers, FiniteSetsExt, Powers

CONSTANTS
    Second, Day,       \* in nanoseconds: 10^9, 86400 * 10^9
    Digits,            \* a second's fractional digits: 9
    MaxShift,          \* 127, past which a double is less than a nanosecond
    Phantom,           \* the 1900 system's day that never was: 60
    Last1900, Last1904, \* 9999-12-31 in either system: 2958465, 2957003
    WindowSeconds      \* the duration window, 10,000 years in seconds

ASSUME ExcelAssumption ==
    /\ Digits \in Nat /\ Second = Tens[Digits]
    /\ Day \in Nat \ {0} /\ Day % Second = 0
    /\ MaxShift \in Nat /\ WindowSeconds \in Nat
    /\ Phantom \in Nat /\ Last1904 \in Nat /\ Last1900 \in Nat

(***************************************************************************)
(* A float64 v: finite or not, a sign, and, finite, its mantissa and the   *)
(* shift that makes it 4 * mantissa / 2^shift days.  power is whether the  *)
(* mantissa is its binade's least, below which doubles lie half as far     *)
(* apart; an even mantissa keeps the ties of its rounding.                 *)
(***************************************************************************)
Scale(v) == Twos[v.shift]
Days4(v) == 4 * v.mantissa

(* The double's nanoseconds are Nanos / Scale, exactly; what rounds to it  *)
(* reaches half a gap either way.                                          *)
Nanos(v) == Days4(v) * Day
Below(v) == IF v.power THEN Day ELSE 2 * Day
Above(v) == 2 * Day
Odd(v)   == v.mantissa % 2 = 1

WholeDays(v) == (Nanos(v) \div Scale(v)) \div Day
DayStart(v)  == WholeDays(v) * Day

(* The first and last nanosecond of the day, counted from its start, that  *)
(* the double stores.                                                      *)
FirstStored(v) ==
    LET low == Nanos(v) - Below(v)
    IN  low \div Scale(v) + (IF low % Scale(v) # 0 \/ Odd(v) THEN 1 ELSE 0) - DayStart(v)

LastStored(v) ==
    LET high == Nanos(v) + Above(v)
    IN  high \div Scale(v) - (IF high % Scale(v) = 0 /\ Odd(v) THEN 1 ELSE 0) - DayStart(v)

(* fn123: the coarsest of a second's decimal steps with a multiple among   *)
(* them; such steps begin with 1 and leave none out.                       *)
Step(first, last) ==
    Tens[Cardinality({ k \in 1 .. Digits - 1 : last - (last % Tens[k]) >= first })]

(* Of several multiples of the step, the nearest, of two as near the       *)
(* earlier.                                                                *)
Nearest(v, step, first, last) ==
    LET within == Nanos(v) \div Scale(v) - DayStart(v)
        down == within - (within % step)
        up == down + step
    IN  IF down < first THEN up
        ELSE IF up > last THEN down
        ELSE IF 2 * Nanos(v) > Scale(v) * (2 * DayStart(v) + down + up) THEN up ELSE down

(* fn125: a whole second, or the only multiple of the coarsest step, or    *)
(* the nearest; the double storing none, the nearest nanosecond.           *)
Snapped(v) ==
    LET first == FirstStored(v)
        last == LastStored(v)
        second == last - (last % Second)
        step == Step(first, last)
        top == last - (last % step)
    IN  IF second >= first THEN second
        ELSE IF last < first
        THEN Nanos(v) \div Scale(v) - DayStart(v)
             + (IF 2 * (Nanos(v) % Scale(v)) >= Scale(v) THEN 1 ELSE 0)
        ELSE IF top - step < first THEN top
        ELSE Nearest(v, step, first, last)

(* Mutant: a time snapped to midnight stays on its day.                    *)
SnapStays(v) ==
    IF v.shift > MaxShift THEN [days |-> 0, nanos |-> 0]
    ELSE [days |-> WholeDays(v), nanos |-> Snapped(v) % Day]

Snap(v) ==
    IF v.shift > MaxShift THEN [days |-> 0, nanos |-> 0]
    ELSE IF Snapped(v) >= Day
    THEN [days |-> WholeDays(v) + 1, nanos |-> Snapped(v) - Day]
    ELSE [days |-> WholeDays(v), nanos |-> Snapped(v)]

-----------------------------------------------------------------------------
(* The civil date of a count of days since 1970-01-01, by eras of 400      *)
(* years that begin on the first of March.                                 *)
Civil(days) ==
    LET z == days + 719468
        era == z \div 146097
        doe == z % 146097
        yoe == (doe + doe \div 36524 - doe \div 1460 - (IF doe > 146095 THEN 1 ELSE 0)) \div 365
        doy == doe - (365 * yoe + yoe \div 4 - yoe \div 100)
        mp == (5 * doy + 2) \div 153
        month == IF doy < 306 THEN mp + 3 ELSE mp - 9
    IN  [ year  |-> yoe + 400 * era + (IF month < 3 THEN 1 ELSE 0),
          month |-> month,
          day   |-> doy - (153 * mp + 2) \div 5 + 1 ]

Refused(reason) == [kind |-> "fault", reason |-> reason]
Malformed == Refused(2)
OutOfRange == Refused(3)

(* Mutant: every serial counts the phantom, before it or after.            *)
CivilOfSerialNaive(serial, epoch) ==
    IF epoch = 1
    THEN IF serial = Phantom \/ serial \notin 1 .. Last1900 THEN OutOfRange ELSE Civil(serial - 25569)
    ELSE IF serial > Last1904 THEN OutOfRange ELSE Civil(serial - 24107)

(* Whole days of the 1900 system, epoch 1, and of the 1904 one.            *)
CivilOfSerial(serial, epoch) ==
    IF epoch = 1
    THEN IF serial = Phantom \/ serial \notin 1 .. Last1900 THEN OutOfRange
         ELSE Civil(serial + (IF serial < Phantom THEN 1 ELSE 0) - 25569)
    ELSE IF serial > Last1904 THEN OutOfRange ELSE Civil(serial - 24107)

-----------------------------------------------------------------------------
(* -0 is not negative.                                                     *)
Negative(v) == v.negative /\ v.mantissa # 0
PastTheLast(v) == Days4(v) >= (Last1900 + 1) * Scale(v)

ExcelSerialFromFloat64(v, epoch) ==
    IF ~v.finite \/ Negative(v) THEN Malformed
    ELSE IF PastTheLast(v) THEN OutOfRange
    ELSE LET date == CivilOfSerial(Snap(v).days, epoch)
         IN  IF date = OutOfRange THEN date
             ELSE [kind |-> "civil", date |-> date, nanos |-> Snap(v).nanos]

ExcelTime(v) ==
    IF ~v.finite \/ Negative(v) THEN Malformed
    ELSE IF PastTheLast(v) THEN OutOfRange
    ELSE [kind |-> "time", nanos |-> Snap(v).nanos]

(* The pair has its days' sign; the seconds are truncated towards zero.    *)
ExcelDuration(v) ==
    LET total == Snap(v).days * Day + Snap(v).nanos
        sign == IF Negative(v) THEN -1 ELSE 1
    IN  IF ~v.finite THEN Malformed
        ELSE IF \/ Days4(v) * (Day \div Second) > WindowSeconds * Scale(v)
                \/ total >= (WindowSeconds + 1) * Second
        THEN OutOfRange
        ELSE [ kind |-> "duration", seconds |-> sign * (total \div Second),
               nanos |-> sign * (total % Second) ]
=============================================================================
