------------------------------ MODULE DoorTable ------------------------------
(***************************************************************************)
(* The doors' tables, on both sides of the crossing.  On Go's side: which  *)
(* of a caller's arguments each exported function checks, and what it      *)
(* hands the core (go/cast.go, detailed.go, checked.go, dates.go).  On the *)
(* core's: what its three entries refuse as a contract violation, and      *)
(* which bytes of the out-value each door stores (the generated            *)
(* internal/core/core.go, fn142, fn143 and fn132).  No state.              *)
(***************************************************************************)
EXTENDS Integers

CONSTANTS
    Nothing,           \* nil, or a null pointer
    CallerBug,         \* the panic of an argument the door refuses
    Shapes, LowPivot, HighPivot \* date options: defined bits, and pivots beside 0

(* The core's door codes.                                                  *)
Door ==
    [ Bool |-> 1, I8 |-> 2, I16 |-> 3, I32 |-> 4, I64 |-> 5, U8 |-> 6, U16 |-> 7,
      U32 |-> 8, U64 |-> 9, F32 |-> 10, F64 |-> 11, Uuid |-> 12, Timestamp |-> 13,
      Unix |-> 14, DateOnly |-> 15, TimeOfDay |-> 16, Span |-> 17, String |-> 18,
      Exact |-> 19, DateOnlyOrdered |-> 20, DateTime |-> 21, ExcelSerial |-> 22,
      Char |-> 23 ]

(* The Go type a door returns, and Number's types among them.              *)
Returns ==
    [ Bool |-> "bool", I8 |-> "int8", I16 |-> "int16", I32 |-> "int32", I64 |-> "int64",
      U8 |-> "uint8", U16 |-> "uint16", U32 |-> "uint32", U64 |-> "uint64",
      F32 |-> "float32", F64 |-> "float64", Uuid |-> "uuid.UUID", Timestamp |-> "time.Time",
      Unix |-> "time.Time", DateOnly |-> "Date", TimeOfDay |-> "time.Duration",
      Span |-> "Duration", String |-> "string", Exact |-> "Decimal",
      DateOnlyOrdered |-> "Date", DateTime |-> "CivilDateTime",
      ExcelSerial |-> "time.Time", Char |-> "rune" ]

Number == {"int8", "int16", "int32", "int64", "uint8", "uint16", "uint32", "uint64",
           "float32", "float64", "Decimal"}

NumericDoors == { name \in DOMAIN Door : Returns[name] \in Number }

(* The doors that read their text and nothing else.                        *)
TextDoors == {"Bool", "Char", "Uuid", "TimeOfDay", "Span", "String"}

(* Mutant: the switches' two 32-bit arms exchanged.                        *)
NumericArmsCrossed(type) ==
    CASE type = "int32" -> "U32" [] type = "uint32" -> "I32"
      [] OTHER -> CHOOSE name \in NumericDoors : Returns[name] = type

(* The type switches of Numeric and Scalar, plain and detailed: V's door.  *)
NumericArm(type) ==
    CASE type = "int8" -> "I8" [] type = "int16" -> "I16" [] type = "int32" -> "I32"
      [] type = "int64" -> "I64" [] type = "uint8" -> "U8" [] type = "uint16" -> "U16"
      [] type = "uint32" -> "U32" [] type = "uint64" -> "U64" [] type = "float32" -> "F32"
      [] type = "float64" -> "F64" [] type = "Decimal" -> "Exact"

ScalarArm(type) ==
    CASE type = "bool" -> "Bool" [] type = "uuid.UUID" -> "Uuid"
      [] type = "time.Time" -> "Timestamp" [] type = "Date" -> "DateOnly"
      [] type = "Duration" -> "Span" [] OTHER -> NumericArm(type)

ScalarTarget == Number \cup {"bool", "uuid.UUID", "time.Time", "Date", "Duration"}

(* Check's own table from types to door codes.                             *)
DoorOf(type) ==
    CASE type = "int8" -> 2 [] type = "int16" -> 3 [] type = "int32" -> 4
      [] type = "int64" -> 5 [] type = "uint8" -> 6 [] type = "uint16" -> 7
      [] type = "uint32" -> 8 [] type = "uint64" -> 9 [] type = "float32" -> 10
      [] type = "float64" -> 11 [] type = "string" -> 18 [] type = "Decimal" -> 19

-----------------------------------------------------------------------------
(***************************************************************************)
(* A crossing: the export called and its arguments.  A question q is what  *)
(* its caller declares beside the text or number: param (a UnixPrecision,  *)
(* DateOrder or ExcelEpoch), format ("taken" or "refused", by the core and *)
(* the door alike: NumFormats' CoreTakesWhatValidTakes), periods (those or *)
(* "english", none declared), options, and the rules of its Constraints.   *)
(***************************************************************************)
Crossing(export, door, param) ==
    [ export |-> export, door |-> door, param |-> param, format |-> Nothing,
      periods |-> Nothing, options |-> Nothing, vocab |-> FALSE, decl |-> Nothing ]

(* Whatever crosses, its data in the ranges the doors check.               *)
RawOptions == [size : {12}, flags : Shapes, pivot : {0} \cup LowPivot .. HighPivot]

Crossings ==
    [ export : {"detailed", "detailedFromF64", "checked", "checkedFromF64"},
      door : 1 .. 23, param : 0 .. 4, format : {Nothing, "taken"},
      periods : {Nothing, "english", "taken"},
      options : {Nothing} \cup RawOptions,
      vocab : BOOLEAN, decl : {Nothing, "none", "some"} ]

(* The binding's limits on date options are within the core's, and the two *)
(* sentinels are nothing a caller declares or a door hands over.           *)
ASSUME DoorAssumption ==
    /\ Shapes \subseteq 0 .. 7
    /\ LowPivot \in Int /\ HighPivot \in Int /\ 100 <= LowPivot /\ HighPivot <= 9999
    /\ Nothing \notin {"taken", "refused", "none", "some"}
    /\ CallerBug \notin Crossings

TextCall(door) == Crossing("detailed", door, 0)

NumericCall(door, q) ==
    IF q.format = "refused" THEN CallerBug
    ELSE [Crossing("detailed", door, 0) EXCEPT !.format = q.format]

ZeroOptions == [shapes |-> 0, pivot |-> 0, months |-> FALSE]

(* Mutant: the upper bound of a pivot left out.                            *)
OptionsLoose(options) == options.shapes \in Shapes /\ (options.pivot = 0 \/ options.pivot >= LowPivot)

OptionsValid(options) ==
    /\ options.shapes \in Shapes
    /\ options.pivot = 0 \/ options.pivot \in LowPivot .. HighPivot

(* dateCall: nil and zero options cross as null, invalid ones not at all.  *)
DateCall(door, param, periods, options) ==
    LET plain == [Crossing("detailed", door, param) EXCEPT !.periods = periods] IN
    IF options \in {Nothing, ZeroOptions} THEN plain
    ELSE IF ~OptionsValid(options) THEN CallerBug
    ELSE [plain EXCEPT
            !.options = [size |-> 12, flags |-> options.shapes, pivot |-> options.pivot],
            !.vocab = options.months /\ door \in {Door.DateOnlyOrdered, Door.DateTime}]

InstantCall(precision, options) ==
    IF precision = 0 THEN DateCall(Door.Timestamp, 0, Nothing, options)
    ELSE Crossing("detailed", Door.Unix, precision)

(* What each door checks before it crosses, and its crossing.  options is  *)
(* Nothing at a plain door.                                                *)
Precision == 1 .. 4
Order     == 1 .. 3
Epoch     == 1 .. 2

Unix(param) == IF param \notin Precision THEN CallerBug ELSE InstantCall(param, Nothing)

ExcelSerial(param) ==
    IF param \notin Epoch THEN CallerBug ELSE Crossing("detailed", Door.ExcelSerial, param)

DateOnlyOrdered(param, options) ==
    IF param \notin Order THEN CallerBug
    ELSE DateCall(Door.DateOnlyOrdered, param, Nothing, options)

DateTime(param, periods, options) ==
    IF param \notin Order \/ periods = "refused" THEN CallerBug
    ELSE DateCall(Door.DateTime, param, periods, options)

(* A named door over text under a question.                                *)
Doorway(name, q, options) ==
    CASE name \in TextDoors       -> TextCall(Door[name])
      [] name \in NumericDoors    -> NumericCall(Door[name], q)
      [] name = "Timestamp"       -> InstantCall(0, options)
      [] name = "Unix"            -> Unix(q.param)
      [] name = "ExcelSerial"     -> ExcelSerial(q.param)
      [] name = "DateOnly"        -> DateCall(Door.DateOnly, 0, Nothing, options)
      [] name = "DateOnlyOrdered" -> DateOnlyOrdered(q.param, options)
      [] name = "DateTime"        -> DateTime(q.param, q.periods, options)

(* The typed doors: ExactFromFloat64, ExcelSerialFromFloat64, ExcelTime    *)
(* and ExcelDuration.                                                      *)
TypedDoors == {"Exact", "ExcelSerial", "TimeOfDay", "Span"}

TypedDoorway(name, q) ==
    IF name = "ExcelSerial" /\ q.param \notin Epoch THEN CallerBug
    ELSE Crossing("detailedFromF64", Door[name], IF name = "ExcelSerial" THEN q.param ELSE 0)

(* Check, CheckString and CheckFromFloat64: the format, then the           *)
(* declaration, which a zero Constraints does not have.                    *)
CheckedDoorway(type, q, typed) ==
    IF (q.format = "refused" /\ type # "string" /\ ~typed) \/ q.rules = "zero" THEN CallerBug
    ELSE [Crossing(IF typed THEN "checkedFromF64" ELSE "checked", DoorOf(type), 0) EXCEPT
            !.format = IF typed \/ type = "string" THEN Nothing ELSE q.format,
            !.decl = q.rules]

-----------------------------------------------------------------------------
(* The core's entries: what is a contract violation, -1, before any door.  *)
ParamMet(door, param) ==
    CASE door = Door.Unix -> param \in 1 .. 4
      [] door \in {Door.DateOnlyOrdered, Door.DateTime} -> param \in 1 .. 3
      [] door = Door.ExcelSerial -> param \in 1 .. 2
      [] OTHER -> param = 0

CoreNumeric == (2 .. 11) \cup {19}

(* A format, day periods, options and a vocabulary are judged by the doors *)
(* that read them, and not looked at by the others.                        *)
OptionsMet(options) ==
    options = Nothing \/
    /\ options.size \in {8, 12} /\ options.flags \in 0 .. 7
    /\ options.size = 12 => options.pivot = 0 \/ options.pivot \in 100 .. 9999

DetailedMet(x) ==
    /\ x.door \in 1 .. 23 /\ ParamMet(x.door, x.param)
    /\ x.door \in CoreNumeric => x.format # "refused"
    /\ x.door = Door.DateTime => x.periods # "refused"
    /\ x.door \in {Door.Timestamp, Door.DateOnly, Door.DateOnlyOrdered, Door.DateTime} =>
           OptionsMet(x.options)

(* cast_detailed_from_f64 has four doors.                                  *)
TypedMet(x) == x.door \in {16, 17, 19, 22} /\ ParamMet(x.door, x.param)

(* cast_checked_detailed has the numeric doors and the text door.          *)
CheckedMet(x) ==
    /\ x.decl # Nothing /\ x.door \in CoreNumeric \cup {18} /\ ParamMet(x.door, x.param)
    /\ x.door # 18 => x.format # "refused"

ContractMet(x) ==
    CASE x.export = "detailed"        -> DetailedMet(x)
      [] x.export = "detailedFromF64" -> TypedMet(x)
      [] x.export = "checked"         -> CheckedMet(x)
      [] x.export = "checkedFromF64"  -> x.decl # Nothing /\ x.door \in CoreNumeric /\ x.param = 0

(* A crossing as the core's door reads it: no day periods are the English  *)
(* ones.                                                                   *)
AsRead(x) ==
    [x EXCEPT !.periods = IF @ = Nothing /\ x.door = Door.DateTime THEN "english" ELSE @]

(* The bytes of the out-value a door stores on success.                    *)
Stored(x) ==
    CASE x.door \in {1, 2, 6}           -> 0 .. 0
      [] x.door \in {3, 7}              -> 0 .. 1
      [] x.door \in {4, 8, 10, 15, 20, 23} -> 0 .. 3
      [] x.door \in {5, 9, 11, 16, 18}  -> 0 .. 7
      [] x.door \in {13, 14, 17}        -> 0 .. 11
      [] x.door \in {12, 19, 21}        -> 0 .. 15
      [] x.door = 22 -> IF x.export = "detailedFromF64" THEN 0 .. 15 ELSE 0 .. 11

-----------------------------------------------------------------------------
(* Mutant: an Excel serial read as the wall clock over text too.           *)
SerialViewCivil(typed) == "RawCivil"

(* A serial in text is an instant; a number's is the cell's wall clock.    *)
SerialView(typed) == IF typed THEN "RawCivil" ELSE "RawTimestamp"

(* The raw shape through which each door reads the out-value.              *)
View(name, typed) ==
    CASE name = "Bool" -> "uint8"
      [] name = "Char" -> "uint32"
      [] name = "Exact" -> "rawDecimal"
      [] name \in {"Timestamp", "Unix", "Span"} -> "RawTimestamp"
      [] name = "ExcelSerial" -> SerialView(typed)
      [] name \in {"DateOnly", "DateOnlyOrdered"} -> "RawDate"
      [] name = "DateTime" -> "RawCivil"
      [] name = "TimeOfDay" -> "uint64"
      [] name = "String" -> "RawSpan"
      [] OTHER -> Returns[name]

(* A checked door reads its value at its type.                             *)
CheckedView(type) ==
    CASE type = "Decimal" -> "rawDecimal" [] type = "string" -> "RawSpan" [] OTHER -> type

(* The bytes of its fields, padding left out.                              *)
Fields(view) ==
    CASE view \in {"uint8", "int8"} -> 0 .. 0
      [] view \in {"uint16", "int16"} -> 0 .. 1
      [] view \in {"uint32", "int32", "float32", "RawDate"} -> 0 .. 3
      [] view \in {"uint64", "int64", "float64", "RawSpan"} -> 0 .. 7
      [] view = "RawTimestamp" -> 0 .. 11
      [] view = "RawCivil" -> (0 .. 3) \cup (8 .. 15)
      [] view = "rawDecimal" -> 0 .. 13
      [] view = "uuid.UUID" -> 0 .. 15
=============================================================================
