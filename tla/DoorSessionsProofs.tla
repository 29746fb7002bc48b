------------------------- MODULE DoorSessionsProofs --------------------------
(***************************************************************************)
(* Proofs about DoorSessions: the doors' tables on Go's side fit those on  *)
(* the core's, for every option and parameter a caller can pass, and what  *)
(* a session records satisfies the five invariants, for every session of   *)
(* every length.  CASE expressions are opened once, in the ...Cases        *)
(* lemmas, and reasoned about through their equations.                     *)
(***************************************************************************)
EXTENDS DoorSessions, TLAPS

(* The doors: the numeric ones, those of text alone, and six of dates.     *)
LEMMA DoorNames ==
  DOMAIN Door = NumericDoors \cup TextDoors \cup
     {"Timestamp", "Unix", "DateOnly", "DateOnlyOrdered", "DateTime", "ExcelSerial"}
  BY DEF Door, NumericDoors, Number, Returns, TextDoors

LEMMA NumericNames ==
  NumericDoors = {"I8", "I16", "I32", "I64", "U8", "U16", "U32", "U64", "F32", "F64", "Exact"}
  BY DEF Door, NumericDoors, Number, Returns

(* Doorway's cases, one by one.                                            *)
LEMMA NumericDoorway ==
  ASSUME NEW name \in NumericDoors, NEW q, NEW options
  PROVE  Doorway(name, q, options) = NumericCall(Door[name], q)
  BY NumericNames, Zenon DEF Doorway, TextDoors

LEMMA TextDoorway ==
  ASSUME NEW name \in TextDoors, NEW q, NEW options
  PROVE  Doorway(name, q, options) = TextCall(Door[name])
  BY NumericNames, Zenon DEF Doorway, TextDoors

LEMMA DatedDoorways ==
  ASSUME NEW q, NEW options
  PROVE  /\ Doorway("Timestamp", q, options) = InstantCall(0, options)
         /\ Doorway("Unix", q, options) = Unix(q.param)
         /\ Doorway("ExcelSerial", q, options) = ExcelSerial(q.param)
         /\ Doorway("DateOnly", q, options) = DateCall(Door.DateOnly, 0, Nothing, options)
         /\ Doorway("DateOnlyOrdered", q, options) = DateOnlyOrdered(q.param, options)
         /\ Doorway("DateTime", q, options) = DateTime(q.param, q.periods, options)
<1>1. \A n \in {"Timestamp", "Unix", "DateOnly", "DateOnlyOrdered", "DateTime", "ExcelSerial"} : n \notin TextDoors /\ n \notin NumericDoors
  BY NumericNames DEF TextDoors
<1>2. Doorway("Timestamp", q, options) = InstantCall(0, options)
  BY <1>1, Zenon DEF Doorway
<1>3. Doorway("Unix", q, options) = Unix(q.param)
  BY <1>1, Zenon DEF Doorway
<1>4. Doorway("ExcelSerial", q, options) = ExcelSerial(q.param)
  BY <1>1, Zenon DEF Doorway
<1>5. Doorway("DateOnly", q, options) = DateCall(Door.DateOnly, 0, Nothing, options)
  BY <1>1, Zenon DEF Doorway
<1>6. Doorway("DateOnlyOrdered", q, options) = DateOnlyOrdered(q.param, options)
  BY <1>1, Zenon DEF Doorway
<1>7. Doorway("DateTime", q, options) = DateTime(q.param, q.periods, options)
  BY <1>1, Zenon DEF Doorway
<1> QED BY <1>2, <1>3, <1>4, <1>5, <1>6, <1>7

(* The type switches lead back to the door whose type they are given.      *)
LEMMA NumericArmNames ==
  ASSUME NEW name \in NumericDoors PROVE NumericArm(Returns[name]) = name
  BY NumericNames DEF Returns, NumericArm

LEMMA ScalarArmNames ==
  ASSUME NEW name \in DOMAIN Door, Returns[name] \in ScalarTarget, name \notin {"Unix", "ExcelSerial", "DateOnlyOrdered"}
  PROVE  ScalarArm(Returns[name]) = name
<1>1. CASE name \in NumericDoors
  <2>1. ScalarArm(Returns[name]) = NumericArm(Returns[name])
    BY NumericNames, <1>1 DEF ScalarArm, Returns
  <2> QED BY <2>1, <1>1, NumericArmNames
<1>2. CASE name \notin NumericDoors
  <2>1. name \in {"Bool", "Uuid", "Timestamp", "DateOnly", "Span"}
    BY <1>2, NumericNames DEF Returns, Door, ScalarTarget, Number
  <2> QED BY <2>1 DEF ScalarArm, Returns
<1> QED BY <1>1, <1>2

(* The doors' codes in the core.                                           *)
LEMMA Codes ==
  /\ Door.Timestamp = 13 /\ Door.Unix = 14 /\ Door.DateOnly = 15 /\ Door.TimeOfDay = 16
  /\ Door.Span = 17 /\ Door.String = 18 /\ Door.Exact = 19 /\ Door.DateOnlyOrdered = 20
  /\ Door.DateTime = 21 /\ Door.ExcelSerial = 22
  BY DEF Door

(* The core's parameter check and its contract, case by case.              *)
LEMMA ParamMetCases ==
  ASSUME NEW param
  PROVE  /\ ParamMet(14, param) <=> param \in 1 .. 4
         /\ \A door \in {20, 21} : ParamMet(door, param) <=> param \in 1 .. 3
         /\ ParamMet(22, param) <=> param \in 1 .. 2
         /\ \A door \in (1 .. 23) \ {14, 20, 21, 22} : ParamMet(door, param) <=> param = 0
<1>1. /\ 14 # 20 /\ 14 # 21 /\ 14 # 22 /\ 20 # 21 /\ 20 # 22 /\ 21 # 22
      /\ \A door \in (1 .. 23) \ {14, 20, 21, 22} : door # 14 /\ door # 20 /\ door # 21 /\ door # 22
  OBVIOUS
<1>2. ParamMet(14, param) <=> param \in 1 .. 4
  BY <1>1, Codes, Zenon DEF ParamMet
<1>3. ASSUME NEW door \in {20, 21} PROVE ParamMet(door, param) <=> param \in 1 .. 3
  BY <1>1, Codes, Zenon DEF ParamMet
<1>4. ParamMet(22, param) <=> param \in 1 .. 2
  BY <1>1, Codes, Zenon DEF ParamMet
<1>5. ASSUME NEW door \in (1 .. 23) \ {14, 20, 21, 22} PROVE ParamMet(door, param) <=> param = 0
  BY <1>1, Codes, Zenon DEF ParamMet
<1> QED BY <1>2, <1>3, <1>4, <1>5

LEMMA ContractCases ==
  ASSUME NEW x
  PROVE  /\ x.export = "detailed" => (ContractMet(x) <=> DetailedMet(x))
         /\ x.export = "detailedFromF64" => (ContractMet(x) <=> TypedMet(x))
         /\ x.export = "checked" => (ContractMet(x) <=> CheckedMet(x))
         /\ x.export = "checkedFromF64" =>
              (ContractMet(x) <=> x.decl # Nothing /\ x.door \in CoreNumeric /\ x.param = 0)
  BY Zenon DEF ContractMet

(* Options a door sends on are options the core takes.                     *)
LEMMA FlagsLimit == ASSUME NEW flags \in Shapes PROVE flags \in 0 .. 7
<1>1. Shapes \subseteq 0 .. 7
  BY DoorAssumption
<1> QED BY <1>1

LEMMA PivotLimit == ASSUME NEW p \in {0} \cup LowPivot .. HighPivot PROVE p = 0 \/ p \in 100 .. 9999
<1>1. LowPivot \in Int /\ HighPivot \in Int /\ 100 <= LowPivot /\ HighPivot <= 9999
  BY DoorAssumption
<1> QED BY <1>1, SMTT(30)

LEMMA RawOptionsMet ==
  ASSUME NEW options \in RawOptions PROVE OptionsMet(options)
<1>1. PICK flags \in Shapes, p \in {0} \cup LowPivot .. HighPivot :
        options = [size |-> 12, flags |-> flags, pivot |-> p]
  BY DEF RawOptions
<1>2. flags \in 0 .. 7
  BY FlagsLimit
<1>4. p = 0 \/ p \in 100 .. 9999
  BY PivotLimit
<1>3. options.size = 12 /\ options.flags = flags /\ options.pivot = p
  BY <1>1
<1> HIDE <1>1
<1> QED BY <1>2, <1>3, <1>4 DEF OptionsMet

(* A crossing of the detailed export that meets the contract.              *)
LEMMA DetailedCrossing ==
  ASSUME NEW door \in 1 .. 23, NEW param \in 0 .. 4, ParamMet(door, param),
         NEW format \in {Nothing, "taken"}, NEW periods \in {Nothing, "english", "taken"},
         NEW options \in {Nothing} \cup RawOptions, NEW vocab \in BOOLEAN,
         NEW x, x = [ export |-> "detailed", door |-> door, param |-> param, format |-> format,
           periods |-> periods, options |-> options, vocab |-> vocab, decl |-> Nothing ]
  PROVE  x \in Crossings /\ ContractMet(x)
<1>1. x \in Crossings
  BY DEF Crossings
<1>2. /\ x.export = "detailed" /\ x.door = door /\ x.param = param /\ x.format = format
      /\ x.periods = periods /\ x.options = options
  OBVIOUS
<1>3. x.format # "refused" /\ x.periods # "refused"
  BY <1>2, DoorAssumption
<1>4. OptionsMet(x.options)
  <2>1. CASE options = Nothing
    BY <1>2, <2>1 DEF OptionsMet
  <2>2. CASE options \in RawOptions
    BY <1>2, <2>2, RawOptionsMet
  <2> QED BY <2>1, <2>2
<1>5. DetailedMet(x)
  BY <1>2, <1>3, <1>4 DEF DetailedMet
<1> QED BY <1>1, <1>2, <1>5, ContractCases

(* Each door's crossing, when its caller made no mistake, is inside the    *)
(* contract.                                                               *)
LEMMA TextCallMeets ==
  ASSUME NEW name \in TextDoors
  PROVE  TextCall(Door[name]) \in Crossings /\ ContractMet(TextCall(Door[name]))
<1>1. Door[name] \in {1, 12, 16, 17, 18, 23}
  BY DEF TextDoors, Door
<1>2. ParamMet(Door[name], 0)  BY <1>1, ParamMetCases
<1>3. TextCall(Door[name]) = [ export |-> "detailed", door |-> Door[name], param |-> 0,
        format |-> Nothing, periods |-> Nothing, options |-> Nothing, vocab |-> FALSE,
        decl |-> Nothing ]
  BY DEF TextCall, Crossing
<1>4. Door[name] \in 1 .. 23 /\ 0 \in 0 .. 4
  BY <1>1
<1> QED BY <1>2, <1>3, <1>4, DetailedCrossing, Zenon

LEMMA NumericCallMeets ==
  ASSUME NEW name \in NumericDoors, NEW q, q.format \in {"taken", "refused"},
         NumericCall(Door[name], q) # CallerBug
  PROVE  NumericCall(Door[name], q) \in Crossings /\ ContractMet(NumericCall(Door[name], q))
<1>1. Door[name] \in CoreNumeric
  BY NumericNames DEF CoreNumeric, Door
<1>2. ParamMet(Door[name], 0) /\ Door[name] \in 1 .. 23 /\ 0 \in 0 .. 4
  BY <1>1, ParamMetCases DEF CoreNumeric
<1>3. NumericCall(Door[name], q) = [ export |-> "detailed", door |-> Door[name], param |-> 0,
        format |-> "taken", periods |-> Nothing, options |-> Nothing, vocab |-> FALSE,
        decl |-> Nothing ]
  BY DEF NumericCall, Crossing
<1> QED BY <1>2, <1>3, DetailedCrossing, Zenon

LEMMA DateCallMeets ==
  ASSUME NEW door \in {13, 15, 20, 21}, NEW param \in 0 .. 4, ParamMet(door, param),
         NEW periods \in {Nothing, "english", "taken"}, NEW options \in Options \cup {Nothing},
         DateCall(door, param, periods, options) # CallerBug
  PROVE  /\ DateCall(door, param, periods, options) \in Crossings
         /\ ContractMet(DateCall(door, param, periods, options))
<1>0. door \in 1 .. 23
  OBVIOUS
<1>1. CASE options \in {Nothing, ZeroOptions}
  <2>1. DateCall(door, param, periods, options) =
          [ export |-> "detailed", door |-> door, param |-> param, format |-> Nothing,
            periods |-> periods, options |-> Nothing, vocab |-> FALSE, decl |-> Nothing ]
    BY <1>1 DEF DateCall, Crossing
  <2> QED BY <1>0, <2>1, DetailedCrossing, Zenon
<1>2. CASE options \notin {Nothing, ZeroOptions}
  <2> DEFINE raw == [size |-> 12, flags |-> options.shapes, pivot |-> options.pivot]
             vocab == options.months /\ door \in {Door.DateOnlyOrdered, Door.DateTime}
  <2>1. OptionsValid(options) /\ options.months \in BOOLEAN
    BY <1>2, SessionAssumption DEF DateCall
  <2>2. raw \in RawOptions /\ vocab \in BOOLEAN
    BY <2>1 DEF OptionsValid, RawOptions
  <2>3. DateCall(door, param, periods, options) =
          [ export |-> "detailed", door |-> door, param |-> param, format |-> Nothing,
            periods |-> periods, options |-> raw, vocab |-> vocab, decl |-> Nothing ]
    BY <1>2, <2>1 DEF DateCall, Crossing
  <2> HIDE DEF raw, vocab
  <2> QED BY <1>0, <2>2, <2>3, DetailedCrossing, Zenon
<1> QED BY <1>1, <1>2

LEMMA DoorwayMeets ==
  ASSUME NEW name \in DOMAIN Door, NEW q, q.format \in {"taken", "refused"},
         q.periods \in {Nothing, "english", "taken", "refused"},
         NEW options \in Options \cup {Nothing},
         Doorway(name, q, options) # CallerBug
  PROVE  Doorway(name, q, options) \in Crossings /\ ContractMet(Doorway(name, q, options))
<1> DEFINE x == Doorway(name, q, options)
<1>1. CASE name \in TextDoors
  <2>1. x = TextCall(Door[name])  BY <1>1, TextDoorway
  <2> QED BY <1>1, <2>1, TextCallMeets
<1>2. CASE name \in NumericDoors
  <2>1. x = NumericCall(Door[name], q)  BY <1>2, NumericDoorway
  <2> QED BY <1>2, <2>1, NumericCallMeets
<1>3. CASE name = "Timestamp"
  <2>1. x = DateCall(13, 0, Nothing, options)
    BY <1>3, DatedDoorways, Codes DEF InstantCall
  <2>2. ParamMet(13, 0)  BY ParamMetCases
  <2> QED BY <2>1, <2>2, DateCallMeets
<1>4. CASE name = "Unix"
  <2>1. q.param \in 1 .. 4 /\ x = Crossing("detailed", 14, q.param)
    BY <1>4, DatedDoorways, Codes DEF Unix, InstantCall, Precision
  <2>2. ParamMet(14, q.param)  BY <2>1, ParamMetCases
  <2>3. x = [ export |-> "detailed", door |-> 14, param |-> q.param, format |-> Nothing,
              periods |-> Nothing, options |-> Nothing, vocab |-> FALSE, decl |-> Nothing ]
    BY <2>1 DEF Crossing
  <2>4. 14 \in 1 .. 23 /\ q.param \in 0 .. 4  BY <2>1
  <2> HIDE DEF x
  <2> QED BY <2>2, <2>3, <2>4, DetailedCrossing, Zenon DEF x
<1>5. CASE name = "ExcelSerial"
  <2>1. q.param \in 1 .. 2 /\ x = Crossing("detailed", 22, q.param)
    BY <1>5, DatedDoorways, Codes DEF ExcelSerial, Epoch
  <2>2. ParamMet(22, q.param)  BY <2>1, ParamMetCases
  <2>3. x = [ export |-> "detailed", door |-> 22, param |-> q.param, format |-> Nothing,
              periods |-> Nothing, options |-> Nothing, vocab |-> FALSE, decl |-> Nothing ]
    BY <2>1 DEF Crossing
  <2>4. 22 \in 1 .. 23 /\ q.param \in 0 .. 4  BY <2>1
  <2> HIDE DEF x
  <2> QED BY <2>2, <2>3, <2>4, DetailedCrossing, Zenon DEF x
<1>6. CASE name = "DateOnly"
  <2>1. x = DateCall(15, 0, Nothing, options)
    BY <1>6, DatedDoorways, Codes
  <2>2. ParamMet(15, 0)  BY ParamMetCases
  <2> QED BY <2>1, <2>2, DateCallMeets
<1>7. CASE name = "DateOnlyOrdered"
  <2>1. q.param \in 1 .. 3 /\ x = DateCall(20, q.param, Nothing, options)
    BY <1>7, DatedDoorways, Codes DEF DateOnlyOrdered, Order
  <2>2. ParamMet(20, q.param) /\ q.param \in 0 .. 4  BY <2>1, ParamMetCases
  <2> QED BY <2>1, <2>2, DateCallMeets
<1>8. CASE name = "DateTime"
  <2>1. q.param \in 1 .. 3 /\ q.periods # "refused" /\ x = DateCall(21, q.param, q.periods, options)
    BY <1>8, DatedDoorways, Codes DEF DateTime, Order
  <2>2. ParamMet(21, q.param) /\ q.param \in 0 .. 4  BY <2>1, ParamMetCases
  <2> QED BY <2>1, <2>2, DateCallMeets
<1> QED BY <1>1, <1>2, <1>3, <1>4, <1>5, <1>6, <1>7, <1>8, DoorNames

(* Check's own table of codes agrees with the doors'.                      *)
LEMMA DoorOfNames ==
  ASSUME NEW name \in NumericDoors \cup {"String"}
  PROVE  DoorOf(Returns[name]) = Door[name] /\ Door[name] \in CoreNumeric \cup {18}
         /\ (Door[name] = 18 <=> name = "String")
         /\ (Returns[name] = "string" <=> name = "String")
<1>1. Door[name] \in CoreNumeric \cup {18} /\ (Door[name] = 18 <=> name = "String")
      /\ (Returns[name] = "string" <=> name = "String")
  BY NumericNames DEF CoreNumeric, Door, Returns
<1>2. DoorOf(Returns[name]) = Door[name]
  BY NumericNames DEF Returns, Door, DoorOf
<1> QED BY <1>1, <1>2

(* So are a number's crossings and a checked door's.                       *)
LEMMA TypedDoorwayMeets ==
  ASSUME NEW name \in TypedDoors, NEW q, TypedDoorway(name, q) # CallerBug
  PROVE  TypedDoorway(name, q) \in Crossings /\ ContractMet(TypedDoorway(name, q))
<1> DEFINE param == IF name = "ExcelSerial" THEN q.param ELSE 0
           x == TypedDoorway(name, q)
<1>1. Door[name] \in {16, 17, 19, 22} /\ (Door[name] = 22 <=> name = "ExcelSerial")
  BY DEF TypedDoors, Door
<1>2. param \in 0 .. 4 /\ (name = "ExcelSerial" => param \in 1 .. 2)
  BY DEF TypedDoorway, Epoch
<1>3. x = [ export |-> "detailedFromF64", door |-> Door[name], param |-> param,
            format |-> Nothing, periods |-> Nothing, options |-> Nothing, vocab |-> FALSE,
            decl |-> Nothing ]
  BY DEF TypedDoorway, Crossing
<1>4. ParamMet(Door[name], param)
  <2>1. CASE name = "ExcelSerial"
    BY <2>1, <1>1, <1>2, ParamMetCases
  <2>2. CASE name # "ExcelSerial"
    BY <2>2, <1>1, ParamMetCases
  <2> QED BY <2>1, <2>2
<1> HIDE DEF x, param
<1>5. x \in Crossings
  BY <1>1, <1>2, <1>3 DEF Crossings
<1>6. x.export = "detailedFromF64" /\ x.door = Door[name] /\ x.param = param
  BY <1>3
<1>7. TypedMet(x)
  BY <1>1, <1>4, <1>6 DEF TypedMet
<1> QED BY <1>5, <1>6, <1>7, ContractCases DEF x

LEMMA CheckedDoorwayMeets ==
  ASSUME NEW name \in NumericDoors \cup {"String"}, NEW q, NEW typed \in BOOLEAN,
         typed => name \in NumericDoors,
         q.format \in {"taken", "refused"}, q.rules \in {"zero", "none", "some"},
         CheckedDoorway(Returns[name], q, typed) # CallerBug
  PROVE  /\ CheckedDoorway(Returns[name], q, typed) \in Crossings
         /\ ContractMet(CheckedDoorway(Returns[name], q, typed))
<1> DEFINE x == CheckedDoorway(Returns[name], q, typed)
           format == IF typed \/ name = "String" THEN Nothing ELSE "taken"
           export == IF typed THEN "checkedFromF64" ELSE "checked"
<1>1. q.rules \in {"none", "some"}
  BY DEF CheckedDoorway
<1>2. x = [ export |-> export, door |-> Door[name], param |-> 0,
            format |-> format, periods |-> Nothing, options |-> Nothing, vocab |-> FALSE,
            decl |-> q.rules ]
  BY DoorOfNames DEF CheckedDoorway, Crossing
<1>3. Door[name] \in CoreNumeric \cup {18} /\ Door[name] \in 1 .. 23
      /\ (Door[name] = 18 <=> name = "String")
  BY DoorOfNames DEF CoreNumeric
<1>4. ParamMet(Door[name], 0)
  BY <1>3, ParamMetCases DEF CoreNumeric
<1>5. format \in {Nothing, "taken"} /\ export \in {"checked", "checkedFromF64"}
      /\ (typed <=> export = "checkedFromF64")
  OBVIOUS
<1> HIDE DEF x, format, export
<1>6. x \in Crossings
  BY <1>1, <1>2, <1>3, <1>5 DEF Crossings
<1>7. x.export = export /\ x.door = Door[name] /\ x.param = 0 /\ x.decl = q.rules
      /\ x.format = format
  BY <1>2
<1>8. x.decl # Nothing /\ x.format # "refused"
  BY <1>1, <1>5, <1>7, DoorAssumption
<1>9. CASE ~typed
  <2>1. CheckedMet(x)
    BY <1>3, <1>4, <1>7, <1>8 DEF CheckedMet
  <2> QED BY <1>5, <1>6, <1>7, <1>9, <2>1, ContractCases DEF x
<1>10. CASE typed
  <2>1. x.door \in CoreNumeric
    BY <1>3, <1>7, <1>10, NumericNames
  <2> QED BY <1>5, <1>6, <1>7, <1>8, <1>10, <2>1, ContractCases DEF x
<1> QED BY <1>9, <1>10

(* What a question declares, how a surface crosses, and which door it      *)
(* names.                                                                  *)
LEMMA QuestionFields ==
  ASSUME NEW q \in Questions
  PROVE  /\ q.name \in DOMAIN Door /\ q.typed \in BOOLEAN /\ q.format \in {"taken", "refused"}
         /\ q.periods \in {"english", "taken", "refused"} /\ q.options \in Options
         /\ q.rules \in {"zero", "none", "some"}
         /\ q.typed => q.name \in TypedDoors \cup NumericDoors
         /\ q.name # "DateTime" \/ q.typed => q.periods = "english"
  BY DEF Questions

LEMMA CrossingCases ==
  ASSUME NEW q, NEW surface \in Surface
  PROVE  /\ surface \in CheckedSurface =>
              CrossingOf(surface, q) = CheckedDoorway(Returns[q.name], q, q.typed)
         /\ surface \notin CheckedSurface /\ q.typed =>
              CrossingOf(surface, q) = TypedDoorway(q.name, q)
         /\ surface = "plain" /\ ~q.typed =>
              CrossingOf(surface, q) = Doorway(q.name, [q EXCEPT !.periods = Nothing], Nothing)
         /\ surface \in {"with", "numeric", "scalar"} /\ ~q.typed =>
              CrossingOf(surface, q) = Doorway(Arm(surface, q), q, Nothing)
         /\ surface \in {"detailed", "numericDetailed", "scalarDetailed"} /\ ~q.typed =>
              CrossingOf(surface, q) = Doorway(Arm(surface, q), q, q.options)
  BY DEF CrossingOf, CheckedSurface

LEMMA ArmCases ==
  ASSUME NEW q
  PROVE  /\ \A s \in {"numeric", "numericDetailed"} : Arm(s, q) = NumericArm(Returns[q.name])
         /\ \A s \in {"scalar", "scalarDetailed"} : Arm(s, q) = ScalarArm(Returns[q.name])
         /\ \A s \in {"plain", "with", "detailed"} : Arm(s, q) = q.name
<1>1. /\ \A s \in {"scalar", "scalarDetailed"} : s \notin {"numeric", "numericDetailed"}
      /\ \A s \in {"plain", "with", "detailed"} :
            s \notin {"scalar", "scalarDetailed", "numeric", "numericDetailed"}
  OBVIOUS
<1>2. ASSUME NEW s \in {"numeric", "numericDetailed"} PROVE Arm(s, q) = NumericArm(Returns[q.name])
  BY Zenon DEF Arm
<1>3. ASSUME NEW s \in {"scalar", "scalarDetailed"} PROVE Arm(s, q) = ScalarArm(Returns[q.name])
  BY <1>1, Zenon DEF Arm
<1>4. ASSUME NEW s \in {"plain", "with", "detailed"} PROVE Arm(s, q) = q.name
  BY <1>1, Zenon DEF Arm
<1> QED BY <1>2, <1>3, <1>4

(* What an offered surface says of the question.                           *)
LEMMA OfferCases ==
  ASSUME NEW q, NEW surface \in Surface, Offers(surface, q)
  PROVE  /\ surface = "plain" =>
              /\ q.rules = "none" /\ q.options = ZeroOptions /\ q.periods = "english"
              /\ q.typed => q.name \in TypedDoors
         /\ surface = "with" =>
              ~q.typed /\ q.rules = "none" /\ q.name = "DateTime" /\ q.options = ZeroOptions
         /\ surface = "detailed" => q.rules = "none" /\ (q.typed => q.name \in TypedDoors)
         /\ surface \in {"numeric", "numericDetailed"} =>
              ~q.typed /\ q.rules = "none" /\ Returns[q.name] \in Number
         /\ surface \in {"scalar", "scalarDetailed"} =>
              /\ ~q.typed /\ q.rules = "none" /\ Returns[q.name] \in ScalarTarget
              /\ q.options = ZeroOptions
              /\ q.name \notin {"Unix", "ExcelSerial", "DateOnlyOrdered"}
         /\ surface \in CheckedSurface =>
              Returns[q.name] \in Number \/ (Returns[q.name] = "string" /\ ~q.typed)
<1>1. /\ \A s \in {"numeric", "numericDetailed"} : s # "plain" /\ s # "with" /\ s # "detailed"
      /\ \A s \in {"scalar", "scalarDetailed"} :
           s # "plain" /\ s # "with" /\ s # "detailed" /\ s \notin {"numeric", "numericDetailed"}
      /\ \A s \in CheckedSurface :
           /\ s # "plain" /\ s # "with" /\ s # "detailed" /\ s \notin {"numeric", "numericDetailed"}
           /\ s \notin {"scalar", "scalarDetailed"}
      /\ "plain" # "with" /\ "plain" # "detailed" /\ "with" # "detailed"
  BY DEF CheckedSurface
<1>2. surface = "plain" =>
              /\ q.rules = "none" /\ q.options = ZeroOptions /\ q.periods = "english"
              /\ q.typed => q.name \in TypedDoors
  BY <1>1, Zenon DEF Offers
<1>3. surface = "with" =>
              ~q.typed /\ q.rules = "none" /\ q.name = "DateTime" /\ q.options = ZeroOptions
  BY <1>1, Zenon DEF Offers
<1>4. surface = "detailed" => q.rules = "none" /\ (q.typed => q.name \in TypedDoors)
  BY <1>1, Zenon DEF Offers
<1>5. surface \in {"numeric", "numericDetailed"} =>
              ~q.typed /\ q.rules = "none" /\ Returns[q.name] \in Number
  BY <1>1, Zenon DEF Offers
<1>6. surface \in {"scalar", "scalarDetailed"} =>
              /\ ~q.typed /\ q.rules = "none" /\ Returns[q.name] \in ScalarTarget
              /\ q.options = ZeroOptions
              /\ q.name \notin {"Unix", "ExcelSerial", "DateOnlyOrdered"}
  BY <1>1, Zenon DEF Offers
<1>7. surface \in CheckedSurface =>
              Returns[q.name] \in Number \/ (Returns[q.name] = "string" /\ ~q.typed)
  BY <1>1, Zenon DEF Offers
<1> QED BY <1>2, <1>3, <1>4, <1>5, <1>6, <1>7

(* An unchecked surface goes through the door the question names, and a    *)
(* checked one is offered for numbers and strings alone.                   *)
LEMMA ArmIsName ==
  ASSUME NEW q \in Questions, NEW surface \in Surface, Offers(surface, q),
         surface \notin CheckedSurface
  PROVE  Arm(surface, q) = q.name
<1>1. q.name \in DOMAIN Door  BY QuestionFields
<1>2. CASE surface \in {"numeric", "numericDetailed"}
  <2>1. q.name \in NumericDoors
    BY <1>1, <1>2, OfferCases DEF NumericDoors
  <2> QED BY <1>2, <2>1, ArmCases, NumericArmNames
<1>3. CASE surface \in {"scalar", "scalarDetailed"}
  <2>1. Returns[q.name] \in ScalarTarget /\ q.name \notin {"Unix", "ExcelSerial", "DateOnlyOrdered"}
    BY <1>3, OfferCases
  <2> QED BY <1>1, <1>3, <2>1, ArmCases, ScalarArmNames
<1>4. CASE surface \in {"plain", "with", "detailed"}
  BY <1>4, ArmCases
<1> QED BY <1>2, <1>3, <1>4 DEF Surface, CheckedSurface, DetailedSurface

LEMMA CheckedNames ==
  ASSUME NEW q \in Questions, NEW surface \in CheckedSurface, Offers(surface, q)
  PROVE  q.name \in NumericDoors \cup {"String"} /\ (q.typed => q.name \in NumericDoors)
<1>1. q.name \in DOMAIN Door  BY QuestionFields
<1>2. surface \in Surface  BY DEF Surface, CheckedSurface, DetailedSurface
<1>3. Returns[q.name] \in Number \/ (Returns[q.name] = "string" /\ ~q.typed)
  BY <1>2, OfferCases
<1>4. CASE Returns[q.name] \in Number
  BY <1>1, <1>4 DEF NumericDoors
<1>5. CASE Returns[q.name] = "string" /\ ~q.typed
  <2>1. q.name = "String"  BY <1>1, <1>5 DEF Returns, Door
  <2> QED BY <2>1, <1>5
<1> QED BY <1>3, <1>4, <1>5

(* Whatever is asked, what a surface hands the core is inside the contract *)
(* the core's entries hold it to.                                          *)
LEMMA CrossingsMeetTheContract ==
  ASSUME NEW q \in Questions, NEW surface \in Surface, Offers(surface, q),
         CrossingOf(surface, q) # CallerBug
  PROVE  CrossingOf(surface, q) \in Crossings /\ ContractMet(CrossingOf(surface, q))
<1>1. CASE surface \in CheckedSurface
  <2>1. q.name \in NumericDoors \cup {"String"} /\ (q.typed => q.name \in NumericDoors)
    BY <1>1, CheckedNames
  <2>2. CrossingOf(surface, q) = CheckedDoorway(Returns[q.name], q, q.typed)
    BY <1>1, CrossingCases
  <2> QED BY <2>1, <2>2, QuestionFields, CheckedDoorwayMeets
<1>2. CASE surface \notin CheckedSurface /\ q.typed
  <2>1. CrossingOf(surface, q) = TypedDoorway(q.name, q)
    BY <1>2, CrossingCases
  <2>2. q.name \in TypedDoors
    BY <1>2, OfferCases DEF Surface, DetailedSurface, CheckedSurface
  <2> QED BY <2>1, <2>2, TypedDoorwayMeets
<1>3. CASE surface \notin CheckedSurface /\ ~q.typed
  <2>1. q.name \in DOMAIN Door /\ Arm(surface, q) = q.name
    BY <1>3, ArmIsName, QuestionFields
  <2>2. CASE surface = "plain"
    <3> DEFINE p == [q EXCEPT !.periods = Nothing]
    <3>1. CrossingOf(surface, q) = Doorway(q.name, p, Nothing)
      BY <1>3, <2>2, CrossingCases
    <3>2. p.format = q.format /\ p.periods = Nothing
      BY DEF Questions
    <3>3. p.format \in {"taken", "refused"} /\ p.periods \in {Nothing, "english", "taken", "refused"}
      BY <3>2, QuestionFields
    <3> HIDE DEF p
    <3> QED BY <2>1, <3>1, <3>3, DoorwayMeets
  <2>3. CASE surface \in {"with", "numeric", "scalar"}
    <3>1. CrossingOf(surface, q) = Doorway(q.name, q, Nothing)
      BY <1>3, <2>1, <2>3, CrossingCases
    <3> QED BY <2>1, <3>1, QuestionFields, DoorwayMeets
  <2>4. CASE surface \in {"detailed", "numericDetailed", "scalarDetailed"}
    <3>1. CrossingOf(surface, q) = Doorway(q.name, q, q.options)
      BY <1>3, <2>1, <2>4, CrossingCases
    <3> QED BY <2>1, <3>1, QuestionFields, DoorwayMeets
  <2> QED BY <1>3, <2>2, <2>3, <2>4 DEF Surface, CheckedSurface, DetailedSurface
<1> QED BY <1>1, <1>2, <1>3

(* Options that declare nothing are no options.                            *)
LEMMA ZeroOptionsAreNone ==
  ASSUME NEW name \in DOMAIN Door, NEW q
  PROVE  Doorway(name, q, ZeroOptions) = Doorway(name, q, Nothing)
<1>1. \A door, param, periods :
        DateCall(door, param, periods, ZeroOptions) = DateCall(door, param, periods, Nothing)
  BY DEF DateCall
<1>2. CASE name \in TextDoors
  BY <1>2, TextDoorway
<1>3. CASE name \in NumericDoors
  BY <1>3, NumericDoorway
<1>4. CASE name \in {"Timestamp", "Unix", "DateOnly", "DateOnlyOrdered", "DateTime", "ExcelSerial"}
  <2>1. InstantCall(0, ZeroOptions) = InstantCall(0, Nothing)
    BY <1>1 DEF InstantCall
  <2>2. /\ DateOnlyOrdered(q.param, ZeroOptions) = DateOnlyOrdered(q.param, Nothing)
        /\ DateTime(q.param, q.periods, ZeroOptions) = DateTime(q.param, q.periods, Nothing)
    BY <1>1 DEF DateOnlyOrdered, DateTime
  <2> QED BY <1>1, <1>4, <2>1, <2>2, DatedDoorways
<1> QED BY <1>2, <1>3, <1>4, DoorNames

(* Every unchecked surface reads the question as the plain door of its     *)
(* name.                                                                   *)
LEMMA UncheckedReading ==
  ASSUME NEW q \in Questions, NEW surface \in Surface \ CheckedSurface, Offers(surface, q)
  PROVE  \/ CrossingOf(surface, q) = CrossingOf("detailed", q)
         \/ /\ CrossingOf(surface, q) # CallerBug /\ CrossingOf("detailed", q) # CallerBug
            /\ AsRead(CrossingOf(surface, q)) = AsRead(CrossingOf("detailed", q))
<1>0. "detailed" \in Surface /\ "detailed" \notin CheckedSurface
  BY DEF Surface, CheckedSurface, DetailedSurface
<1>1. CASE q.typed
  <2>1. CrossingOf(surface, q) = TypedDoorway(q.name, q)
        /\ CrossingOf("detailed", q) = TypedDoorway(q.name, q)
    BY <1>0, <1>1, CrossingCases
  <2> QED BY <2>1
<1>2. CASE ~q.typed
  <2>1. q.name \in DOMAIN Door /\ Arm(surface, q) = q.name /\ Arm("detailed", q) = q.name
    BY ArmIsName, ArmCases, QuestionFields
  <2>2. CrossingOf("detailed", q) = Doorway(q.name, q, q.options)
    BY <1>0, <1>2, <2>1, CrossingCases
  <2>3. CASE surface \in {"detailed", "numericDetailed", "scalarDetailed"}
    BY <1>2, <2>1, <2>2, <2>3, CrossingCases
  <2>4. CASE surface \in {"numeric", "with", "scalar"}
    <3>1. CrossingOf(surface, q) = Doorway(q.name, q, Nothing)
      BY <1>2, <2>1, <2>4, CrossingCases
    <3>2. CASE surface \in {"with", "scalar"}
      <4>1. q.options = ZeroOptions  BY <3>2, OfferCases
      <4> QED BY <2>1, <2>2, <3>1, <4>1, ZeroOptionsAreNone
    <3>3. CASE surface = "numeric"
      <4>1. q.name \in NumericDoors
        BY <2>1, <3>3, OfferCases DEF NumericDoors
      <4> QED BY <2>2, <3>1, <4>1, NumericDoorway
    <3> QED BY <2>4, <3>2, <3>3
  <2>5. CASE surface = "plain"
    <3> DEFINE p == [q EXCEPT !.periods = Nothing]
    <3>1. q.options = ZeroOptions /\ q.periods = "english"
      BY <2>5, OfferCases
    <3>2. CrossingOf("detailed", q) = Doorway(q.name, q, Nothing)
      BY <2>1, <2>2, <3>1, ZeroOptionsAreNone
    <3>3. CrossingOf(surface, q) = Doorway(q.name, p, Nothing)
      BY <1>2, <2>5, CrossingCases
    <3>4. p.format = q.format /\ p.param = q.param /\ p.periods = Nothing
      BY DEF Questions
    <3> HIDE DEF p
    <3>5. CASE q.name \in TextDoors
      BY <3>2, <3>3, <3>5, TextDoorway
    <3>6. CASE q.name \in NumericDoors
      <4>1. NumericCall(Door[q.name], p) = NumericCall(Door[q.name], q)
        BY <3>4 DEF NumericCall
      <4> QED BY <3>2, <3>3, <3>6, <4>1, NumericDoorway
    <3>7. CASE q.name \in {"Timestamp", "Unix", "DateOnly", "DateOnlyOrdered", "ExcelSerial"}
      BY <3>2, <3>3, <3>4, <3>7, DatedDoorways
    <3>8. CASE q.name = "DateTime"
      <4>1. CrossingOf(surface, q) = DateTime(q.param, Nothing, Nothing)
            /\ CrossingOf("detailed", q) = DateTime(q.param, "english", Nothing)
        BY <3>1, <3>2, <3>3, <3>4, <3>8, DatedDoorways
      <4>2. CASE q.param \notin Order
        BY <4>1, <4>2 DEF DateTime
      <4>3. CASE q.param \in Order
        <5> DEFINE x == DateCall(21, q.param, Nothing, Nothing)
                   y == DateCall(21, q.param, "english", Nothing)
                   c == Crossing("detailed", 21, q.param)
        <5>1. CrossingOf(surface, q) = x /\ CrossingOf("detailed", q) = y
          BY <4>1, <4>3, Codes, DoorAssumption DEF DateTime
        <5>2. /\ x = [ export |-> "detailed", door |-> 21, param |-> q.param, format |-> Nothing,
                periods |-> Nothing, options |-> Nothing, vocab |-> FALSE, decl |-> Nothing ]
              /\ y = [ export |-> "detailed", door |-> 21, param |-> q.param, format |-> Nothing,
                periods |-> "english", options |-> Nothing, vocab |-> FALSE, decl |-> Nothing ]
          BY DEF DateCall, Crossing
        <5> HIDE DEF x, y, c
        <5>3. AsRead(x) = y /\ AsRead(y) = y
          <6>1. x.door = 21 /\ x.periods = Nothing /\ y.door = 21 /\ y.periods = "english"
            BY <5>2
          <6>2. AsRead(x) = [x EXCEPT !.periods = "english"]
            BY <6>1, Codes DEF AsRead
          <6>3. AsRead(y) = [y EXCEPT !.periods = "english"]
            BY <6>1, Codes DEF AsRead
          <6>4. x = [c EXCEPT !.periods = Nothing] /\ y = [c EXCEPT !.periods = "english"]
            BY DEF x, y, c, DateCall
          <6> QED BY <6>2, <6>3, <6>4
        <5>4. q.param \in 0 .. 4  BY <4>3 DEF Order
        <5>5. x \in Crossings /\ y \in Crossings
          <6>1. x \in Crossings
            BY <5>2, <5>4 DEF Crossings
          <6>2. y \in Crossings
            BY <5>2, <5>4 DEF Crossings
          <6> QED BY <6>1, <6>2
        <5>6. x # CallerBug /\ y # CallerBug
          BY <5>5, DoorAssumption
        <5> QED BY <5>1, <5>3, <5>6 DEF x, y
      <4> QED BY <4>2, <4>3
    <3> QED BY <2>1, <3>5, <3>6, <3>7, <3>8, DoorNames
  <2> QED BY <2>3, <2>4, <2>5 DEF Surface, CheckedSurface, DetailedSurface
<1> QED BY <1>1, <1>2, QuestionFields

(* Two surfaces of one kind put one crossing to the core, and look at the  *)
(* answer alike.                                                           *)
LEMMA SameReading ==
  ASSUME NEW q \in Questions, NEW s \in Surface, NEW t \in Surface, Offers(s, q), Offers(t, q),
         s \in CheckedSurface <=> t \in CheckedSurface
  PROVE  /\ CrossingOf(s, q) = CallerBug <=> CrossingOf(t, q) = CallerBug
         /\ AsRead(CrossingOf(s, q)) = AsRead(CrossingOf(t, q))
         /\ ViewOf(s, q) = ViewOf(t, q)
<1>1. CASE s \in CheckedSurface
  <2>1. CrossingOf(s, q) = CrossingOf(t, q)
    BY <1>1, CrossingCases
  <2> QED BY <1>1, <2>1 DEF ViewOf
<1>2. CASE s \notin CheckedSurface
  <2>1. ViewOf(s, q) = ViewOf(t, q)
    BY <1>2, ArmIsName DEF ViewOf
  <2>2. /\ CrossingOf(s, q) = CallerBug <=> CrossingOf("detailed", q) = CallerBug
        /\ AsRead(CrossingOf(s, q)) = AsRead(CrossingOf("detailed", q))
    BY <1>2, UncheckedReading
  <2>3. /\ CrossingOf(t, q) = CallerBug <=> CrossingOf("detailed", q) = CallerBug
        /\ AsRead(CrossingOf(t, q)) = AsRead(CrossingOf("detailed", q))
    BY <1>2, UncheckedReading
  <2> QED BY <2>1, <2>2, <2>3
<1> QED BY <1>1, <1>2

(* Reading a crossing changes neither its door nor its export.             *)
LEMMA ReadFields ==
  ASSUME NEW x \in Crossings
  PROVE  AsRead(x).door = x.door /\ AsRead(x).export = x.export /\ AsRead(x).decl = x.decl
  BY DEF AsRead, Crossings

(* What the model's verdicts are made of.                                  *)
LEMMA VerdictFields ==
  ASSUME NEW x, NEW v \in Verdicts(x)
  PROVE  /\ v.code \in -2 .. 5
         /\ v.offset \in 0 .. TextLength + 1
         /\ v.len \in (0 .. TextLength) \cup {Word - 1}
         /\ v.entry = NoEntry \/ v.entry \in 0 .. Entries
<1>1. ASSUME NEW code
      PROVE  /\ Verdict(code).code = code /\ Verdict(code).offset = 0
             /\ Verdict(code).len = TextLength /\ Verdict(code).entry = NoEntry
  BY DEF Verdict
<1>2. TextLength \in Nat  BY SessionAssumption
<1>3. CASE v \in { Verdict(code) : code \in -2 .. 5 }
  BY <1>1, <1>2, <1>3
<1>4. CASE v = [Verdict(2) EXCEPT !.detail = 33]
  BY <1>2, <1>4 DEF Verdict
<1>5. CASE v \in { [Verdict(0) EXCEPT !.offset = span.offset, !.len = span.len] : span \in Spans }
  <2>1. PICK span \in Spans : v = [Verdict(0) EXCEPT !.offset = span.offset, !.len = span.len]
    BY <1>5
  <2>2. v.code = 0 /\ v.entry = NoEntry /\ v.offset = span.offset /\ v.len = span.len
    BY <2>1 DEF Verdict
  <2> HIDE <2>1
  <2> QED BY <2>2 DEF Spans
<1>6. CASE v \in {[Verdict(4) EXCEPT !.keyword = 1], [Verdict(0) EXCEPT !.adjusted = 1]}
  BY <1>2, <1>6 DEF Verdict
<1>7. CASE v \in { [Verdict(0) EXCEPT !.entry = e] : e \in 0 .. Entries }
  BY <1>2, <1>7 DEF Verdict
<1>8. \/ v \in { Verdict(code) : code \in -2 .. 5 }
      \/ v = [Verdict(2) EXCEPT !.detail = 33]
      \/ v \in { [Verdict(0) EXCEPT !.offset = span.offset, !.len = span.len] : span \in Spans }
      \/ v \in {[Verdict(4) EXCEPT !.keyword = 1], [Verdict(0) EXCEPT !.adjusted = 1]}
      \/ v \in { [Verdict(0) EXCEPT !.entry = e] : e \in 0 .. Entries }
  BY Zenon DEF Verdicts
<1> QED BY <1>3, <1>4, <1>5, <1>6, <1>7, <1>8

(* What an answer can be, by the verdict's code.                           *)
LEMMA AnswerCases ==
  ASSUME NEW s, NEW q, NEW x, NEW v, v.code \in -2 .. 5
  PROVE  /\ v.code = 0 => Answer(s, q, x, v) = Success(s, q, x, v)
         /\ v.code \in 1 .. 3 => Answer(s, q, x, v) =
              [kind |-> "fault", reason |-> v.code,
               detail |-> IF s \in DetailedSurface THEN v.detail ELSE Nothing]
         /\ v.code = 4 /\ s \in CheckedSurface /\ v.keyword # 0 =>
              Answer(s, q, x, v) = [kind |-> "violation", keyword |-> v.keyword]
         /\ v.code = 4 /\ ~(s \in CheckedSurface /\ v.keyword # 0) =>
              Answer(s, q, x, v) = BindingBug
         /\ v.code \in {-2, -1, 5} => Answer(s, q, x, v) = BindingBug
  BY DEF Answer, Rejected, Failed, ReasonFromCode

LEMMA SuccessCases ==
  ASSUME NEW s, NEW q, NEW x, NEW v
  PROVE  \/ Success(s, q, x, v) = BindingBug
         \/ /\ Success(s, q, x, v).kind = "value"
            /\ Success(s, q, x, v).door = x.door
            /\ Success(s, q, x, v).view = ViewOf(s, q)
  BY DEF Success, Delivered

(* Same kind of surface, same door, same view: the same answer but for the *)
(* detail.                                                                 *)
LEMMA SameAnswer ==
  ASSUME NEW s, NEW t, s \in CheckedSurface <=> t \in CheckedSurface,
         NEW q, NEW x, NEW y, x.door = y.door, ViewOf(s, q) = ViewOf(t, q),
         NEW v, v.code \in -2 .. 5
  PROVE  /\ WithoutDetail(Answer(s, q, x, v)) = WithoutDetail(Answer(t, q, y, v))
         /\ WithoutDetail(Optional(Answer(s, q, x, v))) = WithoutDetail(Optional(Answer(t, q, y, v)))
<1>1. CASE v.code = 0
  <2>1. \A text : Delivered(s, q, x, v, text) = Delivered(t, q, y, v, text)
    BY DEF Delivered
  <2>2. Success(s, q, x, v) = Success(t, q, y, v)
    BY <2>1 DEF Success
  <2> QED BY <1>1, <2>2, AnswerCases
<1>2. CASE v.code \in 1 .. 3
  <2>1. ASSUME NEW d PROVE WithoutDetail([kind |-> "fault", reason |-> v.code, detail |-> d]) =
                             [kind |-> "fault", reason |-> v.code, detail |-> Nothing]
    BY DEF WithoutDetail
  <2>2. ASSUME NEW d PROVE Optional([kind |-> "fault", reason |-> v.code, detail |-> d]) =
           IF v.code = 1 THEN [kind |-> "absent"]
           ELSE [kind |-> "fault", reason |-> v.code, detail |-> d]
    BY DEF Optional
  <2> DEFINE d == IF s \in DetailedSurface THEN v.detail ELSE Nothing
             e == IF t \in DetailedSurface THEN v.detail ELSE Nothing
  <2>3. /\ Answer(s, q, x, v) = [kind |-> "fault", reason |-> v.code, detail |-> d]
        /\ Answer(t, q, y, v) = [kind |-> "fault", reason |-> v.code, detail |-> e]
    BY <1>2, AnswerCases
  <2> HIDE DEF d, e
  <2> QED BY <2>1, <2>2, <2>3
<1>3. CASE v.code \in {-2, -1, 4, 5}
  <2>1. Answer(s, q, x, v) = Answer(t, q, y, v)
    BY <1>3, AnswerCases
  <2> QED BY <2>1
<1> QED BY <1>1, <1>2, <1>3

(* Only code 1 becomes an absence.                                         *)
LEMMA AbsentAnswer ==
  ASSUME NEW s, NEW q, NEW x, NEW v, v.code \in -2 .. 5
  PROVE  Optional(Answer(s, q, x, v)).kind = "absent" <=> v.code = 1
<1>1. CASE v.code = 0
  <2>1. Success(s, q, x, v).kind \in {"value", "bindingBug"}
    BY SuccessCases DEF BindingBug
  <2> QED BY <1>1, <2>1, AnswerCases DEF Optional
<1>2. CASE v.code \in 1 .. 3
  <2> DEFINE a == Answer(s, q, x, v)
  <2>1. a.kind = "fault" /\ a.reason = v.code
    BY <1>2, AnswerCases
  <2> HIDE DEF a
  <2>2. Optional(a).kind = "absent" <=> v.code = 1
    BY <2>1 DEF Optional
  <2> QED BY <2>2 DEF a
<1>3. CASE v.code \in {-2, -1, 4, 5}
  <2>1. Answer(s, q, x, v).kind \in {"violation", "bindingBug"}
    BY <1>3, AnswerCases DEF BindingBug
  <2> QED BY <1>3, <2>1 DEF Optional
<1> QED BY <1>1, <1>2, <1>3

(* A span's end wraps exactly when its slice would be out of order.        *)
LEMMA SpanSound ==
  ASSUME NEW v, v.offset \in 0 .. TextLength + 1, v.len \in (0 .. TextLength) \cup {Word - 1}
  PROVE  /\ Sliceable(Slice(v)) <=> v.offset + v.len <= TextLength
         /\ v.offset + v.len <= TextLength =>
              Slice(v) = [from |-> v.offset, to |-> v.offset + v.len]
<1> DEFINE o == v.offset
           l == v.len
<1>1. TextLength \in Nat /\ Word \in Nat /\ TextLength < Word /\ Word # 0
  BY SessionAssumption
<1>2. o \in Nat /\ l \in Nat /\ o <= TextLength + 1 /\ l <= Word - 1
  BY <1>1
<1> HIDE DEF o, l
<1>3. CASE o + l < Word
  <2>1. (o + l) % Word = o + l  BY <1>1, <1>2, <1>3
  <2> QED BY <1>1, <1>2, <2>1 DEF Sliceable, Slice, o, l
<1>4. CASE o + l >= Word
  <2>1. (o + l) % Word = o + l - Word
    BY <1>1, <1>2, <1>4
  <2>2. o + l - Word < o
    BY <1>1, <1>2
  <2> QED BY <1>1, <1>2, <1>4, <2>1, <2>2 DEF Sliceable, Slice, o, l
<1> QED BY <1>1, <1>2, <1>3, <1>4

(* The contract of the exports on a verdict, by its code.                  *)
LEMMA SoundCases ==
  ASSUME NEW x, NEW v
  PROVE  /\ v.code = 0 => (Sound(x, v) <=>
              /\ x.door = Door.String /\ (~Checks(x) \/ v.entry = NoEntry) =>
                    v.offset + v.len <= TextLength
              /\ v.entry = NoEntry \/ v.entry < Entries)
         /\ v.code = 4 => (Sound(x, v) <=> Checks(x) /\ v.keyword # 0)
         /\ v.code # 0 /\ v.code # 4 => (Sound(x, v) <=> v.code \in 1 .. 3)
<1>0. 0 # 4 OBVIOUS
<1>1. v.code = 0 => (Sound(x, v) <=>
              /\ x.door = Door.String /\ (~Checks(x) \/ v.entry = NoEntry) =>
                    v.offset + v.len <= TextLength
              /\ v.entry = NoEntry \/ v.entry < Entries)
  BY <1>0, Zenon DEF Sound
<1>2. v.code = 4 => (Sound(x, v) <=> Checks(x) /\ v.keyword # 0)
  BY <1>0, Zenon DEF Sound
<1>3. v.code # 0 /\ v.code # 4 => (Sound(x, v) <=> v.code \in 1 .. 3)
  BY <1>0, Zenon DEF Sound
<1> QED BY <1>1, <1>2, <1>3

(* What is recorded of a surface is its crossing of the question, with the *)
(* core's one verdict on it and the answer made of that verdict.           *)
Recorded(s) ==
    LET x == CrossingOf(s, question) IN
    /\ told[s].optional = Optional(told[s].answer)
    /\ x = CallerBug => told[s].crossing = Nothing /\ told[s].answer = [kind |-> "callerBug"]
    /\ x # CallerBug =>
         /\ told[s].crossing = x
         /\ AsRead(x) \in DOMAIN judged /\ told[s].verdict = judged[AsRead(x)]
         /\ told[s].answer = Answer(s, question, x, told[s].verdict)

SessionInv ==
    /\ question # Nothing => question \in Questions
    /\ question = Nothing => DOMAIN told = {}
    /\ \A s \in DOMAIN told : s \in Surface /\ Offers(s, question) /\ Recorded(s)
    /\ \A read \in DOMAIN judged : judged[read] \in Verdicts(read)

(* The invariant holds at the start, and a reading has its crossing's      *)
(* verdicts.                                                               *)
LEMMA SessionStarts == Init => SessionInv
  BY DEF Init, SessionInv

LEMMA VerdictsAsRead ==
  ASSUME NEW x \in Crossings PROVE Verdicts(AsRead(x)) = Verdicts(x)
<1>1. AsRead(x).door = x.door /\ AsRead(x).export = x.export
  BY ReadFields
<1> QED BY <1>1 DEF Verdicts, Checks

(* Every step keeps the invariant.                                         *)
LEMMA SessionStep == SessionInv /\ [Next]_vars => SessionInv'
<1> SUFFICES ASSUME SessionInv, [Next]_vars PROVE SessionInv'
  OBVIOUS
<1>1. CASE Ask
  <2>1. DOMAIN told = {} /\ told' = told /\ judged' = judged /\ question' \in Questions
    BY <1>1 DEF Ask, SessionInv
  <2> QED BY <2>1 DEF SessionInv
<1>2. ASSUME NEW surface \in Surface, Refuses(surface) PROVE SessionInv'
  <2> DEFINE entry == [ crossing |-> Nothing, verdict |-> Nothing, answer |-> [kind |-> "callerBug"],
                        optional |-> Optional([kind |-> "callerBug"]) ]
  <2>1. /\ question' = question /\ judged' = judged /\ told' = Keep(told, surface, entry)
        /\ question # Nothing /\ surface \notin DOMAIN told /\ Offers(surface, question)
        /\ CrossingOf(surface, question) = CallerBug
    BY <1>2 DEF Refuses, Tell, Asked
  <2>2. /\ DOMAIN told' = DOMAIN told \cup {surface} /\ told'[surface] = entry
        /\ \A s \in DOMAIN told : told'[s] = told[s]
    BY <2>1 DEF Keep
  <2>3. Recorded(surface)'
    BY <2>1, <2>2 DEF Recorded
  <2>4. ASSUME NEW s \in DOMAIN told PROVE s \in Surface /\ Offers(s, question) /\ Recorded(s)'
    BY <2>1, <2>2 DEF SessionInv, Recorded
  <2> QED BY <2>1, <2>2, <2>3, <2>4 DEF SessionInv
<1>3. ASSUME NEW surface \in Surface, Crosses(surface) PROVE SessionInv'
  <2> DEFINE x == CrossingOf(surface, question)
             read == AsRead(x)
  <2>1. /\ question' = question /\ x # CallerBug
        /\ question # Nothing /\ surface \notin DOMAIN told /\ Offers(surface, question)
    BY <1>3 DEF Crosses, Asked
  <2>2. question \in Questions
    BY <2>1 DEF SessionInv
  <2>3. x \in Crossings /\ ContractMet(x)
    BY <2>1, <2>2, CrossingsMeetTheContract
  <2>4. PICK v \in IF read \in DOMAIN judged THEN {judged[read]} ELSE Verdicts(x) :
          /\ judged' = Keep(judged, read, v)
          /\ Tell(surface, x, v, Answer(surface, question, x, v))
    BY <1>3, <2>3 DEF Crosses
  <2> DEFINE answer == Answer(surface, question, x, v)
             entry == [ crossing |-> x, verdict |-> v, answer |-> answer,
                        optional |-> Optional(answer) ]
  <2>5. told' = Keep(told, surface, entry)
    BY <2>4 DEF Tell
  <2>6. v \in Verdicts(read)
    BY <2>3, <2>4, VerdictsAsRead DEF SessionInv
  <2> HIDE DEF x, read, answer
  <2>7. /\ DOMAIN told' = DOMAIN told \cup {surface} /\ told'[surface] = entry
        /\ \A s \in DOMAIN told : told'[s] = told[s]
    BY <2>1, <2>5 DEF Keep
  <2>8. /\ DOMAIN judged' = DOMAIN judged \cup {read} /\ judged'[read] = v
        /\ \A r \in DOMAIN judged : judged'[r] = judged[r]
    <3>1. \A r \in DOMAIN judged : r # read => judged'[r] = judged[r]
      BY <2>4 DEF Keep
    <3>2. read \in DOMAIN judged => v = judged[read]
      BY <2>4
    <3> QED BY <2>4, <3>1, <3>2 DEF Keep
  <2>9. Recorded(surface)'
    <3>1. CrossingOf(surface, question') = x /\ AsRead(x) = read
      BY <2>1 DEF x, read
    <3>2. /\ told'[surface].optional = Optional(answer) /\ told'[surface].answer = answer
          /\ told'[surface].crossing = x /\ told'[surface].verdict = v
      BY <2>7
    <3>3. answer = Answer(surface, question', x, v)
      BY <2>1 DEF answer
    <3> QED BY <2>1, <2>8, <3>1, <3>2, <3>3 DEF Recorded
  <2>10. ASSUME NEW s \in DOMAIN told PROVE s \in Surface /\ Offers(s, question) /\ Recorded(s)'
    BY <2>1, <2>7, <2>8 DEF SessionInv, Recorded
  <2>11. \A r \in DOMAIN judged' : judged'[r] \in Verdicts(r)
    BY <2>6, <2>8 DEF SessionInv
  <2> QED BY <2>1, <2>2, <2>7, <2>9, <2>10, <2>11 DEF SessionInv
<1>4. CASE UNCHANGED vars
  BY <1>4 DEF vars, SessionInv, Recorded
<1> QED BY <1>1, <1>2, <1>3, <1>4 DEF Next

(* What is recorded in a session is, at all times, the one answer the      *)
(* core's one verdict on each crossing makes of the question.              *)
THEOREM SessionInvariant == Spec => []SessionInv
<1>1. Init => SessionInv  BY SessionStarts
<1>2. SessionInv /\ [Next]_vars => SessionInv'  BY SessionStep
<1> QED BY <1>1, <1>2, PTL DEF Spec

(* What is recorded of a surface that crossed.                             *)
LEMMA CrossedFields ==
  ASSUME SessionInv, NEW s \in Crossed
  PROVE  LET x == CrossingOf(s, question) v == told[s].verdict IN
         /\ s \in Surface /\ question \in Questions /\ Offers(s, question)
         /\ x # CallerBug /\ x \in Crossings /\ ContractMet(x)
         /\ told[s].crossing = x /\ told[s].answer = Answer(s, question, x, v)
         /\ told[s].optional = Optional(told[s].answer)
         /\ v \in Verdicts(x)
<1> DEFINE x == CrossingOf(s, question)
           v == told[s].verdict
<1>1. s \in DOMAIN told /\ told[s].crossing # Nothing
  BY DEF Crossed
<1>2. s \in Surface /\ question \in Questions /\ Offers(s, question) /\ Recorded(s)
  BY <1>1 DEF SessionInv
<1>3. /\ x # CallerBug /\ told[s].crossing = x /\ told[s].answer = Answer(s, question, x, v)
      /\ told[s].optional = Optional(told[s].answer)
      /\ AsRead(x) \in DOMAIN judged /\ v = judged[AsRead(x)]
  BY <1>1, <1>2 DEF Recorded
<1>4. x \in Crossings /\ ContractMet(x)
  BY <1>2, <1>3, CrossingsMeetTheContract
<1>5. v \in Verdicts(x)
  BY <1>3, <1>4, VerdictsAsRead DEF SessionInv
<1> QED BY <1>2, <1>3, <1>4, <1>5

(* A door over text crosses by the detailed export, under its own code.    *)
LEMMA DoorwayDoor ==
  ASSUME NEW name \in DOMAIN Door, NEW q, NEW options, Doorway(name, q, options) # CallerBug
  PROVE  /\ Doorway(name, q, options).export = "detailed"
         /\ Doorway(name, q, options).door = Door[name]
<1>1. \A door, param : /\ Crossing("detailed", door, param).export = "detailed"
                       /\ Crossing("detailed", door, param).door = door
  BY DEF Crossing
<1>2. ASSUME NEW door, NEW param, NEW periods, DateCall(door, param, periods, options) # CallerBug
      PROVE  /\ DateCall(door, param, periods, options).export = "detailed"
             /\ DateCall(door, param, periods, options).door = door
  <2> DEFINE plain == [Crossing("detailed", door, param) EXCEPT !.periods = periods]
             vocab == options.months /\ door \in {Door.DateOnlyOrdered, Door.DateTime}
             raw == [size |-> 12, flags |-> options.shapes, pivot |-> options.pivot]
  <2>1. DateCall(door, param, periods, options) \in
          {plain, [plain EXCEPT !.options = raw, !.vocab = vocab]}
    BY <1>2 DEF DateCall
  <2>2. /\ plain.export = "detailed" /\ "export" \in DOMAIN plain
        /\ plain.door = door /\ "door" \in DOMAIN plain
    BY DEF Crossing
  <2> HIDE DEF plain, vocab, raw
  <2>3. /\ [plain EXCEPT !.options = raw, !.vocab = vocab].export = "detailed"
        /\ [plain EXCEPT !.options = raw, !.vocab = vocab].door = door
    BY <2>2
  <2> QED BY <2>1, <2>2, <2>3
<1>3. CASE name \in TextDoors
  BY <1>1, <1>3, TextDoorway DEF TextCall
<1>4. CASE name \in NumericDoors
  <2>1. Doorway(name, q, options) = [Crossing("detailed", Door[name], 0) EXCEPT !.format = q.format]
    BY <1>4, NumericDoorway DEF NumericCall
  <2> QED BY <2>1 DEF Crossing
<1>5. CASE name \in {"Timestamp", "DateOnly", "DateOnlyOrdered", "DateTime"}
  <2>1. \E param, periods : Doorway(name, q, options) = DateCall(Door[name], param, periods, options)
    <3>1. CASE name = "Timestamp"
      BY <3>1, DatedDoorways DEF InstantCall
    <3>2. CASE name = "DateOnly"
      BY <3>2, DatedDoorways
    <3>3. CASE name = "DateOnlyOrdered"
      BY <3>3, DatedDoorways DEF DateOnlyOrdered
    <3>4. CASE name = "DateTime"
      BY <3>4, DatedDoorways DEF DateTime
    <3> QED BY <1>5, <3>1, <3>2, <3>3, <3>4
  <2> QED BY <1>2, <2>1
<1>6. CASE name = "Unix"
  BY <1>1, <1>6, DatedDoorways DEF Unix, InstantCall, Precision
<1>7. CASE name = "ExcelSerial"
  BY <1>1, <1>7, DatedDoorways DEF ExcelSerial
<1> QED BY <1>3, <1>4, <1>5, <1>6, <1>7, DoorNames

(* Only the checked surfaces cross through the checked exports.            *)
LEMMA CheckedCross ==
  ASSUME NEW q \in Questions, NEW s \in Surface, Offers(s, q), CrossingOf(s, q) # CallerBug
  PROVE  Checks(CrossingOf(s, q)) <=> s \in CheckedSurface
<1>1. CASE s \in CheckedSurface
  <2>1. CrossingOf(s, q) = CheckedDoorway(Returns[q.name], q, q.typed)
    BY <1>1, CrossingCases
  <2>2. CrossingOf(s, q).export = IF q.typed THEN "checkedFromF64" ELSE "checked"
    BY <2>1 DEF CheckedDoorway, Crossing
  <2> QED BY <1>1, <2>2 DEF Checks
<1>2. CASE s \notin CheckedSurface /\ q.typed
  <2>1. CrossingOf(s, q) = TypedDoorway(q.name, q)
    BY <1>2, CrossingCases
  <2>2. CrossingOf(s, q).export = "detailedFromF64"
    BY <2>1 DEF TypedDoorway, Crossing
  <2> QED BY <1>2, <2>2 DEF Checks
<1>3. CASE s \notin CheckedSurface /\ ~q.typed
  <2>1. q.name \in DOMAIN Door /\ Arm(s, q) = q.name
    BY <1>3, ArmIsName, QuestionFields
  <2>2. \E p, options : CrossingOf(s, q) = Doorway(q.name, p, options)
    BY <1>3, <2>1, CrossingCases DEF Surface, CheckedSurface, DetailedSurface
  <2>3. CrossingOf(s, q).export = "detailed"
    BY <2>1, <2>2, DoorwayDoor
  <2> QED BY <1>3, <2>3 DEF Checks
<1> QED BY <1>1, <1>2, <1>3

(* An entry is only named by a verdict on a checked text.                  *)
LEMMA DeclaredEntry ==
  ASSUME NEW x, NEW v \in Verdicts(x), v.entry # NoEntry
  PROVE  Checks(x) /\ x.door = Door.String
<1>1. ASSUME NEW code PROVE Verdict(code).entry = NoEntry
  BY DEF Verdict
<1>2. ASSUME NEW code, NEW keyword
      PROVE  /\ [Verdict(code) EXCEPT !.detail = keyword].entry = NoEntry
             /\ [Verdict(code) EXCEPT !.keyword = keyword].entry = NoEntry
             /\ [Verdict(code) EXCEPT !.adjusted = keyword].entry = NoEntry
  BY DEF Verdict
<1>3. ASSUME NEW span PROVE [Verdict(0) EXCEPT !.offset = span.offset, !.len = span.len].entry = NoEntry
  BY DEF Verdict
<1> SUFFICES ASSUME ~(Checks(x) /\ x.door = Door.String) PROVE v.entry = NoEntry
  OBVIOUS
<1>4. \/ v \in { Verdict(code) : code \in -2 .. 5 }
      \/ v = [Verdict(2) EXCEPT !.detail = 33]
      \/ v \in { [Verdict(0) EXCEPT !.offset = span.offset, !.len = span.len] : span \in Spans }
      \/ v \in {[Verdict(4) EXCEPT !.keyword = 1], [Verdict(0) EXCEPT !.adjusted = 1]}
  BY Zenon DEF Verdicts
<1>5. CASE v \in { Verdict(code) : code \in -2 .. 5 }
  BY <1>1, <1>5
<1>6. CASE v = [Verdict(2) EXCEPT !.detail = 33]
  BY <1>2, <1>6
<1>7. CASE v \in { [Verdict(0) EXCEPT !.offset = span.offset, !.len = span.len] : span \in Spans }
  BY <1>3, <1>7
<1>8. CASE v \in {[Verdict(4) EXCEPT !.keyword = 1], [Verdict(0) EXCEPT !.adjusted = 1]}
  <2>1. [Verdict(4) EXCEPT !.keyword = 1].entry = NoEntry
    BY <1>2
  <2>2. [Verdict(0) EXCEPT !.adjusted = 1].entry = NoEntry
    BY <1>2
  <2> QED BY <1>8, <2>1, <2>2
<1> QED BY <1>4, <1>5, <1>6, <1>7, <1>8

(* For every option, order, precision, epoch and format a caller can       *)
(* declare, no exported function hands the core a crossing it calls a      *)
(* contract violation (interop.go's doors, the generated entries).         *)
THEOREM NoContractViolationHolds == Spec => []NoContractViolation
<1>1. SessionInv => NoContractViolation
  BY CrossedFields DEF NoContractViolation
<1> QED BY <1>1, SessionInvariant, PTL

(* Optional, OptionalDetailed and their checked forms present exactly the  *)
(* core's code 1 as absent (cast.go, detailed.go, checked.go).             *)
THEOREM AbsentMeansEmptyHolds == Spec => []AbsentMeansEmpty
<1>1. SessionInv => AbsentMeansEmpty
  <2> SUFFICES ASSUME SessionInv, NEW s \in Crossed
               PROVE  (told[s].optional.kind = "absent") <=> told[s].verdict.code = 1
    BY DEF AbsentMeansEmpty
  <2> DEFINE x == CrossingOf(s, question)
             v == told[s].verdict
  <2>1. told[s].optional = Optional(Answer(s, question, x, v)) /\ v.code \in -2 .. 5
    BY CrossedFields, VerdictFields
  <2> QED BY <2>1, AbsentAnswer
<1> QED BY <1>1, SessionInvariant, PTL

(* A verdict outside the exports' contract is a panic, one inside it never *)
(* is, and a text delivered is the span named, for every text length and   *)
(* word size (interop.go's slice, failed, violated; checked.go's           *)
(* checkedText).                                                           *)
THEOREM BrokenCoresPanicHolds == Spec => []BrokenCoresPanic
<1>1. SessionInv => BrokenCoresPanic
  <2> SUFFICES ASSUME SessionInv, NEW s \in Crossed
               PROVE  LET x == told[s].crossing v == told[s].verdict a == told[s].answer IN
                      /\ (a.kind = "bindingBug") <=> ~Sound(x, v)
                      /\ a.kind = "value" /\ x.door = Door.String /\ v.entry = NoEntry =>
                             a.text = [from |-> v.offset, to |-> v.offset + v.len]
    BY DEF BrokenCoresPanic
  <2> DEFINE x == told[s].crossing
             v == told[s].verdict
             a == told[s].answer
             q == question
  <2>1. /\ q \in Questions /\ Offers(s, q) /\ s \in Surface /\ x = CrossingOf(s, q) /\ x # CallerBug
        /\ x \in Crossings /\ a = Answer(s, q, x, v) /\ v \in Verdicts(x)
    BY CrossedFields
  <2>2. /\ v.code \in -2 .. 5 /\ v.offset \in 0 .. TextLength + 1
        /\ v.len \in (0 .. TextLength) \cup {Word - 1}
        /\ v.entry = NoEntry \/ v.entry \in 0 .. Entries
    BY <2>1, VerdictFields
  <2>3. Checks(x) <=> s \in CheckedSurface
    BY <2>1, CheckedCross
  <2> HIDE DEF x, v, a, q
  <2>4. CASE v.code = 0
    <3> DEFINE enum == s \in CheckedSurface /\ x.door = Door.String /\ v.entry # NoEntry
    <3>1. a = Success(s, q, x, v)
      BY <2>1, <2>2, <2>4, AnswerCases
    <3>2. Sound(x, v) <=>
            /\ x.door = Door.String /\ (~Checks(x) \/ v.entry = NoEntry) =>
                  v.offset + v.len <= TextLength
            /\ v.entry = NoEntry \/ v.entry < Entries
      BY <2>4, SoundCases
    <3>3. Sliceable(Slice(v)) <=> v.offset + v.len <= TextLength
      BY <2>2, SpanSound
    <3>4. \A text : Delivered(s, q, x, v, text).kind = "value"
                    /\ Delivered(s, q, x, v, text).text = text
      BY DEF Delivered
    <3>5. v.entry # NoEntry => s \in CheckedSurface /\ x.door = Door.String
      BY <2>1, <2>3, DeclaredEntry
    <3>6. Entries \in Nat /\ (v.entry # NoEntry => v.entry \in Nat)
      BY <2>2, SessionAssumption
    <3>7. CASE v.entry # NoEntry
      <4>1. a = IF v.entry >= Entries THEN BindingBug
                ELSE Delivered(s, q, x, v, [entry |-> v.entry])
        BY <3>1, <3>5, <3>7 DEF Success
      <4>2. Sound(x, v) <=> v.entry < Entries
        BY <2>3, <3>2, <3>5, <3>7
      <4>3. a.kind = "bindingBug" <=> v.entry >= Entries
        BY <3>4, <4>1 DEF BindingBug
      <4> QED BY <3>6, <3>7, <4>2, <4>3 DEF a, x, v
    <3>8. CASE v.entry = NoEntry /\ x.door = Door.String
      <4>1. a = IF Sliceable(Slice(v)) THEN Delivered(s, q, x, v, Slice(v)) ELSE BindingBug
        BY <3>1, <3>8 DEF Success
      <4>2. Sound(x, v) <=> v.offset + v.len <= TextLength
        BY <3>2, <3>8
      <4>3. a.kind = "bindingBug" <=> ~Sliceable(Slice(v))
        BY <3>4, <4>1 DEF BindingBug
      <4>4. a.kind = "value" => a.text = Slice(v) /\ Sliceable(Slice(v))
        BY <3>4, <4>1 DEF BindingBug
      <4>5. a.kind = "value" => a.text = [from |-> v.offset, to |-> v.offset + v.len]
        BY <2>2, <4>4, SpanSound
      <4> QED BY <3>3, <4>2, <4>3, <4>5 DEF a, x, v
    <3>9. CASE v.entry = NoEntry /\ x.door # Door.String
      <4>1. a = Delivered(s, q, x, v, Nothing)
        BY <3>1, <3>9 DEF Success
      <4>2. Sound(x, v)
        BY <3>2, <3>9
      <4> QED BY <3>4, <3>9, <4>1, <4>2 DEF a, x, v
    <3> QED BY <3>7, <3>8, <3>9
  <2>5. CASE v.code \in 1 .. 3
    <3>1. a.kind = "fault"
      BY <2>1, <2>2, <2>5, AnswerCases
    <3>2. Sound(x, v)
      BY <2>5, SoundCases
    <3> QED BY <3>1, <3>2 DEF a, x, v
  <2>6. CASE v.code = 4
    <3>1. /\ s \in CheckedSurface /\ v.keyword # 0 => a.kind = "violation"
          /\ ~(s \in CheckedSurface /\ v.keyword # 0) => a.kind = "bindingBug"
      BY <2>1, <2>2, <2>6, AnswerCases DEF BindingBug
    <3>2. Sound(x, v) <=> s \in CheckedSurface /\ v.keyword # 0
      BY <2>3, <2>6, SoundCases
    <3> QED BY <3>1, <3>2 DEF a, x, v
  <2>7. CASE v.code \in {-2, -1, 5}
    <3>1. a.kind = "bindingBug"
      BY <2>1, <2>2, <2>7, AnswerCases DEF BindingBug
    <3>2. ~Sound(x, v)
      BY <2>7, SoundCases
    <3> QED BY <3>1, <3>2 DEF a, x, v
  <2> QED BY <2>2, <2>4, <2>5, <2>6, <2>7
<1> QED BY <1>1, SessionInvariant, PTL

(* The tables of the bytes stored and of the bytes read, row by row.       *)
LEMMA StoredCases ==
  ASSUME NEW x
  PROVE  /\ x.door \in {1, 2, 6} => Stored(x) = 0 .. 0
         /\ x.door \in {3, 7} => Stored(x) = 0 .. 1
         /\ x.door \in {4, 8, 10, 15, 20, 23} => Stored(x) = 0 .. 3
         /\ x.door \in {5, 9, 11, 16, 18} => Stored(x) = 0 .. 7
         /\ x.door \in {13, 14, 17} => Stored(x) = 0 .. 11
         /\ x.door \in {12, 19, 21} => Stored(x) = 0 .. 15
         /\ x.door = 22 => Stored(x) = IF x.export = "detailedFromF64" THEN 0 .. 15 ELSE 0 .. 11
<1>1. /\ \A d \in {3, 7} : d \notin {1, 2, 6}
      /\ \A d \in {4, 8, 10, 15, 20, 23} : d \notin {1, 2, 6} /\ d \notin {3, 7}
      /\ \A d \in {5, 9, 11, 16, 18} :
            d \notin {1, 2, 6} /\ d \notin {3, 7} /\ d \notin {4, 8, 10, 15, 20, 23}
      /\ \A d \in {13, 14, 17} :
            /\ d \notin {1, 2, 6} /\ d \notin {3, 7} /\ d \notin {4, 8, 10, 15, 20, 23}
            /\ d \notin {5, 9, 11, 16, 18}
      /\ \A d \in {12, 19, 21} :
            /\ d \notin {1, 2, 6} /\ d \notin {3, 7} /\ d \notin {4, 8, 10, 15, 20, 23}
            /\ d \notin {5, 9, 11, 16, 18} /\ d \notin {13, 14, 17}
      /\ \A d \in {1, 2, 6} \cup {3, 7} \cup {4, 8, 10, 15, 20, 23} \cup {5, 9, 11, 16, 18}
                  \cup {13, 14, 17} \cup {12, 19, 21} : d # 22
  OBVIOUS
<1>2. x.door \in {1, 2, 6} => Stored(x) = 0 .. 0
  BY <1>1, Zenon DEF Stored
<1>3. x.door \in {3, 7} => Stored(x) = 0 .. 1
  BY <1>1, Zenon DEF Stored
<1>4. x.door \in {4, 8, 10, 15, 20, 23} => Stored(x) = 0 .. 3
  BY <1>1, Zenon DEF Stored
<1>5. x.door \in {5, 9, 11, 16, 18} => Stored(x) = 0 .. 7
  BY <1>1, Zenon DEF Stored
<1>6. x.door \in {13, 14, 17} => Stored(x) = 0 .. 11
  BY <1>1, Zenon DEF Stored
<1>7. x.door \in {12, 19, 21} => Stored(x) = 0 .. 15
  BY <1>1, Zenon DEF Stored
<1>8. x.door = 22 => Stored(x) = IF x.export = "detailedFromF64" THEN 0 .. 15 ELSE 0 .. 11
  BY <1>1, Zenon DEF Stored
<1> QED BY <1>2, <1>3, <1>4, <1>5, <1>6, <1>7, <1>8

LEMMA FieldsCases ==
  /\ \A view \in {"uint8", "int8"} : Fields(view) = 0 .. 0
  /\ \A view \in {"uint16", "int16"} : Fields(view) = 0 .. 1
  /\ \A view \in {"uint32", "int32", "float32", "RawDate"} : Fields(view) = 0 .. 3
  /\ \A view \in {"uint64", "int64", "float64", "RawSpan"} : Fields(view) = 0 .. 7
  /\ Fields("RawTimestamp") = 0 .. 11
  /\ Fields("RawCivil") = (0 .. 3) \cup (8 .. 15)
  /\ Fields("rawDecimal") = 0 .. 13
  /\ Fields("uuid.UUID") = 0 .. 15
<1>1. \A view \in {"uint8", "int8"} : Fields(view) = 0 .. 0
  BY Zenon DEF Fields
<1>2. \A view \in {"uint16", "int16"} : Fields(view) = 0 .. 1
  BY Zenon DEF Fields
<1>3. \A view \in {"uint32", "int32", "float32", "RawDate"} : Fields(view) = 0 .. 3
  BY Zenon DEF Fields
<1>4. \A view \in {"uint64", "int64", "float64", "RawSpan"} : Fields(view) = 0 .. 7
  BY Zenon DEF Fields
<1>5. Fields("RawTimestamp") = 0 .. 11
  BY Zenon DEF Fields
<1>6. Fields("RawCivil") = (0 .. 3) \cup (8 .. 15)
  BY Zenon DEF Fields
<1>7. Fields("rawDecimal") = 0 .. 13
  BY Zenon DEF Fields
<1>8. Fields("uuid.UUID") = 0 .. 15
  BY Zenon DEF Fields
<1> QED BY <1>1, <1>2, <1>3, <1>4, <1>5, <1>6, <1>7, <1>8

LEMMA ViewCases ==
  ASSUME NEW typed
  PROVE  /\ View("Bool", typed) = "uint8" /\ View("Char", typed) = "uint32"
         /\ View("Exact", typed) = "rawDecimal" /\ View("ExcelSerial", typed) = SerialView(typed)
         /\ \A name \in {"Timestamp", "Unix", "Span"} : View(name, typed) = "RawTimestamp"
         /\ \A name \in {"DateOnly", "DateOnlyOrdered"} : View(name, typed) = "RawDate"
         /\ View("DateTime", typed) = "RawCivil" /\ View("TimeOfDay", typed) = "uint64"
         /\ View("String", typed) = "RawSpan" /\ View("Uuid", typed) = "uuid.UUID"
         /\ \A name \in NumericDoors \ {"Exact"} : View(name, typed) = Returns[name]
<1>1. View("Bool", typed) = "uint8" /\ View("Char", typed) = "uint32"
  BY Zenon DEF View
<1>2. View("Exact", typed) = "rawDecimal" /\ View("ExcelSerial", typed) = SerialView(typed)
  BY Zenon DEF View
<1>3. \A name \in {"Timestamp", "Unix", "Span"} : View(name, typed) = "RawTimestamp"
  BY Zenon DEF View
<1>4. \A name \in {"DateOnly", "DateOnlyOrdered"} : View(name, typed) = "RawDate"
  BY Zenon DEF View
<1>5. View("DateTime", typed) = "RawCivil" /\ View("TimeOfDay", typed) = "uint64"
  BY Zenon DEF View
<1>6. View("String", typed) = "RawSpan"
  BY Zenon DEF View
<1>7. View("Uuid", typed) = "uuid.UUID"
  <2>1. Returns["Uuid"] = "uuid.UUID"
    BY DEF Returns
  <2> QED BY <2>1, Zenon DEF View
<1>8. ASSUME NEW name \in NumericDoors \ {"Exact"} PROVE View(name, typed) = Returns[name]
  <2>1. name \notin {"Bool", "Char", "Exact", "Timestamp", "Unix", "Span", "ExcelSerial",
                     "DateOnly", "DateOnlyOrdered", "DateTime", "TimeOfDay", "String"}
    BY NumericNames
  <2> QED BY <2>1, Zenon DEF View
<1> QED BY <1>1, <1>2, <1>3, <1>4, <1>5, <1>6, <1>7, <1>8

(* Each door's view fits in what its door stores.                          *)
LEMMA ViewFits ==
  ASSUME NEW name \in DOMAIN Door, NEW typed \in BOOLEAN, NEW x, x.door = Door[name],
         name = "ExcelSerial" => (typed <=> x.export = "detailedFromF64")
  PROVE  Fields(View(name, typed)) \subseteq Stored(x)
<1>1. CASE name \in {"Bool", "I8", "U8"}
  <2>1. x.door \in {1, 2, 6} /\ View(name, typed) \in {"uint8", "int8"}
    BY <1>1, ViewCases, NumericNames DEF Door, Returns
  <2>2. Fields(View(name, typed)) = 0 .. 0 /\ Stored(x) = 0 .. 0
    BY <2>1, StoredCases, FieldsCases
  <2> QED BY <2>2
<1>2. CASE name \in {"I16", "U16"}
  <2>1. x.door \in {3, 7} /\ View(name, typed) \in {"uint16", "int16"}
    BY <1>2, ViewCases, NumericNames DEF Door, Returns
  <2>2. Fields(View(name, typed)) = 0 .. 1 /\ Stored(x) = 0 .. 1
    BY <2>1, StoredCases, FieldsCases
  <2> QED BY <2>2
<1>3. CASE name \in {"I32", "U32", "F32", "DateOnly", "DateOnlyOrdered", "Char"}
  <2>1. x.door \in {4, 8, 10, 15, 20, 23}
        /\ View(name, typed) \in {"uint32", "int32", "float32", "RawDate"}
    BY <1>3, ViewCases, NumericNames DEF Door, Returns
  <2>2. Fields(View(name, typed)) = 0 .. 3 /\ Stored(x) = 0 .. 3
    BY <2>1, StoredCases, FieldsCases
  <2> QED BY <2>2
<1>4. CASE name \in {"I64", "U64", "F64", "TimeOfDay", "String"}
  <2>1. x.door \in {5, 9, 11, 16, 18}
        /\ View(name, typed) \in {"uint64", "int64", "float64", "RawSpan"}
    BY <1>4, ViewCases, NumericNames DEF Door, Returns
  <2>2. Fields(View(name, typed)) = 0 .. 7 /\ Stored(x) = 0 .. 7
    BY <2>1, StoredCases, FieldsCases
  <2> QED BY <2>2
<1>5. CASE name \in {"Timestamp", "Unix", "Span"}
  <2>1. x.door \in {13, 14, 17} /\ View(name, typed) = "RawTimestamp"
    BY <1>5, ViewCases DEF Door
  <2>2. Fields(View(name, typed)) = 0 .. 11 /\ Stored(x) = 0 .. 11
    BY <2>1, StoredCases, FieldsCases
  <2> QED BY <2>2
<1>6. CASE name \in {"Uuid", "Exact", "DateTime"}
  <2>1. x.door \in {12, 19, 21} /\ View(name, typed) \in {"uuid.UUID", "rawDecimal", "RawCivil"}
    BY <1>6, ViewCases DEF Door
  <2>2. /\ Fields(View(name, typed)) \in {0 .. 15, 0 .. 13, (0 .. 3) \cup (8 .. 15)}
        /\ Stored(x) = 0 .. 15
    BY <2>1, StoredCases, FieldsCases
  <2> QED BY <2>2
<1>7. CASE name = "ExcelSerial"
  <2>1. x.door = 22 /\ View(name, typed) = IF typed THEN "RawCivil" ELSE "RawTimestamp"
    BY <1>7, ViewCases DEF Door, SerialView
  <2>2. Stored(x) = IF typed THEN 0 .. 15 ELSE 0 .. 11
    BY <1>7, <2>1, StoredCases
  <2>3. Fields(View(name, typed)) = IF typed THEN (0 .. 3) \cup (8 .. 15) ELSE 0 .. 11
    BY <2>1, FieldsCases
  <2> QED BY <2>2, <2>3
<1> QED BY <1>1, <1>2, <1>3, <1>4, <1>5, <1>6, <1>7 DEF Door

LEMMA CheckedViewIsView ==
  ASSUME NEW name \in NumericDoors \cup {"String"}, NEW typed
  PROVE  CheckedView(Returns[name]) = View(name, typed)
<1>1. CASE name = "Exact"
  <2>1. Returns[name] = "Decimal"  BY <1>1 DEF Returns
  <2>2. CheckedView("Decimal") = "rawDecimal"  BY Zenon DEF CheckedView
  <2> QED BY <1>1, <2>1, <2>2, ViewCases
<1>2. CASE name = "String"
  <2>1. Returns[name] = "string"  BY <1>2 DEF Returns
  <2>2. CheckedView("string") = "RawSpan"  BY Zenon DEF CheckedView
  <2> QED BY <1>2, <2>1, <2>2, ViewCases
<1>3. CASE name \in NumericDoors \ {"Exact"}
  <2>1. Returns[name] # "Decimal" /\ Returns[name] # "string"
    BY <1>3, NumericNames DEF Returns
  <2>2. CheckedView(Returns[name]) = Returns[name]
    BY <2>1, Zenon DEF CheckedView
  <2> QED BY <1>3, <2>2, ViewCases
<1> QED BY <1>1, <1>2, <1>3

(* A value names its crossing's door and its surface's view.               *)
LEMMA ValueAnswer ==
  ASSUME NEW s, NEW q, NEW x, NEW v, v.code \in -2 .. 5, Answer(s, q, x, v).kind = "value"
  PROVE  Answer(s, q, x, v).door = x.door /\ Answer(s, q, x, v).view = ViewOf(s, q)
<1>1. CASE v.code = 0
  BY <1>1, AnswerCases, SuccessCases DEF BindingBug
<1>2. CASE v.code \in 1 .. 3
  BY <1>2, AnswerCases
<1>3. CASE v.code \in {-2, -1, 4, 5}
  BY <1>3, AnswerCases DEF BindingBug
<1> QED BY <1>1, <1>2, <1>3

(* A crossing goes through the door it was asked by, and the typed serial  *)
(* apart.                                                                  *)
LEMMA CrossingDoor ==
  ASSUME NEW q \in Questions, NEW s \in Surface, Offers(s, q), CrossingOf(s, q) # CallerBug
  PROVE  /\ CrossingOf(s, q).door = Door[q.name]
         /\ q.name = "ExcelSerial" =>
              (q.typed <=> CrossingOf(s, q).export = "detailedFromF64")
<1> DEFINE x == CrossingOf(s, q)
<1>0. q.name \in DOMAIN Door  BY QuestionFields
<1>1. CASE s \in CheckedSurface
  <2>1. q.name \in NumericDoors \cup {"String"}
    BY <1>1, CheckedNames
  <2>2. x = CheckedDoorway(Returns[q.name], q, q.typed)
    BY <1>1, CrossingCases
  <2>3. x.door = DoorOf(Returns[q.name])
    BY <2>2 DEF CheckedDoorway, Crossing
  <2>4. q.name # "ExcelSerial"
    BY <2>1, NumericNames
  <2> QED BY <2>1, <2>3, <2>4, DoorOfNames
<1>2. CASE s \notin CheckedSurface /\ q.typed
  <2>1. x = TypedDoorway(q.name, q)
    BY <1>2, CrossingCases
  <2>2. x.door = Door[q.name] /\ x.export = "detailedFromF64"
    BY <2>1 DEF TypedDoorway, Crossing
  <2> QED BY <1>2, <2>2
<1>3. CASE s \notin CheckedSurface /\ ~q.typed
  <2>1. Arm(s, q) = q.name
    BY <1>3, ArmIsName
  <2>2. PICK p, options : x = Doorway(q.name, p, options)
    BY <1>3, <2>1, CrossingCases, ZenonT(40) DEF Surface, CheckedSurface, DetailedSurface
  <2>3. x.export = "detailed" /\ x.door = Door[q.name]
    BY <1>0, <2>2, DoorwayDoor
  <2> QED BY <1>3, <2>3
<1> QED BY <1>1, <1>2, <1>3, QuestionFields

(* Whichever surface is asked, the view is the door's.                     *)
LEMMA OfferedView ==
  ASSUME NEW q \in Questions, NEW s \in Surface, Offers(s, q)
  PROVE  ViewOf(s, q) = View(q.name, q.typed)
<1>1. CASE s \in CheckedSurface
  BY <1>1, CheckedNames, CheckedViewIsView DEF ViewOf
<1>2. CASE s \notin CheckedSurface
  BY <1>2, ArmIsName DEF ViewOf
<1> QED BY <1>1, <1>2

(* Every byte a door reads of the out-value is one its own door in the     *)
(* core stored in this call (the raw shapes of interop.go against          *)
(* core.go's stores).                                                      *)
THEOREM ReadsWhatTheCoreWroteHolds == Spec => []ReadsWhatTheCoreWrote
<1>1. SessionInv => ReadsWhatTheCoreWrote
  <2> SUFFICES ASSUME SessionInv, NEW s \in Crossed, told[s].answer.kind = "value"
               PROVE  Fields(told[s].answer.view) \subseteq Stored(told[s].crossing)
    BY DEF ReadsWhatTheCoreWrote
  <2> DEFINE x == told[s].crossing
             v == told[s].verdict
             q == question
  <2>1. /\ q \in Questions /\ Offers(s, q) /\ s \in Surface /\ x = CrossingOf(s, q) /\ x # CallerBug
        /\ told[s].answer = Answer(s, q, x, v) /\ v \in Verdicts(x)
    BY CrossedFields
  <2>2. v.code \in -2 .. 5
    BY <2>1, VerdictFields
  <2> HIDE DEF x, v, q
  <2>3. told[s].answer.view = ViewOf(s, q)
    BY <2>1, <2>2, ValueAnswer
  <2>4. /\ ViewOf(s, q) = View(q.name, q.typed) /\ x.door = Door[q.name]
        /\ q.name = "ExcelSerial" => (q.typed <=> x.export = "detailedFromF64")
    BY <2>1, OfferedView, CrossingDoor
  <2>5. q.name \in DOMAIN Door /\ q.typed \in BOOLEAN
    BY <2>1, QuestionFields
  <2>6. Fields(View(q.name, q.typed)) \subseteq Stored(x)
    BY <2>4, <2>5, ViewFits
  <2> QED BY <2>3, <2>4, <2>6 DEF x
<1> QED BY <1>1, SessionInvariant, PTL

(* Whichever surfaces a question is put to, plain, detailed, generic or    *)
(* checked, they come to one answer but for the detail (cast.go,           *)
(* detailed.go, checked.go).                                               *)
THEOREM OneStoryHolds == Spec => []OneStory
<1>1. SessionInv => OneStory
  <2> SUFFICES ASSUME SessionInv, NEW s \in DOMAIN told, NEW t \in DOMAIN told
               PROVE  LET a == told[s].answer b == told[t].answer IN
                      IF (s \in CheckedSurface) = (t \in CheckedSurface)
                      THEN /\ WithoutDetail(a) = WithoutDetail(b)
                           /\ WithoutDetail(told[s].optional) = WithoutDetail(told[t].optional)
                      ELSE a.kind = "value" /\ b.kind = "value" => a.door = b.door /\ a.view = b.view
    BY DEF OneStory
  <2> DEFINE q == question
             x == CrossingOf(s, q)
             y == CrossingOf(t, q)
             a == told[s].answer
             b == told[t].answer
  <2>1. /\ q \in Questions /\ s \in Surface /\ t \in Surface /\ Offers(s, q) /\ Offers(t, q)
        /\ Recorded(s) /\ Recorded(t)
    BY DEF SessionInv
  <2>2. /\ told[s].optional = Optional(a) /\ told[t].optional = Optional(b)
        /\ x = CallerBug => a = [kind |-> "callerBug"]
        /\ y = CallerBug => b = [kind |-> "callerBug"]
    BY <2>1 DEF Recorded
  <2>3. x # CallerBug =>
          /\ x \in Crossings /\ AsRead(x) \in DOMAIN judged
          /\ a = Answer(s, q, x, judged[AsRead(x)]) /\ judged[AsRead(x)].code \in -2 .. 5
    <3>1. x # CallerBug => x \in Crossings /\ AsRead(x) \in DOMAIN judged
                           /\ a = Answer(s, q, x, judged[AsRead(x)])
      BY <2>1, CrossingsMeetTheContract DEF Recorded
    <3>2. x # CallerBug => judged[AsRead(x)] \in Verdicts(AsRead(x))
      BY <3>1 DEF SessionInv
    <3> QED BY <3>1, <3>2, VerdictFields
  <2>4. y # CallerBug =>
          /\ y \in Crossings /\ AsRead(y) \in DOMAIN judged
          /\ b = Answer(t, q, y, judged[AsRead(y)]) /\ judged[AsRead(y)].code \in -2 .. 5
    <3>1. y # CallerBug => y \in Crossings /\ AsRead(y) \in DOMAIN judged
                           /\ b = Answer(t, q, y, judged[AsRead(y)])
      BY <2>1, CrossingsMeetTheContract DEF Recorded
    <3>2. y # CallerBug => judged[AsRead(y)] \in Verdicts(AsRead(y))
      BY <3>1 DEF SessionInv
    <3> QED BY <3>1, <3>2, VerdictFields
  <2>5. x # CallerBug => x.door = Door[q.name]
    BY <2>1, CrossingDoor
  <2>6. y # CallerBug => y.door = Door[q.name]
    BY <2>1, CrossingDoor
  <2>7. ViewOf(s, q) = ViewOf(t, q)
    BY <2>1, OfferedView
  <2>8. CASE s \in CheckedSurface <=> t \in CheckedSurface
    <3>1. (x = CallerBug <=> y = CallerBug) /\ AsRead(x) = AsRead(y)
      BY <2>1, <2>8, SameReading
    <3>2. CASE x = CallerBug
      BY <2>2, <2>8, <3>1, <3>2
    <3>3. CASE x # CallerBug
      <4> DEFINE v == judged[AsRead(x)]
      <4>1. a = Answer(s, q, x, v) /\ b = Answer(t, q, y, v) /\ v.code \in -2 .. 5 /\ x.door = y.door
        BY <2>3, <2>4, <2>5, <2>6, <3>1, <3>3
      <4> HIDE DEF a, b, v, x, y, q
      <4>2. WithoutDetail(a) = WithoutDetail(b) /\ WithoutDetail(Optional(a)) = WithoutDetail(Optional(b))
        BY <2>7, <2>8, <4>1, SameAnswer
      <4> QED BY <2>2, <2>8, <4>2 DEF a, b
    <3> QED BY <3>2, <3>3
  <2>9. CASE ~(s \in CheckedSurface <=> t \in CheckedSurface)
    <3>1. a.kind = "value" => x # CallerBug /\ a.door = x.door /\ a.view = ViewOf(s, q)
      BY <2>2, <2>3, ValueAnswer
    <3>2. b.kind = "value" => y # CallerBug /\ b.door = y.door /\ b.view = ViewOf(t, q)
      BY <2>2, <2>4, ValueAnswer
    <3> QED BY <2>5, <2>6, <2>7, <2>9, <3>1, <3>2
  <2> QED BY <2>8, <2>9
<1> QED BY <1>1, SessionInvariant, PTL
=============================================================================
