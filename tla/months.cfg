\* Up to three declared entries over two months, and packed bytes to two whole entries.
CONSTANTS
  MonthCount = 2
  MaxMonthNameBytes = 2
  Byte <- MCByte
  NotUTF8 = {200}
  Refused = {48}
  GoFold <- MCGoFold
  CoreFold <- MCCoreFold
  Hash <- MCHash
  Slots = 1
  Declarations <- MCDeclarations
  Packings <- MCPackings
  Pivots = {0, 1, 2, 4}
  LowPivot = 2
  HighPivot = 3
  Nothing = Nothing
  Panic = Panic
SPECIFICATION Spec
INVARIANTS JudgesAsTheCoreDoes ErrorNamesTheFirst DoorsSendWhatWasDeclared
CHECK_DEADLOCK FALSE
