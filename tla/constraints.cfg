\* Up to three rules at each kind of door, in every order, then one value.
CONSTANTS
  Rules <- MCRules
  MaxRules = 3
  MaxUint32 = 4
  Whole = 10
  IntegerRange <- MCIntegerRange
  DecimalRange <- MCDecimalRange
  FloatOf <- MCFloatOf
  Infinite = Infinite
  White = {32}
  Continuation = {169}
  Invalid = {255}
  Folding <- MCFolding
  Numbers <- MCNumbers
  Texts <- MCTexts
  NotADecimal = NotADecimal
  Nothing = Nothing
  Panic = Panic
  a = 97
  A = 65
  lead = 195
  cont = 169
  blank = 32
  bad = 255
SPECIFICATION Spec
INVARIANTS HoldsWhatWasDeclared AcceptsTheMeaningful JudgedBeforeUse
  CheckedValuesMeetTheRules RoundedAsDeclared RejectionsNameABrokenRule
CHECK_DEADLOCK FALSE
