CONSTANTS
  None = None
  Least <- MCLeast
  Greatest = 131071
  MagnitudeMost = 999999
  ShortcutDigits = 5
  ExponentMost = 7
  White <- MCWhite
  SpaceLike <- MCWhite
  Wide <- MCWide
  NativeDigit <- MCNativeDigit
  Notations <- MCNotations
SPECIFICATION Spec
INVARIANTS RoutesAgree PoliciesJudgeGroups DeclaringReadsNoLess SpellingsReadBack DetectionReadsOrAsks
CHECK_DEADLOCK FALSE
