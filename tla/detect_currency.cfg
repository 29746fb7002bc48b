CONSTANTS
  None = None
  Least <- MCLeast
  Greatest = 131071
  MagnitudeMost = 999999
  ShortcutDigits = 5
  ExponentMost = 7
  White <- MCWhite
  SpaceLike <- MCWhite
  Wide <- MCWide
  NativeDigit <- MCNativeDigit
  Notations <- MCDetection
SPECIFICATION Spec
INVARIANT SymbolsTakeNoPart
CHECK_DEADLOCK FALSE
