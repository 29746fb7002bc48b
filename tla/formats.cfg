\* Every format two edits from the zero format or from Invariant.
CONSTANTS
  Width <- MCWidth
  DigitPiece = digit
  AsciiSpaces = {space}
  WideSpaces = {wideSpace}
  BadPiece = bad
  Dot <- MCDot
  Comma <- MCComma
  SymbolMaxBytes = 2
  CurrencyMaxBytes = 3
  DesignatorMaxBytes = 3
  ByteValues = 4
  Symbols <- MCSymbols
  DigitZeros <- MCDigitZeros
  MaxEdits = 2
  Nothing = Nothing
  Panic = Panic
  letter = letter
  dot = dot
  comma = comma
  digit = digit
  space = space
  wide = wide
  wideSpace = wideSpace
  bad = bad
SPECIFICATION Spec
INVARIANTS ValidAgreesWithFault AcceptsTheDocumented CoreTakesWhatValidTakes BuildersKeepApart
CHECK_DEADLOCK FALSE
