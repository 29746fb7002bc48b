\* Every question, asked through every pair of surfaces that take it; a text of two
\* bytes, spans of words that wrap at 16, an enum of one entry.
CONSTANTS
  Nothing = Nothing
  CallerBug = CallerBug
  Shapes <- MCShapes
  LowPivot = 100
  HighPivot = 9999
  Params <- MCParams
  Options <- MCOptions
  TextLength = 2
  Word = 16
  Entries = 1
  NoEntry = NoEntry
  MaxAsked = 2
SPECIFICATION Spec
INVARIANTS NoContractViolation ReadsWhatTheCoreWrote OneStory AbsentMeansEmpty BrokenCoresPanic
CHECK_DEADLOCK FALSE
