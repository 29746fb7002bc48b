\* Two goroutines and a panic, for liveness: no symmetry, few requests.
CONSTANTS
  PageSize = 12
  ModulePages = 2
  BasePages = 1
  HostMaxPages = 5
  SliceLimit = 15
  Word = 64
  OutBytes = 1
  FaultBytes = 2
  FormatBytes = 1
  PeriodsBytes = 1
  OptionsBytes = 1
  ConstraintsBytes = 1
  CheckBytes = 2
  Align = 2
  Goroutine = {g1, g2}
  Instance = {i1, i2, i3, i4}
  NoInstance = NoInstance
  Totals <- MCTotals
  MaxTraps = 1
  MaxMissed = 0
  Request <- FewRequests
  Nothing = Nothing
  NoEntry = NoEntry
  Core <- MCCore
  SizeWord = SizeWord
  a = a
  b = b
  comma = comma
  dot = dot
  de = de
  compact = compact
  month = month
  lowerBound = lowerBound
  enumOnly = enumOnly
  city = city
SPECIFICATION FairSpec
PROPERTY KeepsPromiseEnd
