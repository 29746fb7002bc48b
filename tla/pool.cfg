\* Three goroutines and a panic; names enough for the primary, the abandoned
\* instance and one held by each goroutine.
CONSTANTS
  PageSize = 256
  ModulePages = 2
  BasePages = 1
  HostMaxPages = 16
  SliceLimit = 2047
  Word = 4096
  OutBytes = 16
  FaultBytes = 16
  FormatBytes = 92
  PeriodsBytes = 40
  OptionsBytes = 12
  ConstraintsBytes = 72
  CheckBytes = 12
  Align = 8
  Goroutine = {g1, g2, g3}
  Instance = {i1, i2, i3, i4, i5}
  NoInstance = NoInstance
  Totals <- MCTotals
  MaxTraps = 1
  MaxMissed = 0
SPECIFICATION PoolSpec
SYMMETRY Symmetry
INVARIANTS ExclusiveUse PoolIsClean LockIsAccountedFor ScratchHoldsCall NothingLeaks
PROPERTY PrimaryIsForEver
