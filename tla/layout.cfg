\* Scaled: pages of 256 bytes, an address space of 16 pages, of which the host has 12. Its
\* pages bound MaxText, as on a 32-bit host, and texts pass the sign bit of a pointer, at
\* 2048, as on a 64-bit one, whose slice limit would stop them there.
CONSTANTS
  PageSize = 256
  ModulePages = 2
  BasePages = 1
  HostMaxPages = 12
  SliceLimit = 4095
  Word = 4096
  OutBytes = 16
  FaultBytes = 16
  FormatBytes = 92
  PeriodsBytes = 40
  OptionsBytes = 12
  ConstraintsBytes = 72
  CheckBytes = 12
  Align = 8
  MostText = 2400
  MostMore = 40
SPECIFICATION ScratchSpec
INVARIANTS CallsFit HostNeverRefuses
CHECK_DEADLOCK FALSE
