\* Durations: a signed byte of nanoseconds, ten to the second.  Doubles: ten bits of
\* mantissa, up to 32 days of two seconds of a hundred nanoseconds, a 1900 system of 13
\* days with its phantom 5, a 1904 system of 9.  Days: the real calendar's, a cycle of
\* 400 years and the last decade.  Decimals: words of five and four bits.
CONSTANTS
  MaxInt = 127
  NanosPerSecond = 10
  Window = 20
  Second = 100
  Day = 200
  Digits = 2
  MaxShift = 22
  Phantom = 5
  Last1900 = 13
  Last1904 = 9
  WindowSeconds = 40
  Precision = 9
  Shifts <- MCShifts
  Years <- MCYears
  Word <- MCWord
  HighWord <- MCHighWord
  MaxScale = 2
  BufferLength = 5
  Minus = Minus
  Point = Point
  Unwritten = Unwritten
SPECIFICATION MCSpec
INVARIANTS WhatFitsConverts SnapsToTheFewestDigits SerialsFollowTheCalendar ReadsBack
CHECK_DEADLOCK FALSE
