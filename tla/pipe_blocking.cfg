SPECIFICATION FairSpec
CONSTANTS
  r1 = r1
  w1 = w1
  r2 = r2
  Threads = {r1, w1, r2}
  Readers = {r1, r2}
  PortOf <- ThreePorts
  Blocking = TRUE
  WriteSizes = {0, 1, 2}
  ReadSizes = {1, 2}
  MaxBytes = 3
INVARIANT StreamKept
INVARIANT EofMeansDrained
INVARIANT NoSleepOverData
PROPERTY ReadReturns
CHECK_DEADLOCK FALSE
