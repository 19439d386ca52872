SPECIFICATION FairSpec
CONSTANTS
  r1 = r1
  w1 = w1
  x1 = x1
  RdOnly = {r1}
  WrOnly = {w1}
  RdWr = {x1}
  Closers = {r1, x1}
  Eager = {r1, x1}
  Slots = 1
  MaxFrames = 1
PROPERTY CloseReturns
PROPERTY EveryFrameArrives
CHECK_DEADLOCK FALSE
