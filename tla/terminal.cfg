SPECIFICATION TerminalSpec
CONSTANTS
  r1 = r1
  w1 = w1
  x1 = x1
  RdOnly = {r1}
  WrOnly = {w1}
  RdWr = {x1}
  Closers = {x1}
  Eager = {}
  Slots = 1
  MaxFrames = 2
  Sources = {"log", "shell"}
  MaxConnects = 2
  MaxChunks = 2
  MaxKeys = 1
INVARIANT FramesInOrder
INVARIANT SourceFollowed
PROPERTY NothingAfterClose
CHECK_DEADLOCK FALSE
