SPECIFICATION FairSpec
CONSTANTS
  BufferSize = 13
  Header = 2
  SafetyMargin = 1
  Uint = 400
  Lens <- Sizes
  Garbage <- AnyGarbage
  MaxMsgs = 5
  ReadSizes = {2, 3}
INVARIANT StreamIsPayloads
INVARIANT FramesDisjoint
PROPERTY WaitEnds
CHECK_DEADLOCK FALSE
