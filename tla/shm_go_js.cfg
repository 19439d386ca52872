SPECIFICATION FairSpec
CONSTANTS
  BufferSize = 13
  Header = 2
  SafetyMargin = 1
  Uint = 400
  Lens <- Sizes
  Garbage <- AnyGarbage
  MaxMsgs = 6
INVARIANT RingSpace
INVARIANT UnreadIntact
INVARIANT OneSizeNothingStale
PROPERTY RingIsChannel
PROPERTY RoomComes
CHECK_DEADLOCK FALSE
