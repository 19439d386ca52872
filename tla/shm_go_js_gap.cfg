SPECIFICATION Spec
CONSTANTS
  BufferSize = 13
  Header = 2
  SafetyMargin = 1
  Uint = 400
  Lens <- Sizes
  Garbage <- NoGarbage
  MaxMsgs = 6
INVARIANT OnlyWhatWasSent
CHECK_DEADLOCK FALSE
