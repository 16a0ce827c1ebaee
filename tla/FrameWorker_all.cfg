SPECIFICATION Spec
CONSTANTS
  BufferCount = 3
  MaxFrames = 7
  NoBuffer = NoBuffer
  FrameErrors = TRUE
  DeviceFailures = TRUE
  IdModulus = 4
  ToDump = 0
  LossCheck = TRUE
  WorkerInterrupts = TRUE
INVARIANTS
  TypeOK
  DqbufNeverBlocks
  EachBufferOnce
  OldestFirst
  OverwriteMargin
  FreshUnlessFlagged
  LossCountCongruent
PROPERTIES
  FeedSpec
  ThreadSpec
CHECK_DEADLOCK FALSE
