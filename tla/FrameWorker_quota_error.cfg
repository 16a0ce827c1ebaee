SPECIFICATION Spec
CONSTANTS
  BufferCount = 6
  MaxFrames = 4
  NoBuffer = NoBuffer
  FrameErrors = TRUE
  DeviceFailures = FALSE
  IdModulus = 256
  ToDump = 2
  LossCheck = TRUE
  WorkerInterrupts = FALSE
INVARIANTS
  QuotaMeansCaptured
CHECK_DEADLOCK FALSE
