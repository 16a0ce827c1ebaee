SPECIFICATION WorkerSpec
CONSTANTS
  BufferCount = 2
  MaxFrames = 4
  NoBuffer = NoBuffer
  FrameErrors = TRUE
  DeviceFailures = TRUE
  IdModulus = 4
  ToDump = 2
  LossCheck = TRUE
  WorkerInterrupts = TRUE
INVARIANTS
  QuotaCountsBuffers
PROPERTIES
  StopEndsWorker
  QuotaEndsWorker
CHECK_DEADLOCK FALSE
