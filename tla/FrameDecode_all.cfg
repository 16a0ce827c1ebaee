SPECIFICATION Spec
CONSTANTS
  MaxFrames = 3
  MaxPasses = 4
  BufferCount = 2
  SubFrames = 2
  Quotas <- MCQuotas
  Intervals <- MCIntervals
  CounterModulus = 5
INVARIANTS
  TypeOK
  NothingDiscarded
  ImagesInOrder
  RawOfEachImage
  DumpSpacing
CHECK_DEADLOCK FALSE
