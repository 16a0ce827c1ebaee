SPECIFICATION FairSpec
CONSTANT MaxSigints = 3
INVARIANTS
  TypeOK
  TeardownAfterWorker
  WorkerHasResources
  
PROPERTIES
  NoCancelAfterStopAndJoin
  StopEndsProcess
CHECK_DEADLOCK FALSE
