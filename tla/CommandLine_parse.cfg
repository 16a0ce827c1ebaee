SPECIFICATION Spec
CONSTANTS
  MaxArgs = 3
  CounterModulus = 16
  WorkModes <- MCWorkModes
  DumpCounts <- MCDumpCounts
  KernelTypes <- MCKernelTypes
  RollingValues <- MCRollingValues
INVARIANTS
  TypeOK
  
  StartedAsAsked
CHECK_DEADLOCK FALSE
