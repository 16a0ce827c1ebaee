SPECIFICATION Spec
CONSTANT MaxSigints = 1
INVARIANT JoinWaits
CHECK_DEADLOCK FALSE
