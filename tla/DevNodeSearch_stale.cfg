SPECIFICATION Spec
CONSTANT MaxEntities = 2
INVARIANT NodeIsTheSensors
CHECK_DEADLOCK FALSE
