SPECIFICATION Spec
CONSTANT MaxEntities = 4
INVARIANTS
  TypeOK
  FirstSensorFound
  NodeOfLastMatch
CHECK_DEADLOCK FALSE
