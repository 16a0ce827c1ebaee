SPECIFICATION Spec
CONSTANTS
  ZoneCounts <- MCZoneCounts
  Temperatures <- MCTemperatures
  MaxFrames = 17
INVARIANTS
  TypeOK
  CalibrationOfThisModule
  OnlyCreatedLibraryCalled
  LaserTemperature
  ImagesPerRound
CHECK_DEADLOCK FALSE
