SPECIFICATION Spec
CONSTANTS
  Contents <- MCContents
  Garbage = Garbage
  Height = 3
  Width = 2
  RowOffset = 0
  ColOffset = 1
  PairsPerZone = 3
  SpotsPerZone = 2
  ZonesPerGroup = 2
  Groups = 2
  RawSizes <- MCRawSizes
  LoadedSizes <- MCLoadedSizes
  LengthModulus = 11
  CountModulus = 3
INVARIANTS
  TypeOK
  OnlyCopiedDataRead
  OnlyEdgeSpotsCollide
  DuplicatesSeen
  SpotsCounted
PROPERTIES
  EepromUntouched
CHECK_DEADLOCK FALSE
