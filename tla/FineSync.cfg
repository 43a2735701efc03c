SPECIFICATION Spec
CONSTANTS
  WINDOW = 4
  CHUNK = 2
  MaxOffset = 2
  Roles = {"tx", "rx"}
  Offsets <- MCOffsets
  MaxStalls = 4
  MaxBacklog = 3
  MaxIllegal = 1
INVARIANTS TypeOK LockedMeansAligned
PROPERTIES NeverWorse Locks Drains
