SPECIFICATION Spec
CONSTANTS
  MaxGen = 2
  Flags <- UserFlags
INVARIANTS
  TypeOK
  LoadedIsOneGeneration
  LinkIsMutual
  RotationOrder
PROPERTIES
  LoadIsCurrent
CHECK_DEADLOCK FALSE
