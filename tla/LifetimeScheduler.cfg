SPECIFICATION Spec
CONSTANTS
  Paths <- AllPaths
  Word = 128
INVARIANTS
  StartsAfterDependences
  LifetimesReachMeasurement
PROPERTY AllScheduled
CHECK_DEADLOCK FALSE
