SPECIFICATION Spec
CONSTANTS
  HostTime = 1
  PeerTime = 2
  HalfWord = 32
  Programs <- SmallPrograms
INVARIANTS
  ListAsOrdered
  PrimaryOptimal
  LifetimesWithinLimit
  GapsEven
PROPERTIES
  OrderImplemented
  ReorderEnds
