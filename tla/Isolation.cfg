SPECIFICATION LoweringSpec
CONSTANTS
  Sources <- AllSources
  Options <- AllOptions
INVARIANTS
  OrderKept
  ValuesReach
  RoutinesInBounds
  NothingLost
  HandsOver
PROPERTY LoweringEnds
CHECK_DEADLOCK FALSE
