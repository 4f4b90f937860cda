SPECIFICATION Spec
CONSTANT Mains <- ShortArmMains
INVARIANTS
  MatchesTranslation
  NeverOverstated
  WorseSideCounts
  WaitsIfReused
CHECK_DEADLOCK FALSE
