SPECIFICATION Spec
CONSTANT Programs <- AllPrograms
INVARIANTS
  ReferencesPointBackward
  ReductionLossless
  ConflictsStayOrdered
PROPERTIES
  JumpTargetsStay
  PassEnds
CHECK_DEADLOCK FALSE
