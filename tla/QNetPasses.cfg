SPECIFICATION Spec
CONSTANTS
  WordBits = 5
  Tolerance = 40
  Programs <- MCPrograms
  Options <- MCOptions
INVARIANTS
  ObservablesKept
  AnglesCanonical
  ErasedTogether
PROPERTY RewritingEnds
CHECK_DEADLOCK FALSE
