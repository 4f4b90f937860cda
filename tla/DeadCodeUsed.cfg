SPECIFICATION Spec
CONSTANTS
  WordBits = 5
  Tolerance = 40
  Programs <- Yielding
  Options <- DefaultOptions
INVARIANTS
  NothingDangles
CHECK_DEADLOCK FALSE
