SPECIFICATION Spec
CONSTANTS
  Qubits = {q1, q2, q3}
  Params = {c1, c2, c3}
  MaxPhyQubits = 2
  MaxArgs = 3
  MaxBits = 1
SYMMETRY Symmetry
INVARIANTS
  IdsReserved
  InputsMatch
PROPERTIES
  PoolSpec
  NoUseAfterRelease
CHECK_DEADLOCK FALSE
