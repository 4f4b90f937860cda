SPECIFICATION Spec
CONSTANTS
  Word = 3
  NoValue = NoValue
  HostRegisters = 12
  Bits = {0, 1, 2}
  Programs <- SmallPrograms
INVARIANTS
  HeaderOrderKept
  JumpsResolve
PROPERTIES
  RunImplemented
CHECK_DEADLOCK FALSE
