SPECIFICATION Spec
CONSTANTS
  Clients = {c1, c2, c3}
  Daemons = {d1, d2, d3}
  Old = Old
  None = None
  Endings <- AnyEnding
INVARIANTS
  TypeOK
  OneMaster
  MasterReachable
  UnavailableHasCause
SYMMETRY Symmetry
CHECK_DEADLOCK FALSE
