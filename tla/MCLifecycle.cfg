SPECIFICATION FairSpec
CONSTANTS
  Conns = {k1, k2, k3}
  Projects = {p1, p2}
  None = None
INVARIANTS
  TypeOK
  CountIsOpen
  GraceOnlyWhenUnused
  UnusedIsTimed
PROPERTIES
  UnusedExits
  SignalEnds
CHECK_DEADLOCK FALSE
