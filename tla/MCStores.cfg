SPECIFICATION Spec
CONSTANTS
  Keys = {k1, k2, k3}
  Torn = Torn
  None = None
  Metrics = {m1, m2}
  Sessions = {s1}
  Paths = {p1}
INVARIANTS
  KeysSurvive
  WrittenOnce
  ClosedIsComplete
  ContextIsAsAsked
PROPERTIES
  ImplementsKeyStore
CHECK_DEADLOCK FALSE
