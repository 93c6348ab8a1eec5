SPECIFICATION FairSpec
CONSTANTS
  c1 = c1
  c2 = c2
  r1 = r1
  Clients = {c1, c2}
  Roots = {r1}
  RootOf <- SharedRoot
  Jobs = {j1, j2}
  Disruptions <- OnlyCancel
  None = None
PROPERTIES
  HeldJobProgresses
CHECK_DEADLOCK FALSE
