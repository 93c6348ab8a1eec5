SPECIFICATION Spec
CONSTANTS
  one = one
  new = new
  dashed = dashed
  Order <- Changed
  New = {new}
  Unfound = {dashed}
  MaxEdits = 1
  Gone = Gone
  None = None
INVARIANTS
  FailureWritesNothing
CHECK_DEADLOCK FALSE
