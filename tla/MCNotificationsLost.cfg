SPECIFICATION Spec
CONSTANTS
  Pipes = {1, 2}
  QueueBound = 0
  run = run
  stop = stop
  Commands = {run, stop}
  Kind <- RunAndStop
  None = None
INVARIANTS
  InitializedIsRegistered
CHECK_DEADLOCK FALSE
