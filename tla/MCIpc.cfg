SPECIFICATION FairSpec
CONSTANTS
  Pipes = {1, 2}
  QueueBound = 0
  run = run
  stop = stop
  Commands = {run, stop}
  Kind <- RunAndStop
  None = None
INVARIANTS
  TypeOK
  SettledOnce
  CopyCatchesUp
CHECK_DEADLOCK FALSE
PROPERTIES
  RequestSettles
  ClosedConnectionEnds
