SPECIFICATION FairSpec
CONSTANTS
  good = good
  bad = bad
  large = large
  blank = blank
  Messages = {good, bad, large, blank}
  Shape <- SomeShapes
  Size <- SomeSizes
  MaxFrame = 1
  None = None
INVARIANTS
  TypeOK
  FramesInOrder
  AnswerIsOwn
PROPERTIES
  SettledForGood
  TrackedRequestEnds
CHECK_DEADLOCK FALSE
