SPECIFICATION Spec
CONSTANTS
  SHORT_SIZE = 8
  First = 6
  BufferMs = 2
  MaxDelay = 2
  Scenarios = {{"close"}}
  Packets = 4
  MaxTime = 9
CHECK_DEADLOCK FALSE
INVARIANT WorkerSurvives
