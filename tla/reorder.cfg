SPECIFICATION TimedSpec
CONSTANTS
  SHORT_SIZE = 10
  First = 8
  BufferMs = 1
  MaxDelay = 2
  Scenarios = {{"loss", "close"}, {"loss", "duplicate"}}
  Packets = 5
  MaxTime = 7
CHECK_DEADLOCK FALSE
INVARIANTS InOrder WaitersHaveTimer SpokenTimeKept
PROPERTIES NothingSkipped WaitersHeard
