SPECIFICATION FairSpec
CONSTANTS
  BUFFER_SIZE = 1
  MaxAudio = 4
  Scenarios = {{"refused", "noFfmpeg", "analysisError", "completedError", "impatient", "double"}, {"refused", "noFfmpeg", "unreachable", "slowFfmpeg", "analysisError", "completedError", "early", "impatient", "double"}}
CHECK_DEADLOCK FALSE
INVARIANTS NothingLeaks EngineGetsConverted
PROPERTIES AudioEnds CallsSettle ImplementsEngineContract
