SPECIFICATION Spec
CONSTANTS
  BUFFER_SIZE = 1
  MaxAudio = 2
  Scenarios = {{"slowFfmpeg"}}
CHECK_DEADLOCK FALSE
INVARIANT EngineGetsAll
