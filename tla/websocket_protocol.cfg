SPECIFICATION FairSpec
CONSTANTS
  MaxAudio = 2
  Scenarios = {{"bad", "refused", "taken", "error", "gone"}, {"bad", "refused", "taken", "error", "gone", "fast", "slow", "late"}}
CHECK_DEADLOCK FALSE
INVARIANTS AnswersExpected AudioTaken EngineClosedFirst
PROPERTIES CommandsAnswered SessionEnds
