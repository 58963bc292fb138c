SPECIFICATION FairSpec
CONSTANTS
  MaxAudio = 2
  Scenarios = {{"refused", "gone"}, {"refused", "error", "timeout", "gone"}, {"refused", "error", "timeout", "gone", "late"}, {"refused", "error", "timeout", "gone", "hasty", "late"}}
CHECK_DEADLOCK FALSE
INVARIANTS TermAfterResults
PROPERTIES  EventsAnswered NothingRemains
