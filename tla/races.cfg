SPECIFICATION ServedSpec
CONSTANTS
  Session = {s1, s2}
  Worker = {w1}
  CallID = {c1}
  Request = {r1}
  NoSession = NoSession
  NoCall = NoCall
  NoWorker = NoWorker
  Kinds = {"rtp", "websocket"}
  Races = {"overlap", "early", "double", "slow"}
  MaxCrashes = 1
CHECK_DEADLOCK FALSE
INVARIANTS KeyNamesLiveSession TimerGuardsSession LiveSessionListed
PROPERTIES TerminateReachesSession EverySessionEnds CallIDReleased
