SPECIFICATION Spec
CONSTANTS
  Session = {s1, s2}
  Worker = {w1, w2}
  CallID = {c1}
  Request = {r1}
  NoSession = NoSession
  NoCall = NoCall
  NoWorker = NoWorker
  Kinds = {"rtp"}
  Races = {"overlap"}
  MaxCrashes = 0
CHECK_DEADLOCK FALSE
INVARIANT OneSessionPerCall
