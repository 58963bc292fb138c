SPECIFICATION Spec
CONSTANTS
  Session = {s1, s2}
  Worker = {w1, w2}
  CallID = {c1, c2}
  Request = {r1, r2}
  NoSession = NoSession
  NoCall = NoCall
  NoWorker = NoWorker
  Kinds = {"rtp"}
  Races = {"early", "slow"}
  MaxCrashes = 1
CHECK_DEADLOCK FALSE
SYMMETRY Symmetry
INVARIANTS LiveSessionHoldsKey
PROPERTIES ImplementsCallRegistry
