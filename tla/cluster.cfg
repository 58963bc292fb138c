SPECIFICATION FairSpec
CONSTANTS
  Workers = 2
  MaxForks = 3
  MaxSignals = 2
  Upload = {u1}
  Download = {d1, d2}
  Scenarios = {{"signal", "early"}, {"signal", "crash"}, {"files", "crash"}, {"files", "expire"}}
CHECK_DEADLOCK FALSE
INVARIANTS OneWorkerPerIndex ResultInOnePlace
PROPERTIES IndexServed ShutdownEnds UploadEnds
