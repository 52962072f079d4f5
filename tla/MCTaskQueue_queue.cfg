SPECIFICATION Spec
CONSTANTS
  Workers = {w1, w2}
  Tasks = {1}
  NoTask = NoTask
  NoWorker = NoWorker
  Dep <- DepNone
  Preloaded = {}
  Poison = {}
  FastRestart = FALSE
  MaxRetryCount = 1
  MaxDeferCount = 1
  MaxTaskAttempts = 2
  MaxCrashes = 1
  MaxSignals = 1
  MaxFaults = 1
SYMMETRY WorkerSymmetry
INVARIANTS TypeOK ExclusiveProcessing SingleFlight NoLostBuild
CHECK_DEADLOCK FALSE
