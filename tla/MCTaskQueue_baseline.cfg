SPECIFICATION Spec
CONSTANTS
  Workers = {w1}
  Tasks = {1, 2}
  NoTask = NoTask
  NoWorker = NoWorker
  Dep <- DepYounger
  Preloaded = {1, 2}
  Poison = {}
  FastRestart = FALSE
  MaxRetryCount = 1
  MaxDeferCount = 1
  MaxTaskAttempts = 2
  MaxCrashes = 0
  MaxSignals = 0
  MaxFaults = 0
PROPERTY BaselineFirst
CHECK_DEADLOCK FALSE
