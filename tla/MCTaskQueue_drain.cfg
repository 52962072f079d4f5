SPECIFICATION FairSpec
CONSTANTS
  Workers = {w1}
  Tasks = {1, 2}
  NoTask = NoTask
  NoWorker = NoWorker
  Dep <- DepCycle
  Preloaded = {1}
  Poison = {2}
  FastRestart = TRUE
  MaxRetryCount = 1
  MaxDeferCount = 1
  MaxTaskAttempts = 2
  MaxCrashes = 1
  MaxSignals = 0
  MaxFaults = 1
PROPERTY Drained
CHECK_DEADLOCK FALSE
