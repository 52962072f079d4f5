SPECIFICATION FairSpec
CONSTANTS
  Workers = {w1, w2}
  Tasks = {1}
  NoTask = NoTask
  NoWorker = NoWorker
  Dep <- DepNone
  Preloaded = {}
  Poison = {1}
  FastRestart = FALSE
  MaxRetryCount = 1
  MaxDeferCount = 1
  MaxTaskAttempts = 3
  MaxCrashes = 0
  MaxSignals = 0
  MaxFaults = 0
PROPERTY CrashLoopBounded
CHECK_DEADLOCK FALSE
