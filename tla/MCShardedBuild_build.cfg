SPECIFICATION Spec
CONSTANTS
  Workers = {w1, w2}
  NoWorker = NoWorker
  Chunks = {1, 2}
  NoRow = NoRow
  MaxBatches = 2
  Sizes = {"large"}
  Poison = {}
  PromptClaims = FALSE
  MaxRetryCount = 1
  MaxTaskAttempts = 1
  MaxCrashes = 0
  MaxSignals = 0
  MaxFaults = 1
  MaxTroubles = 1
SYMMETRY WorkerSymmetry
INVARIANTS FinishedIsComplete StartsBounded
PROPERTIES FailedNotFinished KeepsPromise
CHECK_DEADLOCK FALSE
