SPECIFICATION Spec
CONSTANTS
  Workers = {w1, w2}
  NoWorker = NoWorker
  Chunks = {1, 2}
  NoRow = NoRow
  MaxBatches = 1
  Sizes = {"large"}
  Poison = {}
  PromptClaims = TRUE
  MaxRetryCount = 1
  MaxTaskAttempts = 2
  MaxCrashes = 0
  MaxSignals = 0
  MaxFaults = 0
  MaxTroubles = 0
SYMMETRY WorkerSymmetry
INVARIANTS NotStranded
CHECK_DEADLOCK FALSE
