SPECIFICATION Spec
CONSTANTS
  Workers = {w1}
  NoWorker = NoWorker
  Chunks = {1}
  NoRow = NoRow
  MaxBatches = 2
  Sizes = {"large"}
  Poison = {}
  PromptClaims = FALSE
  MaxRetryCount = 1
  MaxTaskAttempts = 2
  MaxCrashes = 1
  MaxSignals = 0
  MaxFaults = 0
  MaxTroubles = 1
PROPERTIES SweepSparesActive
CHECK_DEADLOCK FALSE
