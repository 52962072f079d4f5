SPECIFICATION FairSpec
CONSTANTS
  Workers = {w1}
  NoWorker = NoWorker
  Chunks = {1, 2}
  NoRow = NoRow
  MaxBatches = 3
  Sizes = {"large"}
  Poison = {1}
  PromptClaims = TRUE
  MaxRetryCount = 1
  MaxTaskAttempts = 3
  MaxCrashes = 2
  MaxSignals = 0
  MaxFaults = 0
  MaxTroubles = 2
INVARIANTS NotStranded PostedOncePerRun
PROPERTIES Converges
CHECK_DEADLOCK FALSE
