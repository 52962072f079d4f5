SPECIFICATION FairSpec
CONSTANTS
  Workers = {w1}
  NoWorker = NoWorker
  Chunks = {1}
  NoRow = NoRow
  MaxBatches = 4
  Sizes = {"small", "large"}
  Poison = {}
  PromptClaims = FALSE
  MaxRetryCount = 0
  MaxTaskAttempts = 2
  MaxCrashes = 1
  MaxSignals = 1
  MaxFaults = 2
  MaxTroubles = 2
INVARIANTS TypeOK
PROPERTIES Settles Drains
CHECK_DEADLOCK FALSE
