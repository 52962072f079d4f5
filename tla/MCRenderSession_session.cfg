SPECIFICATION FairSpec
CONSTANTS
  PoolSize = 2
  StoryCount = 3
  FinalizeLimit = 1
  QueueLimit = 2
  MaxAttempts = 2
  Broken = {2}
  RecycleAfter = 1
  InfraLimit = 2
  Faults = {"launch", "init", "death", "mute", "glitch", "wedge", "storage", "database", "fetch"}
  MaxFaults = 1
INVARIANTS TypeOK SessionsConserved NeverCondemned BacklogBounded ResolvedIsComplete
PROPERTIES OneRowPerStory LanesSettle AbortEnds
CHECK_DEADLOCK FALSE
