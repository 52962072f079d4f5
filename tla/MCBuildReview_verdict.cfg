SPECIFICATION ReviewSpec
CONSTANTS
  Handlers = {"ann", "bob"}
  Bounds <- TwoHandlers
PROPERTY VerdictStands
CHECK_DEADLOCK FALSE
