SPECIFICATION Spec
CONSTANTS
  MaxTurn = 4
  MaxLive = 3
  MaxRestore = 1
  MaxSummaries = 1
  MinSummaries = 1
  MaxCrash = 1
INVARIANTS OneAtATime
CHECK_DEADLOCK FALSE
