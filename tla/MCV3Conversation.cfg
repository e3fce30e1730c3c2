SPECIFICATION Spec
CONSTANTS
  MaxTurn = 4
  MaxLive = 2
  MaxRestore = 1
  MaxSummaries = 1
  MinSummaries = 1
  MaxCrash = 1
INVARIANTS TypeOK ClaimedIsSummarised NothingForgotten
CHECK_DEADLOCK FALSE
