SPECIFICATION Spec
CONSTANTS
  Shape <- Messages
  MaxRounds = 3
  MaxCorrections = 1
  MaxTurn = 1
  MaxInbound = 1
INVARIANTS CorrectionBudget
PROPERTIES TurnEnds
CHECK_DEADLOCK FALSE
