SPECIFICATION Spec
CONSTANTS
  Shape <- Mixed
  MaxRounds = 1
  MaxCorrections = 0
  MaxTurn = 2
  MaxInbound = 1
INVARIANTS PairedCalls ToolTruth NothingHidden OrderlyEnd
PROPERTIES NoStartInDoubt
CHECK_DEADLOCK FALSE
