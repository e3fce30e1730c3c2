SPECIFICATION Spec
CONSTANTS
  Input = {ask, more}
  Addressed = {ask}
  MaxJob = 2
  MaxBatch = 2
  MaxStep = 1
  MaxCall = 1
  MaxCrash = 1
INVARIANTS TypeOK OneJobPerInput ToldWhole NoneRedone
PROPERTIES ToolsWait InputSettles
CHECK_DEADLOCK FALSE
