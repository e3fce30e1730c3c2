SPECIFICATION Spec
CONSTANTS
  Report = {alarm, digest}
  None = None
  Task = {later}
  MaxTry = 2
  MaxStop = 1
  MaxCrash = 1
INVARIANTS TypeOK
PROPERTIES AnsweredOnce FirstComeFirst Attended
CHECK_DEADLOCK FALSE
