SPECIFICATION Spec
CONSTANTS
  OwnerWeb = {page}
  OwnerQQ = {chat}
  Other = {}
  Pictured = {chat}
  MaxCrash = 1
INVARIANTS CheckpointSeen
PROPERTIES PauseHolds NothingAnsweredTwice AcceptedIsAttended
CHECK_DEADLOCK FALSE
