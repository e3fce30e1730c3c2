SPECIFICATION Spec
CONSTANTS
  OwnerWeb = {page}
  OwnerQQ = {}
  Other = {report}
  Pictured = {}
  MaxCrash = 1
PROPERTIES PauseUntilOwnerWrites
CHECK_DEADLOCK FALSE
