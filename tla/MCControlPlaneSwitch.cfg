SPECIFICATION Spec
CONSTANTS
  RoleSave = {admit}
  Admitting = {admit}
  ModelSave = {}
  Switch = {on}
  On = {on}
  Chat = {}
  MaxCrash = 0
INVARIANTS SwitchStaysTold
CHECK_DEADLOCK FALSE
