SPECIFICATION Spec
CONSTANTS
  RoleSave = {admit, block}
  Admitting = {admit}
  ModelSave = {model}
  Switch = {on}
  On = {on}
  Chat = {hello}
  MaxCrash = 1
INVARIANTS ProfileFollows SavedIsDurable TurnInForce OneWinner
PROPERTIES SavedBookBinds
CHECK_DEADLOCK FALSE
