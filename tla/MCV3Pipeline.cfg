SPECIFICATION Spec
CONSTANTS
  MaxStep = 2
  MaxCall = 2
  MaxRewrite = 1
  MaxSend = 1
  MaxFail = 2
  MaxCancel = 2
INVARIANTS WritesOnce JournalWhole NoApologyAfterReply RepliesRecorded WindowAsStored
CHECK_DEADLOCK FALSE
