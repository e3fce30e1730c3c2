SPECIFICATION Spec
CONSTANTS
  Action = {a1, a2}
  Param = {hello, bash}
  SendParam = {hello}
  Call = {c1, c2}
  MaxFact = 2
INVARIANTS AtMostOnce TruthfulReceipt ToldAsRecorded
PROPERTIES FreshStart ImplementsLifecycle StartedIsSettled
CHECK_DEADLOCK FALSE
