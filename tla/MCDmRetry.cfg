SPECIFICATION Spec
CONSTANTS
  Key = {"k"}
  Letter = {"l1"}
  Caller = {"c1"}
  Poller = {"p1"}
  Registered = FALSE
  MayFail = FALSE
  MaxExchange = 3
CHECK_DEADLOCK FALSE
PROPERTY
  CompleteRetryReturns
