SPECIFICATION Spec
CONSTANTS
  Key = {"k"}
  Letter = {"l1", "l2"}
  Caller = {"c1", "c2"}
  Poller = {"p1", "p2"}
  Registered = TRUE
  MayFail = TRUE
  MaxExchange = 3
CHECK_DEADLOCK FALSE
INVARIANTS
  AcceptedIsDurable
  NoOrphanExchange
  PollersConverge
