SPECIFICATION Spec
CONSTANTS
  Gates = {"operator-decision", "dependency"}
  OperatorDecision = "operator-decision"
  MaxTime = 3
  MaxWrites = 6
  NoCard = NoCard
CHECK_DEADLOCK FALSE
INVARIANTS
  AlarmNotSilenced
  CompletionStampOnlyOnDone
PROPERTIES
  StampsAreFrozen
  UndoGivesBack
