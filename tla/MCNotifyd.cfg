SPECIFICATION Spec
CONSTANTS
  d1 = d1  d2 = d2
  Daemon = {d1, d2}
  MaxNote = 2
  Cumulative <- MCCumulative
  MaxAttempts = 2
  MaxFaults = 1
  MaxStarts = 3
  NoFile = NoFile
CHECK_DEADLOCK FALSE
CONSTRAINT Unrobbed
INVARIANTS
  OneDaemonUnlessRobbed
  DuplicatesHaveACause
  BudgetHolds
  StreakSurvivesRestart
PROPERTIES
  SnapshotsInOrder
  EventuallySettled
