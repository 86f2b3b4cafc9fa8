SPECIFICATION Spec
CONSTANTS
  h1 = h1  h2 = h2  urgent = urgent
  Host = {h1, h2}
  Skew <- MCSkew
  Owner = {1}
  Card = {urgent}
  OwnerOf <- MCOwnerOf
  Alive = {}
  High = {urgent}
  ClaimCadence = 1
  Interval = 1
  BacklogInterval = 2
  Floor = 2
  EscalateAfter = 2
  Horizon = 2
  MaxStall = 0
  MaxWork = 2
  MaxFaults = 1
INVARIANTS
  SuppressesOnlyOldNews
  OneEscalationPerStreak
PROPERTIES
  StuckCardReachesOperator
  StuckOwnerIsToldAgain
