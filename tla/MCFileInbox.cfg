SPECIFICATION Spec
CONSTANTS
  raw = raw  uid = uid  m1 = m1  digest = digest  nudge = nudge  dm = dm  c1 = c1
  NoMsg = NoMsg
  Key = {raw, uid}
  Request <- MCRequest
  DigestSubject = digest
  Backlog <- MCBacklog
  Channel = {c1}
  ReadKeys <- MCReadKeys
  MaxPush = 1
  MaxRows = 4
  MaxSaves = 5
  Faults = {"resolve", "poll", "send", "record"}
INVARIANTS
  SnapshotSurvives
  ClosedGateHidesNothing
PROPERTY
  ImplementsRail
