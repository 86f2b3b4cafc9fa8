SPECIFICATION Spec
CONSTANTS
  raw = raw  uid = uid  other = other  m1 = m1  m2 = m2
  digest = digest  dm = dm  t1 = t1  t2 = t2
  c1 = c1  c2 = c2  k1 = k1
  Key <- MCKey
  Msg <- MCMsg
  NoMsg = NoMsg
  Request <- DmAndDigests
  Producer = {p1, p2}
  Channel = {c1, c2}
  Caller = {}
  ReadKeys <- MCReadKeys
  MaxPush = 1
  MaxRows = 2
  NoRow = NoRow
  Never = Never
SYMMETRY MCSymmetry
INVARIANTS
  NothingSilentlyConsumed
  OneRowPerCause
PROPERTIES
  ImplementsRail
  LatchesHold
