SPECIFICATION ViewSpec
CONSTANTS
  w1 = w1  w2 = w2  a = a  b = b
  Agent = {a, b}
  Pair = {"ab"}
  Group = {"g"}
  Peers <- MCPeers
  Writer = {w1, w2}
  Host <- MCHost
  Skew <- MCSkewed
  Key = {"k"}
  NoKey = NoKey
  NoTx = NoTx
  MaxTime = 1
  MaxMessages = 2
  MaxRows = 4
  MaxStoreRows = 3
CHECK_DEADLOCK FALSE
SYMMETRY MCAgents
PROPERTY PinKeepsHidden
