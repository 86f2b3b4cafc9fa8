--------------------------- MODULE MCDmVisibility ---------------------------
\* Constants of DmVisibility for TLC.
EXTENDS DmVisibility, TLC

CONSTANTS w1, w2, a, b

\* A pair thread names both agents.
MCPeers == [p \in Pair |-> {a, b}]

\* Two hosts, the first with the clock that is ahead.
MCHost == [w \in Writer |-> IF w = w1 THEN 1 ELSE 2]
MCSkewed == [w \in Writer |-> IF w = w1 THEN 1 ELSE 0]

\* Every constant treats the two agents alike.
MCAgents == Permutations({a, b})
=============================================================================
