------------------------------ MODULE MCInbox ------------------------------
(* Constants for TLC: an agent registered under a user id and a second     *)
(* agent known by its raw name only.  One digest at two instants goes to   *)
(* the user id, a DM to the agent's raw name, a DM to the second agent.    *)
EXTENDS Inbox, TLC

CONSTANTS raw, uid, other, m1, m2, digest, dm, t1, t2, c1, c2, k1

MCKey == {raw, uid, other}
MCMsg == {m1, m2}

Digest(t) ==
  [to |-> uid, subject |-> digest, instant |-> t, snapshot |-> TRUE, msg |-> NoMsg]
Dm(key, m) ==
  [to |-> key, subject |-> dm, instant |-> t1, snapshot |-> FALSE, msg |-> m]

DmAndDigests == {Dm(raw, m1), Digest(t1), Digest(t2)}
DmsAndDigest == {Dm(raw, m1), Dm(other, m2), Digest(t1)}

MCReadKeys == [x \in Channel \cup Caller |-> <<raw, uid>>]

(* Every constant treats the producers alike, and the channel servers.     *)
MCSymmetry == Permutations(Producer) \cup Permutations(Channel)

(* Row 1 is poison: the transport may refuse it whenever it is offered.    *)
Poison == {1}
LiveSpec == Spec /\ Recovers(Poison)

(* Every row that a live session can be pushed is pushed or superseded in  *)
(* the end: a row the transport always refuses, a crash, a lost receipt, a *)
(* failed key resolution or a burst above the cap delays the others and    *)
(* never starves them.  (_mcp_channel.drain_once and _poll_loop)           *)
EventuallyDelivered ==
  \A id \in Id \ Poison :
    (Row(id) /\ notif[id].to # other) ~> (id \in seen)
=============================================================================
