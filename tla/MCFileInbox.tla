---------------------------- MODULE MCFileInbox ----------------------------
(* Constants for TLC: one agent with a raw name and a user id, digests at  *)
(* two instants, a nudge (the other kind of snapshot) and a DM; a backlog  *)
(* of two digests waits, the later one first.                              *)
EXTENDS FileInbox

CONSTANTS raw, uid, m1, digest, nudge, dm, c1

Digest(t) ==
  [to |-> uid, subject |-> digest, instant |-> t, snapshot |-> TRUE, msg |-> NoMsg]
Nudge ==
  [to |-> uid, subject |-> nudge, instant |-> 1, snapshot |-> TRUE, msg |-> NoMsg]
Dm == [to |-> raw, subject |-> dm, instant |-> 1, snapshot |-> FALSE, msg |-> m1]

MCRequest == {Digest(1), Digest(2), Nudge, Dm}
MCBacklog == <<Digest(2), Digest(1)>>
MCReadKeys == [c \in Channel |-> <<raw, uid>>]
=============================================================================
