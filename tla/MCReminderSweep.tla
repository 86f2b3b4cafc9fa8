-------------------------- MODULE MCReminderSweep --------------------------
(* Constants for TLC: two daemons whose clocks are one tick apart and one  *)
(* owner that the registry calls dead, with one high-priority card.        *)
EXTENDS ReminderSweep, TLC

CONSTANTS h1, h2, urgent

MCSkew == h1 :> 0 @@ h2 :> 1
MCOwnerOf == [c \in Card |-> 1]
=============================================================================
