----------------------------- MODULE MCNotifyd -----------------------------
(* Constants for TLC: two process slots; two snapshots of one key.         *)
EXTENDS Notifyd, TLC

CONSTANTS d1, d2

(* Beyond a robbed pidfile only OneDaemonUnlessRobbed promises anything.   *)
Unrobbed == ~stolen

MCCumulative == {1, 2}
=============================================================================
