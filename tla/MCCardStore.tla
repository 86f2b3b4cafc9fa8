---------------------------- MODULE MCCardStore ----------------------------
(* Constants for TLC: three hosts, which no step tells apart.                *)
EXTENDS CardStore, TLC

CONSTANTS h1, h2, h3

MCHosts == Permutations({h1, h2, h3})
=============================================================================
