---------------------------- MODULE MCSealCycle ----------------------------
(* Instances of SealCycle for TLC: up to two sources and two films.         *)
EXTENDS SealCycle, TLC

CONSTANTS a, b, f, g
=============================================================================
