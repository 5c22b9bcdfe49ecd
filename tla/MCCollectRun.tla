---------------------------- MODULE MCCollectRun ----------------------------
(* Instances of CollectRun for TLC: the requests a and b for one source, a     *)
(* stop s of the source and a stop t of everything.                           *)
EXTENDS CollectRun, TLC

CONSTANTS a, b, s, t

Requests == Permutations({a, b})
=============================================================================
