---------------------------- MODULE MCWriteLane ----------------------------
(* Instances of WriteLane for TLC: two sources, "a" with the pages a1, a2...  *)
(* and "b" with b1, b2...                                                    *)
EXTENDS WriteLane, TLC

CONSTANTS a, b, a1, a2, a3, b1, b2, w1, w2, d1

TwoAndTwo == (a1 :> a) @@ (a2 :> a) @@ (b1 :> b) @@ (b2 :> b)
TwoAndOne == (a1 :> a) @@ (a2 :> a) @@ (b1 :> b)
OneEach == (a1 :> a) @@ (b1 :> b)
Workers == Permutations({w1, w2})
=============================================================================
