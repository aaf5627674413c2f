---------------------------- MODULE MCPublication ----------------------------
(* A result that may be private or open, and three requests in flight.      *)
EXTENDS Publication, TLC

CONSTANTS r1, r2, r3

ThreeRequests == {r1, r2, r3}
TwoAcls == {"private", "tree"}
Symmetry == Permutations(Requests)
=============================================================================
