---------------------------- MODULE MCTimeline ----------------------------
(* Instances of Timeline for TLC.  A run's cfg chooses the budget. *)
EXTENDS Timeline, TLC

CONSTANTS t1, t2, c1, c2, w1, w2

\* At most one fault of each kind, and at most n faults, of the kinds K.
AtMost(n, K) == {u \in [FaultKinds -> {0, 1}] :
                    {k \in FaultKinds : u[k] = 1} \in {S \in SUBSET K : Cardinality(S) <= n}}
NoFault == AtMost(0, {})
AnyOne == AtMost(1, FaultKinds)
OneOfEach == AtMost(4, FaultKinds)
OneDrop == AtMost(1, {"drop"})

\* Alike and never ordered.
Symmetry == Permutations(Turns) \cup Permutations(Workers) \cup Permutations(Clients)
==========================================================================
