------------------------------ MODULE MCFlowRun ------------------------------
(* Instances of FlowRun: the flow a -> b -> c, with a also bound by c, and  *)
(* its first one and two nodes.                                            *)
EXTENDS FlowRun, TLC

CONSTANTS a, b, c, w1, w2, r1, r2

NodesABC == {a, b, c}
NodesAB == {a, b}
NodesA == {a}
RankABC == (a :> 1) @@ (b :> 2) @@ (c :> 3)
RankAB == (a :> 1) @@ (b :> 2)
RankA == (a :> 1)
EdgesABC == {<<a, b>>, <<b, c>>, <<a, c>>}
EdgesAB == {<<a, b>>}
EdgesA == {}
BindsABC == (a :> {}) @@ (b :> {a}) @@ (c :> {a, b})
BindsAB == (a :> {}) @@ (b :> {a})
BindsA == (a :> {})
TwoWorkers == {w1, w2}
OneWorker == {w1}
TwoCallers == {r1, r2}
OneCaller == {r1}
\* At most one fault of each kind, and at most n faults, of the kinds K.
AtMost(n, K) == {u \in [FaultKinds -> {0, 1}] :
                    {k \in FaultKinds : u[k] = 1} \in {S \in SUBSET K : Cardinality(S) <= n}}
AnyOne == AtMost(1, FaultKinds)
NoFaults == AtMost(0, {})
KillAndRevoke == AtMost(2, {"kill", "revoke"})
Symmetry == Permutations(Workers) \cup Permutations(Callers)
=============================================================================
