------------------------------ MODULE FlowOrder ------------------------------
(***************************************************************************)
(* What topological_sort owes to the loop that executes its result: a     *)
(* place for every node, no two nodes at one place, and the source of an   *)
(* edge before its target.  FlowDag shows that the order it computes is    *)
(* one, FlowRun assumes it of Rank.                                        *)
(***************************************************************************)
EXTENDS Naturals

IsOrder(rank, N, E) ==
    /\ rank \in [N -> Nat]
    /\ \A m, n \in N : rank[m] = rank[n] => m = n
    /\ E \subseteq N \X N
    /\ \A e \in E : rank[e[1]] < rank[e[2]]
=============================================================================
