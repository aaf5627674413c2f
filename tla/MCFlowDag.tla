------------------------------ MODULE MCFlowDag ------------------------------
(* Every small graph: lists of up to three ids and three edges, ids that    *)
(* occur twice or not at all included, and four nodes with four edges.      *)
EXTENDS FlowDag, TLC

CONSTANTS a, b, c, d

SomeIds == {a, b, c, d}
Few == {a, b, c}
ListsUpTo(S, k) == UNION {[1 .. j -> S] : j \in 0 .. k}
Small == [nodes: ListsUpTo(Few, 3), edges: ListsUpTo(Few \X Few, 3)]
FourNodes == [nodes: {<<a, b, c, d>>},
              edges: [1 .. 4 -> {e \in SomeIds \X SomeIds : e[1] # e[2]}]]
AllGraphs == Small \cup FourNodes
=============================================================================
