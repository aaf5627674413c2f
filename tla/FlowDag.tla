------------------------------- MODULE FlowDag -------------------------------
(***************************************************************************)
(* What becomes of the graph of a flow (packages/components/flow):         *)
(* validate_dag looks at it when it is published, and topological_sort     *)
(* orders it whenever a run executes.  The two functions hold Kahn's       *)
(* worklist each in a copy of its own; the validator's counts what it      *)
(* takes from the queue, the engine's keeps it, so order is the engine's   *)
(* list and stands, while validating, for what the validator has counted.  *)
(*                                                                         *)
(* An edge is known by its index in the edge list: two edges between the   *)
(* same nodes (two ports) are two edges.  A definition Slip_X is a         *)
(* plausible mistake in the definition after it; nothing here uses it.     *)
(***************************************************************************)
EXTENDS Naturals, Sequences, FiniteSets, FlowOrder

CONSTANTS
    Ids,       \* node ids a request may name
    Graphs     \* node and edge lists a request may carry

ASSUME GraphsAssumption ==
    \A g \in Graphs : /\ g.nodes \in Seq(Ids)
                      /\ g.edges \in Seq(Ids \X Ids)

VARIABLES
    nodes,     \* the node ids of the request, or of the stored version
    edges,     \* its edges, <<source, target>>
    phase,     \* who works on the graph, or how it ended
    degree,    \* in_degree
    queue,     \* nodes whose predecessors are all done
    todo,      \* edges of the node just taken that are still to be followed
    order      \* nodes taken from the queue

vars == <<nodes, edges, phase, degree, queue, todo, order>>

Phases == {"validating", "rejected", "published", "sorting", "ordered",
           "raised"}

Members(s) == {s[k] : k \in DOMAIN s}
Known == Members(nodes)
Source(i) == edges[i][1]
Target(i) == edges[i][2]

-----------------------------------------------------------------------------
(* The edges that count, and where the worklist starts.                    *)

\* valid_edges: no unknown ends, no loops.
ValidEdges == {i \in DOMAIN edges : /\ Source(i) \in Known
                                    /\ Target(i) \in Known
                                    /\ Source(i) # Target(i)}

\* topological_sort follows every edge; only the validator filters.
Scanned(ph) ==
    IF ph \in {"validating", "rejected", "published"} THEN ValidEdges
                                                      ELSE DOMAIN edges

\* Two edges from one node counted as one.
Slip_CountsSources(E) ==
    [n \in Known |-> Cardinality({Source(i) : i \in {j \in E : Target(j) = n}})]

InDegree(E) == [n \in Known |-> Cardinality({i \in E : Target(i) = n})]

\* The dictionary of degrees is in the order of the node list, where an id
\* that occurs twice has the place of its first occurrence.
AreSources(deg, q) ==
    /\ Members(q) = {n \in Known : deg[n] = 0}
    /\ \A j, k \in DOMAIN q : j < k =>
          \E m \in DOMAIN nodes :
              /\ nodes[m] = q[j]
              /\ \A l \in DOMAIN nodes : nodes[l] = q[k] => m < l

\* What the validator holds against a graph besides a cycle.
Slip_LoopsPass ==
    \/ \E j, k \in DOMAIN nodes : j # k /\ nodes[j] = nodes[k]
    \/ \E i \in DOMAIN edges : {Source(i), Target(i)} \ Known # {}
Malformed ==
    \/ \E j, k \in DOMAIN nodes : j # k /\ nodes[j] = nodes[k]
    \/ ValidEdges # DOMAIN edges

Lists(S) == UNION {[1 .. k -> S] : k \in 0 .. Cardinality(S)}

Start(ph) ==
    /\ phase' = ph
    /\ degree' = InDegree(Scanned(ph))
    /\ \E q \in Lists(Known) : AreSources(InDegree(Scanned(ph)), q) /\ queue' = q
    /\ todo' = {}
    /\ order' = <<>>
    /\ UNCHANGED <<nodes, edges>>

Init ==
    \E g \in Graphs :
        /\ nodes = g.nodes
        /\ edges = g.edges
        /\ phase = "validating"
        /\ degree = InDegree(ValidEdges)
        /\ \E q \in Lists(Known) : AreSources(degree, q) /\ queue = q
        /\ todo = {}
        /\ order = <<>>

-----------------------------------------------------------------------------
(* The worklist.                                                           *)

Working == phase \in {"validating", "sorting"}
Drained == queue = <<>> /\ todo = {}

\* The adjacency list as a set of neighbours, though every edge was counted.
Slip_PopNeighbours ==
    /\ Working /\ todo = {} /\ queue # <<>>
    /\ order' = Append(order, Head(queue))
    /\ queue' = Tail(queue)
    /\ todo' = {i \in Scanned(phase) : /\ Source(i) = Head(queue)
                                       /\ \A j \in Scanned(phase) :
                                            edges[j] = edges[i] => i <= j}
    /\ UNCHANGED <<nodes, edges, phase, degree>>

Pop ==
    /\ Working /\ todo = {} /\ queue # <<>>
    /\ order' = Append(order, Head(queue))
    /\ queue' = Tail(queue)
    /\ todo' = {i \in Scanned(phase) : Source(i) = Head(queue)}
    /\ UNCHANGED <<nodes, edges, phase, degree>>

\* Off by one: a neighbour is queued while one of its edges is still open.
Slip_RelaxEarly ==
    /\ Working
    /\ \E i \in todo :
        /\ \A j \in todo : i <= j
        /\ todo' = todo \ {i}
        /\ degree' = [degree EXCEPT ![Target(i)] = @ - 1]
        /\ queue' = IF degree[Target(i)] = 2 THEN Append(queue, Target(i))
                                             ELSE queue
    /\ UNCHANGED <<nodes, edges, phase, order>>

\* for neighbor in adjacency[current]: the edges in the order of the list.
Relax ==
    /\ Working
    /\ \E i \in todo :
        /\ \A j \in todo : i <= j
        /\ todo' = todo \ {i}
        /\ degree' = [degree EXCEPT ![Target(i)] = @ - 1]
        /\ queue' = IF degree[Target(i)] = 1 THEN Append(queue, Target(i))
                                             ELSE queue
    /\ UNCHANGED <<nodes, edges, phase, order>>

\* publish_version stores the version only if validate_dag has no error.
Verdict ==
    /\ phase = "validating" /\ Drained
    /\ phase' = IF Malformed \/ Len(order) # Len(nodes)
                THEN "rejected" ELSE "published"
    /\ UNCHANGED <<nodes, edges, degree, queue, todo, order>>

\* A run of the published version executes or resumes.
Sort == phase \in {"published", "ordered"} /\ Start("sorting")

\* topological_sort returns the order, or raises if it is not complete.
Return ==
    /\ phase = "sorting" /\ Drained
    /\ phase' = IF Len(order) # Len(nodes) THEN "raised" ELSE "ordered"
    /\ UNCHANGED <<nodes, edges, degree, queue, todo, order>>

Next == Pop \/ Relax \/ Verdict \/ Sort \/ Return

Spec == Init /\ [][Next]_vars

-----------------------------------------------------------------------------
(* Properties.                                                             *)

\* Lists hold nodes of the graph and no degree is ever below zero, although
\* each edge is subtracted in a loop of its own.
TypeOK ==
    /\ nodes \in Seq(Ids)
    /\ edges \in Seq(Ids \X Ids)
    /\ phase \in Phases
    /\ degree \in [Known -> Nat]
    /\ queue \in Seq(Known)
    /\ todo \subseteq DOMAIN edges
    /\ order \in Seq(Known)

\* Where the list the engine executes has node n.
Place == [n \in Known |-> CHOOSE k \in DOMAIN order : order[k] = n]

\* A graph is published, or ordered, only with every node and every edge, and
\* the places of its nodes are what FlowRun assumes of Rank.
Complete ==
    phase \in {"published", "ordered"} =>
        /\ Members(order) = Known
        /\ Len(order) = Cardinality(Known)
        /\ Scanned(phase) = DOMAIN edges
        /\ Len(nodes) = Cardinality(Known)
        /\ IsOrder(Place, Known, Members(edges))

\* A well-formed graph is turned down only for a cycle: some nodes are left,
\* and each of them has an edge from another one that is left.
RejectedForCycle ==
    phase = "rejected" /\ ~Malformed =>
        LET left == Known \ Members(order)
        IN  /\ left # {}
            /\ \A n \in left : \E i \in DOMAIN edges :
                   Target(i) = n /\ Source(i) \in left

\* The second copy of the algorithm agrees with the first: the execution of a
\* published flow never fails for its graph.
PublishedIsSortable == phase # "raised"
=============================================================================
