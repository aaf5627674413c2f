---------------------------- MODULE FlowDagProofs ----------------------------
(***************************************************************************)
(* Proofs about FlowDag: whatever the lists of nodes and edges are, a      *)
(* published graph is complete and topologically ordered, a well-formed    *)
(* graph is rejected only for a cycle, and the engine's sort never fails   *)
(* for a graph the validator let pass.                                     *)
(*                                                                         *)
(* DagInv ties the counters to the graph: in_degree is the number of edges *)
(* still open, and a node is in the queue or in the order exactly when its *)
(* number is zero.                                                         *)
(***************************************************************************)
EXTENDS FlowDag, FiniteSetTheorems, SequenceTheorems, WellFoundedInduction,
        TLAPS

Injective(s) == \A j, k \in DOMAIN s : s[j] = s[k] => j = k

\* Nothing is ordered twice, and a node is ordered only after the source of
\* every edge into it, which the engine relies on when it reads the outputs of
\* the sources.
OrderIsTopological ==
    /\ \A j, k \in DOMAIN order : order[j] = order[k] => j = k
    /\ \A i \in Scanned(phase), k \in DOMAIN order :
          Target(i) = order[k] => \E j \in 1 .. k - 1 : order[j] = Source(i)

-----------------------------------------------------------------------------
(* Lists without repetition.                                               *)

\* An appended element is a member, and a new one keeps the list injective.
LEMMA AppendMembers ==
    ASSUME NEW S, NEW s \in Seq(S), NEW x \in S
    PROVE  /\ Append(s, x) \in Seq(S)
           /\ Members(Append(s, x)) = Members(s) \cup {x}
           /\ Injective(s) /\ x \notin Members(s) => Injective(Append(s, x))
           /\ Len(Append(s, x)) = Len(s) + 1
           /\ Append(s, x)[Len(s) + 1] = x
           /\ \A k \in DOMAIN s : Append(s, x)[k] = s[k]
           /\ DOMAIN Append(s, x) = 1 .. Len(s) + 1
           /\ DOMAIN s = 1 .. Len(s) /\ Len(s) \in Nat
<1> DEFINE t == Append(s, x)
<1>1. /\ t \in Seq(S)
      /\ Len(t) = Len(s) + 1
      /\ t[Len(s) + 1] = x
      /\ \A k \in 1 .. Len(s) : t[k] = s[k]
  BY AppendProperties
<1>2. /\ DOMAIN s = 1 .. Len(s)
      /\ Len(s) \in Nat
  BY LenProperties
<1>3. DOMAIN t = 1 .. Len(s) + 1
  BY <1>1, LenProperties
<1> HIDE DEF t
<1>4. Members(t) = Members(s) \cup {x}
  <2>1. ASSUME NEW y \in Members(t)
        PROVE  y \in Members(s) \cup {x}
    <3>1. PICK k \in DOMAIN t : y = t[k]
      BY DEF Members
    <3>2. CASE k = Len(s) + 1
      BY <3>1, <3>2, <1>1
    <3>3. CASE k # Len(s) + 1
      <4>1. k \in 1 .. Len(s)
        BY <3>3, <1>3, <1>2
      <4>2. QED BY <4>1, <3>1, <1>1, <1>2 DEF Members
    <3>4. QED BY <3>2, <3>3
  <2>2. ASSUME NEW y \in Members(s)
        PROVE  y \in Members(t)
    <3>1. PICK k \in DOMAIN s : y = s[k]
      BY DEF Members
    <3>2. k \in DOMAIN t /\ t[k] = y
      BY <3>1, <1>1, <1>2, <1>3
    <3>3. QED BY <3>2 DEF Members
  <2>3. x \in Members(t)
    <3>1. Len(s) + 1 \in DOMAIN t
      BY <1>2, <1>3
    <3>2. QED BY <3>1, <1>1 DEF Members
  <2>4. QED BY <2>1, <2>2, <2>3
<1>5. ASSUME Injective(s), x \notin Members(s)
      PROVE  Injective(t)
  <2>1. SUFFICES ASSUME NEW j \in DOMAIN t, NEW k \in DOMAIN t, t[j] = t[k],
                        j # k
                 PROVE  FALSE
    BY DEF Injective
  <2>2. CASE j \in 1 .. Len(s) /\ k \in 1 .. Len(s)
    BY <2>1, <2>2, <1>1, <1>2, <1>5 DEF Injective
  <2>3. CASE j = Len(s) + 1 /\ k \in 1 .. Len(s)
    BY <2>1, <2>3, <1>1, <1>2, <1>5 DEF Members
  <2>4. CASE k = Len(s) + 1 /\ j \in 1 .. Len(s)
    BY <2>1, <2>4, <1>1, <1>2, <1>5 DEF Members
  <2>5. QED BY <2>1, <2>2, <2>3, <2>4, <1>2, <1>3
<1>6. QED BY <1>1, <1>2, <1>3, <1>4, <1>5 DEF t

\* Taking the head of a list without repetition leaves the other members.
LEMMA TailMembers ==
    ASSUME NEW S, NEW s \in Seq(S), s # <<>>, Injective(s)
    PROVE  /\ Head(s) \in Members(s)
           /\ Head(s) \in S
           /\ Tail(s) \in Seq(S)
           /\ Members(Tail(s)) = Members(s) \ {Head(s)}
           /\ Injective(Tail(s))
<1> DEFINE t == Tail(s)
<1>1. /\ Head(s) \in S
      /\ t \in Seq(S)
      /\ Len(t) = Len(s) - 1
      /\ \A i \in 1 .. Len(t) : t[i] = s[i + 1]
  BY HeadTailProperties
<1>2. DOMAIN s = 1 .. Len(s) /\ Len(s) \in Nat \ {0}
  BY LenProperties, EmptySeq
<1>3. DOMAIN t = 1 .. Len(s) - 1
  BY <1>1, LenProperties
<1>4. Head(s) = s[1] /\ 1 \in DOMAIN s
  BY <1>2
<1> HIDE DEF t
<1>5. Members(t) = Members(s) \ {Head(s)}
  <2>1. ASSUME NEW y \in Members(t)
        PROVE  y \in Members(s) /\ y # Head(s)
    <3>1. PICK k \in DOMAIN t : y = t[k]
      BY DEF Members
    <3>2. k + 1 \in DOMAIN s /\ k + 1 # 1 /\ y = s[k + 1]
      BY <3>1, <1>1, <1>2, <1>3
    <3>3. QED BY <3>2, <1>4 DEF Members, Injective
  <2>2. ASSUME NEW y \in Members(s), y # Head(s)
        PROVE  y \in Members(t)
    <3>1. PICK k \in DOMAIN s : y = s[k]
      BY DEF Members
    <3>2. k # 1
      BY <3>1, <2>2, <1>4
    <3>3. k - 1 \in DOMAIN t /\ t[k - 1] = y
      BY <3>1, <3>2, <1>1, <1>2, <1>3
    <3>4. QED BY <3>3 DEF Members
  <2>3. QED BY <2>1, <2>2
<1>6. Injective(t)
  <2>1. SUFFICES ASSUME NEW j \in DOMAIN t, NEW k \in DOMAIN t, t[j] = t[k]
                 PROVE  j = k
    BY DEF Injective
  <2>2. j + 1 \in DOMAIN s /\ k + 1 \in DOMAIN s /\ s[j + 1] = s[k + 1]
    BY <2>1, <1>1, <1>2, <1>3
  <2>3. j + 1 = k + 1
    BY <2>2 DEF Injective
  <2>4. QED BY <2>3, <1>2, <1>3
<1>7. Head(s) \in Members(s)
  BY <1>4 DEF Members
<1>8. QED BY <1>1, <1>5, <1>6, <1>7 DEF t

\* The length of a list is the number of its members if nothing repeats.
LEMMA LengthCounts ==
    ASSUME NEW S, NEW s \in Seq(S)
    PROVE  /\ IsFiniteSet(Members(s))
           /\ Cardinality(Members(s)) = Len(s) <=> Injective(s)
<1>1. DOMAIN s = 1 .. Len(s) /\ Len(s) \in Nat /\ s \in [1 .. Len(s) -> S]
  BY LenProperties
<1>2. IsFiniteSet(1 .. Len(s)) /\ Cardinality(1 .. Len(s)) = Len(s)
  <2>1. 1 \in Int /\ Len(s) \in Int
    BY <1>1
  <2>2. /\ IsFiniteSet(1 .. Len(s))
        /\ Cardinality(1 .. Len(s)) = IF 1 > Len(s) THEN 0 ELSE Len(s) - 1 + 1
    BY <2>1, FS_Interval
  <2>3. QED BY <2>2, <1>1
<1>3. s \in [1 .. Len(s) -> Members(s)]
  BY <1>1 DEF Members
<1>4. s \in Surjection(1 .. Len(s), Members(s))
  BY <1>3, <1>1 DEF Surjection, Members
<1>5. /\ IsFiniteSet(Members(s))
      /\ Cardinality(Members(s)) = Cardinality(1 .. Len(s))
            <=> s \in Injection(1 .. Len(s), Members(s))
  BY <1>2, <1>4, FS_Surjection
<1>6. s \in Injection(1 .. Len(s), Members(s)) <=> Injective(s)
  BY <1>3, <1>1 DEF Injection, IsInjective, Injective
<1>7. QED BY <1>2, <1>5, <1>6

\* A non-empty set on which a rank is defined has an element of least rank.
LEMMA LeastRank ==
    ASSUME NEW S, NEW r \in [S -> Nat], NEW T, T \subseteq S, T # {}
    PROVE  \E x \in T : \A y \in T : ~ (r[y] < r[x])
<1> DEFINE R == {r[x] : x \in T}
<1>1. R \subseteq Nat /\ R # {}
  OBVIOUS
<1>2. \E m \in R : \A k \in R : ~ (<<k, m>> \in OpToRel(<, Nat))
  <2> HIDE DEF R
  <2>1. IsWellFoundedOn(OpToRel(<, Nat), Nat)
    BY NatLessThanWellFounded
  <2>2. QED BY <2>1, <1>1, WFMin
<1>3. PICK m \in R : \A k \in R : ~ (<<k, m>> \in OpToRel(<, Nat))
  BY <1>2
<1>4. \A k \in R : ~ (k < m)
  BY <1>1, <1>3 DEF OpToRel
<1>5. PICK x \in T : m = r[x]
  BY DEF R
<1>6. QED BY <1>4, <1>5

-----------------------------------------------------------------------------
(* The inductive invariant.                                                *)

\* Edges into n that the worklist has not followed yet.
Open(n) == {i \in Scanned(phase) :
               /\ Target(i) = n
               /\ Source(i) \notin Members(order) \/ i \in todo}

NoRepeats == /\ Injective(order)
          /\ Injective(queue)
          /\ Members(order) \cap Members(queue) = {}

Following == /\ todo \subseteq Scanned(phase)
             /\ \A i \in todo : Source(i) \in Members(order)

Counted == \A n \in Known : degree[n] = Cardinality(Open(n))

Queued == \A n \in Known :
             n \in Members(order) \cup Members(queue) <=> degree[n] = 0

\* A rank of the nodes that every edge goes up: the graph has no cycle.
Ranked == \E r \in [Known -> Nat] :
             \A i \in DOMAIN edges : r[Source(i)] < r[Target(i)]

Ended ==
    /\ phase \notin {"validating", "sorting"} => Drained
    /\ phase \notin {"validating", "rejected"} => ~Malformed /\ Ranked
    /\ phase \in {"published", "ordered"} => Len(order) = Len(nodes)
    /\ phase = "rejected" => Malformed \/ Len(order) # Len(nodes)
    /\ phase = "raised" => Len(order) # Len(nodes)

DagInv ==
    /\ TypeOK
    /\ NoRepeats
    /\ Following
    /\ Counted
    /\ Queued
    /\ OrderIsTopological
    /\ Ended

-----------------------------------------------------------------------------
(* Facts about a state.                                                    *)

\* The ends of the edges that are followed are nodes of the graph.
LEMMA ScannedEnds ==
    ASSUME TypeOK, phase \in {"validating", "rejected"} \/ ~Malformed
    PROVE  /\ Scanned(phase) \subseteq DOMAIN edges
           /\ \A i \in Scanned(phase) : Source(i) \in Known /\ Target(i) \in Known
<1>1. ValidEdges \subseteq DOMAIN edges
  BY DEF ValidEdges
<1>2. Scanned(phase) = ValidEdges
  <2>1. CASE phase \in {"validating", "rejected", "published"}
    BY <2>1 DEF Scanned
  <2>2. CASE phase \notin {"validating", "rejected", "published"}
    <3>1. Scanned(phase) = DOMAIN edges
      BY <2>2 DEF Scanned
    <3>2. ValidEdges = DOMAIN edges
      BY <2>2 DEF Malformed
    <3>3. QED BY <3>1, <3>2
  <2>3. QED BY <2>1, <2>2
<1>3. QED BY <1>1, <1>2 DEF ValidEdges

\* Sets of edges are finite.
LEMMA EdgesFinite ==
    ASSUME TypeOK, NEW E, E \subseteq DOMAIN edges
    PROVE  IsFiniteSet(E)
<1>1. DOMAIN edges = 1 .. Len(edges) /\ Len(edges) \in Nat
  BY LenProperties DEF TypeOK
<1>2. IsFiniteSet(1 .. Len(edges))
  <2>1. 1 \in Int /\ Len(edges) \in Int
    BY <1>1
  <2>2. QED BY <2>1, FS_Interval
<1>3. E \in SUBSET (1 .. Len(edges))
  BY <1>1
<1>4. QED BY <1>2, <1>3, FS_Subset

LEMMA OpenFinite ==
    ASSUME TypeOK, NEW n
    PROVE  IsFiniteSet(Open(n))
<1>1. Open(n) \subseteq DOMAIN edges
  BY DEF Open, Scanned, ValidEdges
<1>2. QED BY <1>1, EdgesFinite

\* Where the worklist starts: nothing is ordered, every edge is open.
LEMMA FreshWork ==
    ASSUME nodes \in Seq(Ids), edges \in Seq(Ids \X Ids),
           NEW E, E \subseteq DOMAIN edges,
           NEW q \in Lists(Known), AreSources(InDegree(E), q)
    PROVE  /\ InDegree(E) \in [Known -> Nat]
           /\ q \in Seq(Known)
           /\ Injective(q)
           /\ \A n \in Known : n \in Members(q) <=> InDegree(E)[n] = 0
<1>1. DOMAIN edges = 1 .. Len(edges) /\ Len(edges) \in Nat
  BY LenProperties
<1>2. IsFiniteSet(1 .. Len(edges))
  <2>1. 1 \in Int /\ Len(edges) \in Int
    BY <1>1
  <2>2. QED BY <2>1, FS_Interval
<1>3. ASSUME NEW n \in Known
      PROVE  Cardinality({i \in E : Target(i) = n}) \in Nat
  <2>1. {i \in E : Target(i) = n} \in SUBSET (1 .. Len(edges))
    BY <1>1
  <2>2. IsFiniteSet({i \in E : Target(i) = n})
    BY <2>1, <1>2, FS_Subset
  <2>3. QED BY <2>2, FS_CardinalityType
<1>4. InDegree(E) \in [Known -> Nat]
  BY <1>3 DEF InDegree
<1>5. PICK k \in Nat : q \in [1 .. k -> Known]
  BY DEF Lists
<1>6. q \in Seq(Known)
  BY <1>5
<1>7. Injective(q)
  <2>1. SUFFICES ASSUME NEW j \in DOMAIN q, NEW l \in DOMAIN q, j < l,
                        q[j] = q[l]
                 PROVE  FALSE
    BY <1>5 DEF Injective
  <2>2. PICK m \in DOMAIN nodes :
            /\ nodes[m] = q[j]
            /\ \A h \in DOMAIN nodes : nodes[h] = q[l] => m < h
    BY <2>1 DEF AreSources
  <2>3. m < m
    BY <2>1, <2>2
  <2>4. m \in Nat
    BY LenProperties
  <2>5. QED BY <2>3, <2>4
<1>8. QED BY <1>4, <1>6, <1>7 DEF AreSources

\* A drained worklist that ordered everything leaves no edge out of order.
LEMMA OrderRanks ==
    ASSUME DagInv, ~Malformed, Len(order) = Len(nodes)
    PROVE  /\ Members(order) = Known
           /\ Len(order) = Cardinality(Known)
           /\ IsOrder(Place, Known, Members(edges))
           /\ Ranked
<1>1. Injective(nodes)
  BY DEF Malformed, Injective
<1>2. IsFiniteSet(Known) /\ Cardinality(Known) = Len(nodes)
  BY <1>1, LengthCounts DEF DagInv, TypeOK, Known
<1>3. IsFiniteSet(Members(order)) /\ Cardinality(Members(order)) = Len(order)
  BY LengthCounts DEF DagInv, TypeOK, NoRepeats
<1>4. Members(order) \subseteq Known
  BY LenProperties DEF DagInv, TypeOK, Members
<1>5. Members(order) = Known
  BY <1>2, <1>3, <1>4, FS_Subset
<1> DEFINE r == Place
<1>6. ASSUME NEW n \in Known
      PROVE  r[n] \in DOMAIN order /\ order[r[n]] = n
  BY <1>5 DEF Members, Place
<1>7. DOMAIN order = 1 .. Len(order) /\ Len(order) \in Nat
  BY LenProperties DEF DagInv, TypeOK
<1>8. r \in [Known -> Nat]
  BY <1>6, <1>7 DEF Place
<1>9. Scanned(phase) = DOMAIN edges
  BY DEF Scanned, Malformed
<1>10. \A i \in DOMAIN edges : Source(i) \in Known /\ Target(i) \in Known
  BY <1>9, ScannedEnds DEF DagInv
<1> HIDE DEF r
<1>11. ASSUME NEW i \in DOMAIN edges
       PROVE  r[Source(i)] < r[Target(i)]
  <2>1. order[r[Target(i)]] = Target(i) /\ r[Target(i)] \in DOMAIN order
    BY <1>6, <1>10
  <2>2. PICK j \in 1 .. r[Target(i)] - 1 : order[j] = Source(i)
    BY <2>1, <1>9 DEF DagInv, OrderIsTopological
  <2>3. j \in DOMAIN order /\ j < r[Target(i)]
    BY <2>1, <2>2, <1>7
  <2>4. order[r[Source(i)]] = Source(i) /\ r[Source(i)] \in DOMAIN order
    BY <1>6, <1>10
  <2>5. r[Source(i)] = j
    BY <2>2, <2>3, <2>4 DEF DagInv, NoRepeats, Injective
  <2>6. QED BY <2>3, <2>5
<1>12. Ranked
  BY <1>8, <1>11 DEF Ranked
<1>13. IsOrder(r, Known, Members(edges))
  <2>1. \A m, n \in Known : r[m] = r[n] => m = n
    BY <1>6
  <2>2. ASSUME NEW e \in Members(edges)
        PROVE  e \in Known \X Known /\ r[e[1]] < r[e[2]]
    <3>1. PICK i \in DOMAIN edges : e = edges[i]
      BY DEF Members
    <3>2. edges \in Seq(Ids \X Ids)
      BY DEF DagInv, TypeOK
    <3>3. edges[i] \in Ids \X Ids
      BY <3>2, LenProperties
    <3>4. e = <<Source(i), Target(i)>>
      BY <3>1, <3>3 DEF Source, Target
    <3>5. QED BY <3>1, <3>4, <1>10, <1>11 DEF Source, Target
  <2>3. QED BY <1>8, <2>1, <2>2 DEF IsOrder
<1>14. IsOrder(Place, Known, Members(edges))
  BY <1>13 DEF r
<1>15. QED BY <1>2, <1>5, <1>12, <1>14

-----------------------------------------------------------------------------
(* The invariant holds initially and every step preserves it.              *)

LEMMA DagInvInit == Init => DagInv
<1> SUFFICES ASSUME Init PROVE DagInv
  OBVIOUS
<1>1. PICK g \in Graphs :
        /\ nodes = g.nodes
        /\ edges = g.edges
        /\ phase = "validating"
        /\ degree = InDegree(ValidEdges)
        /\ \E q \in Lists(Known) : AreSources(degree, q) /\ queue = q
        /\ todo = {}
        /\ order = <<>>
  BY DEF Init
<1>2. nodes \in Seq(Ids) /\ edges \in Seq(Ids \X Ids)
  BY <1>1, GraphsAssumption
<1>3. Scanned(phase) = ValidEdges /\ ValidEdges \subseteq DOMAIN edges
  BY <1>1 DEF Scanned, ValidEdges
<1>4. PICK q \in Lists(Known) : AreSources(InDegree(ValidEdges), q) /\ queue = q
  BY <1>1
<1>5. /\ degree \in [Known -> Nat]
      /\ queue \in Seq(Known)
      /\ Injective(queue)
      /\ \A n \in Known : n \in Members(queue) <=> degree[n] = 0
  BY <1>1, <1>2, <1>3, <1>4, FreshWork
<1>6. Members(order) = {} /\ DOMAIN order = {} /\ order \in Seq(Known)
  BY <1>1 DEF Members
<1>7. TypeOK
  BY <1>1, <1>2, <1>5, <1>6 DEF TypeOK, Phases
<1>8. NoRepeats
  BY <1>5, <1>6 DEF NoRepeats, Injective
<1>9. Following
  BY <1>1 DEF Following
<1>10. Counted
  <2>1. \A n : Open(n) = {i \in ValidEdges : Target(i) = n}
    BY <1>3, <1>6 DEF Open
  <2>2. QED BY <2>1, <1>1 DEF Counted, InDegree
<1>11. Queued
  BY <1>5, <1>6 DEF Queued
<1>12. OrderIsTopological
  BY <1>6 DEF OrderIsTopological
<1>13. Ended
  BY <1>1 DEF Ended
<1>14. QED BY <1>7, <1>8, <1>9, <1>10, <1>11, <1>12, <1>13 DEF DagInv

\* execute starts topological_sort on the stored lists.
LEMMA DagInvSort == DagInv /\ Sort => DagInv'
<1> SUFFICES ASSUME DagInv, Sort PROVE DagInv'
  OBVIOUS
<1>1. /\ phase \in {"published", "ordered"}
      /\ phase' = "sorting"
      /\ degree' = InDegree(Scanned("sorting"))
      /\ todo' = {}
      /\ order' = <<>>
      /\ nodes' = nodes /\ edges' = edges
  BY DEF Sort, Start
<1>2. PICK q \in Lists(Known) :
            AreSources(InDegree(Scanned("sorting")), q) /\ queue' = q
  BY DEF Sort, Start
<1>3. nodes \in Seq(Ids) /\ edges \in Seq(Ids \X Ids)
  BY DEF DagInv, TypeOK
<1>4. Scanned("sorting") = DOMAIN edges
  BY DEF Scanned
<1>5. /\ degree' \in [Known -> Nat]
      /\ queue' \in Seq(Known)
      /\ Injective(queue')
      /\ \A n \in Known : n \in Members(queue') <=> degree'[n] = 0
  BY <1>1, <1>2, <1>3, <1>4, FreshWork
<1>6. Members(order') = {} /\ DOMAIN order' = {} /\ order' \in Seq(Known)
  BY <1>1 DEF Members
<1>7. /\ Known' = Known
      /\ Scanned(phase)' = DOMAIN edges
      /\ \A i : Source(i)' = Source(i) /\ Target(i)' = Target(i)
      /\ Members(order)' = {}
  BY <1>1, <1>6 DEF Known, Members, Scanned, Source, Target
<1>8. TypeOK'
  BY <1>1, <1>3, <1>5, <1>6, <1>7 DEF TypeOK, Phases
<1>9. NoRepeats'
  BY <1>5, <1>6, <1>7 DEF NoRepeats, Injective
<1>10. Following'
  BY <1>1 DEF Following
<1>11. Counted'
  <2>1. ASSUME NEW n
        PROVE  Open(n)' = {i \in DOMAIN edges : Target(i) = n}
    BY <1>1, <1>7 DEF Open
  <2>2. \A n \in Known : degree'[n] = Cardinality({i \in DOMAIN edges : Target(i) = n})
    BY <1>1, <1>4 DEF InDegree
  <2>3. QED BY <2>1, <2>2, <1>7 DEF Counted
<1>12. Queued'
  BY <1>5, <1>6, <1>7 DEF Queued, Members
<1>13. OrderIsTopological'
  BY <1>6, <1>7 DEF OrderIsTopological
<1>14. Ended'
  <2>1. ~Malformed /\ Ranked
    BY <1>1 DEF DagInv, Ended
  <2>2. ~Malformed' /\ Ranked'
    BY <2>1, <1>1, <1>7 DEF Malformed, Ranked, ValidEdges
  <2>3. QED BY <2>2, <1>1 DEF Ended
<1>15. QED BY <1>8, <1>9, <1>10, <1>11, <1>12, <1>13, <1>14 DEF DagInv

\* The validator's verdict: an order of every node is a rank.
LEMMA DagInvVerdict == DagInv /\ Verdict => DagInv'
<1> SUFFICES ASSUME DagInv, Verdict PROVE DagInv'
  OBVIOUS
<1>1. /\ phase = "validating" /\ Drained
      /\ phase' = IF Malformed \/ Len(order) # Len(nodes)
                  THEN "rejected" ELSE "published"
      /\ UNCHANGED <<nodes, edges, degree, queue, todo, order>>
  BY DEF Verdict
<1>2. phase' \in {"rejected", "published"}
  BY <1>1
<1>3. /\ Known' = Known
      /\ Scanned(phase)' = Scanned(phase)
      /\ \A i : Source(i)' = Source(i) /\ Target(i)' = Target(i)
      /\ Members(order)' = Members(order)
      /\ Members(queue)' = Members(queue)
      /\ Malformed' = Malformed
      /\ Ranked' = Ranked
      /\ Drained' = Drained
  BY <1>1, <1>2
  DEF Known, Members, Scanned, ValidEdges, Source, Target, Malformed, Ranked,
      Drained
<1>4. \A n : Open(n)' = Open(n)
  BY <1>1, <1>3 DEF Open
<1>5. TypeOK'
  BY <1>1, <1>2, <1>3 DEF DagInv, TypeOK, Phases
<1>6. NoRepeats' /\ Following' /\ Counted' /\ Queued'
  BY <1>1, <1>3, <1>4 DEF DagInv, NoRepeats, Following, Counted, Queued,
                          Injective
<1>7. OrderIsTopological'
  BY <1>1, <1>3 DEF DagInv, OrderIsTopological
<1>8. Ended'
  <2>1. CASE Malformed \/ Len(order) # Len(nodes)
    BY <2>1, <1>1, <1>3 DEF Ended
  <2>2. CASE ~Malformed /\ Len(order) = Len(nodes)
    BY <2>2, <1>1, <1>3, OrderRanks DEF Ended
  <2>3. QED BY <2>1, <2>2
<1>9. QED BY <1>5, <1>6, <1>7, <1>8 DEF DagInv

\* topological_sort's answer.
LEMMA DagInvReturn == DagInv /\ Return => DagInv'
<1> SUFFICES ASSUME DagInv, Return PROVE DagInv'
  OBVIOUS
<1>1. /\ phase = "sorting" /\ Drained
      /\ phase' = IF Len(order) # Len(nodes) THEN "raised" ELSE "ordered"
      /\ UNCHANGED <<nodes, edges, degree, queue, todo, order>>
  BY DEF Return
<1>2. phase' \in {"raised", "ordered"}
  BY <1>1
<1>3. /\ Known' = Known
      /\ Scanned(phase)' = Scanned(phase)
      /\ \A i : Source(i)' = Source(i) /\ Target(i)' = Target(i)
      /\ Members(order)' = Members(order)
      /\ Members(queue)' = Members(queue)
      /\ Malformed' = Malformed
      /\ Ranked' = Ranked
      /\ Drained' = Drained
  BY <1>1, <1>2
  DEF Known, Members, Scanned, ValidEdges, Source, Target, Malformed, Ranked,
      Drained
<1>4. \A n : Open(n)' = Open(n)
  BY <1>1, <1>3 DEF Open
<1>5. TypeOK'
  BY <1>1, <1>2, <1>3 DEF DagInv, TypeOK, Phases
<1>6. NoRepeats' /\ Following' /\ Counted' /\ Queued'
  BY <1>1, <1>3, <1>4 DEF DagInv, NoRepeats, Following, Counted, Queued,
                          Injective
<1>7. OrderIsTopological'
  BY <1>1, <1>3 DEF DagInv, OrderIsTopological
<1>8. Ended'
  <2>1. ~Malformed /\ Ranked
    BY <1>1 DEF DagInv, Ended
  <2>2. CASE Len(order) # Len(nodes)
    BY <2>1, <2>2, <1>1, <1>3 DEF Ended
  <2>3. CASE Len(order) = Len(nodes)
    BY <2>1, <2>3, <1>1, <1>3 DEF Ended
  <2>4. QED BY <2>2, <2>3
<1>9. QED BY <1>5, <1>6, <1>7, <1>8 DEF DagInv

\* A node leaves the queue; its edges stay open until they are followed.
LEMMA DagInvPop == DagInv /\ Pop => DagInv'
<1> SUFFICES ASSUME DagInv, Pop PROVE DagInv'
  OBVIOUS
<1> DEFINE h == Head(queue)
<1>1. /\ Working /\ todo = {} /\ queue # <<>>
      /\ order' = Append(order, h)
      /\ queue' = Tail(queue)
      /\ todo' = {i \in Scanned(phase) : Source(i) = h}
      /\ UNCHANGED <<nodes, edges, phase, degree>>
  BY DEF Pop
<1>2. /\ order \in Seq(Known) /\ queue \in Seq(Known)
      /\ Injective(order) /\ Injective(queue)
      /\ Members(order) \cap Members(queue) = {}
  BY DEF DagInv, TypeOK, NoRepeats
<1>3. /\ h \in Members(queue)
      /\ h \in Known
      /\ queue' \in Seq(Known)
      /\ Members(queue') = Members(queue) \ {h}
      /\ Injective(queue')
  BY <1>1, <1>2, TailMembers
<1> HIDE DEF h
<1>4. h \notin Members(order)
  BY <1>2, <1>3
<1>5. /\ order' \in Seq(Known)
      /\ Members(order') = Members(order) \cup {h}
      /\ Injective(order')
      /\ order'[Len(order) + 1] = h
      /\ \A k \in DOMAIN order : order'[k] = order[k]
      /\ DOMAIN order' = 1 .. Len(order) + 1
      /\ DOMAIN order = 1 .. Len(order) /\ Len(order) \in Nat
  BY <1>1, <1>2, <1>3, <1>4, AppendMembers
<1>6. /\ Known' = Known
      /\ Scanned(phase)' = Scanned(phase)
      /\ \A i : Source(i)' = Source(i) /\ Target(i)' = Target(i)
      /\ Members(order)' = Members(order) \cup {h}
      /\ Members(queue)' = Members(queue) \ {h}
  <2>1. Members(order)' = Members(order') /\ Members(queue)' = Members(queue')
    BY DEF Members
  <2>2. /\ Known' = Known
        /\ Scanned(phase)' = Scanned(phase)
        /\ \A i : Source(i)' = Source(i) /\ Target(i)' = Target(i)
    BY <1>1 DEF Known, Members, Scanned, ValidEdges, Source, Target
  <2>3. QED BY <2>1, <2>2, <1>3, <1>5
<1>7. phase \in {"validating", "rejected"} \/ ~Malformed
  BY <1>1 DEF Working, DagInv, Ended
<1>8. /\ Scanned(phase) \subseteq DOMAIN edges
      /\ \A i \in Scanned(phase) : Source(i) \in Known /\ Target(i) \in Known
  BY <1>7, ScannedEnds DEF DagInv
<1>9. TypeOK'
  BY <1>1, <1>3, <1>5, <1>6, <1>8 DEF DagInv, TypeOK
<1>10. NoRepeats'
  BY <1>2, <1>3, <1>5, <1>6 DEF NoRepeats, Injective
<1>11. Following'
  BY <1>1, <1>6 DEF Following
<1>12. ASSUME NEW n
       PROVE  Open(n)' = Open(n)
  <2>1. Open(n)' = {i \in Scanned(phase) :
                       /\ Target(i) = n
                       /\ Source(i) \notin Members(order) \cup {h}
                          \/ Source(i) = h}
    BY <1>1, <1>6 DEF Open
  <2>2. Open(n) = {i \in Scanned(phase) :
                       /\ Target(i) = n
                       /\ Source(i) \notin Members(order)}
    BY <1>1 DEF Open
  <2>3. QED BY <2>1, <2>2, <1>4
<1>13. Counted'
  BY <1>1, <1>6, <1>12 DEF DagInv, Counted
<1>14. Queued'
  BY <1>1, <1>3, <1>6 DEF DagInv, Queued
<1>15. OrderIsTopological'
  <2>1. Open(h) = {}
    <3>1. degree[h] = 0
      BY <1>3 DEF DagInv, Queued
    <3>2. Cardinality(Open(h)) = 0
      BY <3>1, <1>3 DEF DagInv, Counted
    <3>3. IsFiniteSet(Open(h))
      BY OpenFinite DEF DagInv
    <3>4. QED BY <3>2, <3>3, FS_EmptySet
  <2>2. ASSUME NEW i \in Scanned(phase), NEW k \in DOMAIN order',
               Target(i) = order'[k]
        PROVE  \E j \in 1 .. k - 1 : order'[j] = Source(i)
    <3>1. CASE k \in DOMAIN order
      <4>1. PICK j \in 1 .. k - 1 : order[j] = Source(i)
        BY <2>2, <3>1, <1>5 DEF DagInv, OrderIsTopological
      <4>2. j \in DOMAIN order
        BY <4>1, <3>1, <1>5
      <4>3. QED BY <4>1, <4>2, <1>5
    <3>2. CASE k = Len(order) + 1
      <4>1. Target(i) = h
        BY <2>2, <3>2, <1>5
      <4>2. Source(i) \in Members(order)
        BY <4>1, <2>1, <2>2 DEF Open
      <4>3. PICK j \in DOMAIN order : Source(i) = order[j]
        BY <4>2 DEF Members
      <4>4. j \in 1 .. k - 1 /\ order'[j] = Source(i)
        BY <4>3, <3>2, <1>5
      <4>5. QED BY <4>4
    <3>3. QED BY <3>1, <3>2, <1>5
  <2>3. \A j, k \in DOMAIN order' : order'[j] = order'[k] => j = k
    BY <1>5 DEF Injective
  <2>4. QED BY <2>2, <2>3, <1>6 DEF OrderIsTopological
<1>16. Ended'
  <2>1. phase' \in {"validating", "sorting"}
    BY <1>1 DEF Working
  <2>2. phase' # "validating" => ~Malformed /\ Ranked
    BY <1>1, <2>1 DEF DagInv, Ended
  <2>3. Malformed' = Malformed /\ Ranked' = Ranked
    BY <1>1, <1>6 DEF Malformed, Ranked, ValidEdges
  <2>4. QED BY <2>1, <2>2, <2>3 DEF Ended
<1>17. QED BY <1>9, <1>10, <1>11, <1>13, <1>14, <1>15, <1>16 DEF DagInv

\* One edge is followed: its target has one open edge less.
LEMMA DagInvRelax == DagInv /\ Relax => DagInv'
<1> SUFFICES ASSUME DagInv, Relax PROVE DagInv'
  OBVIOUS
<1>1. PICK i \in todo :
        /\ todo' = todo \ {i}
        /\ degree' = [degree EXCEPT ![Target(i)] = @ - 1]
        /\ queue' = IF degree[Target(i)] = 1 THEN Append(queue, Target(i))
                                             ELSE queue
  BY DEF Relax
<1>2. Working /\ UNCHANGED <<nodes, edges, phase, order>>
  BY DEF Relax
<1>0. PICK n : n = Target(i)
  OBVIOUS
<1>3. phase \in {"validating", "rejected"} \/ ~Malformed
  BY <1>2 DEF Working, DagInv, Ended
<1>4. i \in Scanned(phase) /\ n \in Known /\ Source(i) \in Members(order)
  BY <1>3, <1>0, ScannedEnds DEF DagInv, Following
<1>5. /\ Known' = Known
      /\ Scanned(phase)' = Scanned(phase)
      /\ \A k : Source(k)' = Source(k) /\ Target(k)' = Target(k)
      /\ Members(order)' = Members(order)
  BY <1>2 DEF Known, Members, Scanned, ValidEdges, Source, Target
<1>6. \A m : m # n => Open(m)' = Open(m)
  BY <1>1, <1>5, <1>0 DEF Open
<1>7. i \in Open(n) /\ Open(n)' = Open(n) \ {i}
  BY <1>1, <1>4, <1>5, <1>0 DEF Open
<1>8. /\ Cardinality(Open(n)') = Cardinality(Open(n)) - 1
      /\ Cardinality(Open(n)) \in Nat
      /\ Cardinality(Open(n)) # 0
  <2>1. IsFiniteSet(Open(n))
    BY OpenFinite DEF DagInv
  <2>2. Cardinality(Open(n)) \in Nat
    BY <2>1, FS_CardinalityType
  <2>3. Cardinality(Open(n) \ {i}) = Cardinality(Open(n)) - 1
    BY <2>1, <1>7, FS_RemoveElement
  <2>4. Cardinality(Open(n)) # 0
    BY <2>1, <1>7, FS_EmptySet
  <2>5. QED BY <2>2, <2>3, <2>4, <1>7
<1>9. degree[n] = Cardinality(Open(n)) /\ degree \in [Known -> Nat]
  BY <1>4 DEF DagInv, Counted, TypeOK
<1>10. /\ degree' \in [Known -> Nat]
       /\ degree'[n] = degree[n] - 1
       /\ \A m \in Known : m # n => degree'[m] = degree[m]
  <2>1. degree' = [degree EXCEPT ![n] = degree[n] - 1]
    BY <1>1, <1>0
  <2>2. degree[n] - 1 \in Nat
    BY <1>8, <1>9
  <2>3. QED BY <2>1, <2>2, <1>4, <1>9
<1>11. n \notin Members(order) \cup Members(queue)
  BY <1>4, <1>8, <1>9 DEF DagInv, Queued
<1>12. /\ queue' \in Seq(Known)
       /\ Injective(queue')
       /\ Members(queue') = IF degree[n] = 1 THEN Members(queue) \cup {n}
                                             ELSE Members(queue)
  <2>1. queue \in Seq(Known) /\ Injective(queue)
    BY DEF DagInv, TypeOK, NoRepeats
  <2>2. CASE degree[n] = 1
    <3>1. queue' = Append(queue, n)
      BY <1>1, <1>0, <2>2
    <3>2. n \notin Members(queue)
      BY <1>11
    <3>3. QED BY <3>1, <3>2, <2>1, <2>2, <1>4, AppendMembers
  <2>3. CASE degree[n] # 1
    BY <1>1, <1>0, <2>1, <2>3
  <2>4. QED BY <2>2, <2>3
<1>13. TypeOK'
  BY <1>1, <1>2, <1>5, <1>10, <1>12 DEF DagInv, TypeOK
<1>14. Members(queue)' = Members(queue')
  BY DEF Members
<1>15. NoRepeats'
  <2>1. Injective(order)' /\ Injective(queue)'
    BY <1>2, <1>12 DEF DagInv, NoRepeats, Injective
  <2>2. (Members(order) \cap Members(queue))' = {}
    BY <1>5, <1>11, <1>12, <1>14 DEF DagInv, NoRepeats
  <2>3. QED BY <2>1, <2>2 DEF NoRepeats
<1>16. Following'
  BY <1>1, <1>5 DEF DagInv, Following
<1>17. Counted'
  <2>1. ASSUME NEW m \in Known
        PROVE  degree'[m] = Cardinality(Open(m)')
    <3>1. CASE m = n
      BY <3>1, <1>8, <1>9, <1>10
    <3>2. CASE m # n
      BY <3>2, <1>6, <1>10 DEF DagInv, Counted
    <3>3. QED BY <3>1, <3>2
  <2>2. QED BY <2>1, <1>5 DEF Counted
<1>18. Queued'
  <2>1. ASSUME NEW m \in Known
        PROVE  m \in Members(order) \cup Members(queue') <=> degree'[m] = 0
    <3>1. CASE m = n
      <4>1. CASE degree[n] = 1
        BY <3>1, <4>1, <1>10, <1>12
      <4>2. CASE degree[n] # 1
        BY <3>1, <4>2, <1>4, <1>9, <1>10, <1>11, <1>12
      <4>3. QED BY <4>1, <4>2
    <3>2. CASE m # n
      BY <3>2, <1>10, <1>12 DEF DagInv, Queued
    <3>3. QED BY <3>1, <3>2
  <2>2. QED BY <2>1, <1>5, <1>14 DEF Queued
<1>19. OrderIsTopological'
  BY <1>2, <1>5 DEF DagInv, OrderIsTopological
<1>20. Ended'
  <2>1. phase' \in {"validating", "sorting"}
    BY <1>2 DEF Working
  <2>2. phase' # "validating" => ~Malformed /\ Ranked
    BY <1>2, <2>1 DEF DagInv, Ended
  <2>3. Malformed' = Malformed /\ Ranked' = Ranked
    BY <1>2, <1>5 DEF Malformed, Ranked, ValidEdges
  <2>4. QED BY <2>1, <2>2, <2>3 DEF Ended
<1>21. QED BY <1>13, <1>15, <1>16, <1>17, <1>18, <1>19, <1>20 DEF DagInv

LEMMA DagInvStep == DagInv /\ [Next]_vars => DagInv'
<1> SUFFICES ASSUME DagInv, [Next]_vars PROVE DagInv'
  OBVIOUS
<1>1. CASE Pop
  BY <1>1, DagInvPop
<1>2. CASE Relax
  BY <1>2, DagInvRelax
<1>3. CASE Verdict
  BY <1>3, DagInvVerdict
<1>4. CASE Sort
  BY <1>4, DagInvSort
<1>5. CASE Return
  BY <1>5, DagInvReturn
<1>6. CASE UNCHANGED vars
  <2>1. UNCHANGED <<nodes, edges, phase, degree, queue, todo, order>>
    BY <1>6 DEF vars
  <2>2. /\ Known' = Known
        /\ Scanned(phase)' = Scanned(phase)
        /\ \A i : Source(i)' = Source(i) /\ Target(i)' = Target(i)
        /\ Members(order)' = Members(order)
        /\ Members(queue)' = Members(queue)
        /\ Malformed' = Malformed
        /\ Ranked' = Ranked
        /\ Drained' = Drained
    BY <2>1
    DEF Known, Members, Scanned, ValidEdges, Source, Target, Malformed,
        Ranked, Drained
  <2>3. \A n : Open(n)' = Open(n)
    BY <2>1, <2>2 DEF Open
  <2>4. TypeOK'
    BY <2>1, <2>2 DEF DagInv, TypeOK
  <2>5. NoRepeats' /\ Following' /\ Counted' /\ Queued'
    BY <2>1, <2>2, <2>3 DEF DagInv, NoRepeats, Following, Counted, Queued,
                            Injective
  <2>6. OrderIsTopological'
    BY <2>1, <2>2 DEF DagInv, OrderIsTopological
  <2>7. Ended'
    BY <2>1, <2>2 DEF DagInv, Ended
  <2>8. QED BY <2>4, <2>5, <2>6, <2>7 DEF DagInv
<1>7. QED BY <1>1, <1>2, <1>3, <1>4, <1>5, <1>6 DEF Next

\* The invariant holds in every state of every graph's life.
THEOREM DagInvariant == Spec => []DagInv
<1>1. QED BY DagInvInit, DagInvStep, PTL DEF Spec

-----------------------------------------------------------------------------
(* What follows for the properties.                                        *)

\* For lists of any length: in_degree never drops below zero, and queue and
\* order hold nodes of the graph.
THEOREM DagTypes == Spec => []TypeOK
<1>1. DagInv => TypeOK
  BY DEF DagInv
<1>2. QED BY <1>1, DagInvariant, PTL

\* For lists of any length: no node is taken twice, and none before the source
\* of an edge into it.
THEOREM DagOrder == Spec => []OrderIsTopological
<1>1. DagInv => OrderIsTopological
  BY DEF DagInv
<1>2. QED BY <1>1, DagInvariant, PTL

\* A graph that is published, or an order that is returned, has every node and
\* every edge of the request, and the order is one FlowRun can be run with.
THEOREM DagComplete == Spec => []Complete
<1>1. ASSUME DagInv, phase \in {"published", "ordered"}
      PROVE  /\ Members(order) = Known
             /\ Len(order) = Cardinality(Known)
             /\ Scanned(phase) = DOMAIN edges
             /\ Len(nodes) = Cardinality(Known)
             /\ IsOrder(Place, Known, Members(edges))
  <2>1. ~Malformed /\ Len(order) = Len(nodes)
    BY <1>1 DEF DagInv, Ended
  <2>2. /\ Members(order) = Known
        /\ Len(order) = Cardinality(Known)
        /\ IsOrder(Place, Known, Members(edges))
    BY <1>1, <2>1, OrderRanks
  <2>3. Scanned(phase) = DOMAIN edges
    BY <2>1 DEF Scanned, Malformed
  <2>4. QED BY <2>1, <2>2, <2>3
<1>2. DagInv => Complete
  BY <1>1 DEF Complete
<1>3. QED BY <1>2, DagInvariant, PTL

\* What is left when the worklist is empty: of each node that is not in the
\* order, an edge comes from another such node.
LEMMA LeftHasCycle ==
    ASSUME DagInv, Drained, ~Malformed, Len(order) # Len(nodes)
    PROVE  /\ Known \ Members(order) # {}
           /\ \A n \in Known \ Members(order) : \E i \in DOMAIN edges :
                 Target(i) = n /\ Source(i) \in Known \ Members(order)
<1>1. Members(queue) = {}
  BY DEF Drained, Members
<1>2. Known \ Members(order) # {}
  <2>1. Injective(nodes)
    BY DEF Malformed, Injective
  <2>2. Cardinality(Known) = Len(nodes)
    BY <2>1, LengthCounts DEF DagInv, TypeOK, Known
  <2>3. Cardinality(Members(order)) = Len(order)
    BY LengthCounts DEF DagInv, TypeOK, NoRepeats
  <2>4. Members(order) \subseteq Known
    BY LenProperties DEF DagInv, TypeOK, Members
  <2>5. Members(order) # Known
    BY <2>2, <2>3
  <2>6. QED BY <2>4, <2>5
<1>3. ASSUME NEW n \in Known \ Members(order)
      PROVE  \E i \in DOMAIN edges :
                Target(i) = n /\ Source(i) \in Known \ Members(order)
  <2>1. degree[n] # 0
    BY <1>1, <1>3 DEF DagInv, Queued
  <2>2. Cardinality(Open(n)) # 0
    BY <1>3, <2>1 DEF DagInv, Counted
  <2>3. Open(n) # {}
    BY <2>2, FS_EmptySet
  <2>4. PICK i \in Open(n) : TRUE
    BY <2>3
  <2>5. i \in Scanned(phase) /\ Target(i) = n /\ Source(i) \notin Members(order)
    BY <2>4 DEF Open, Drained
  <2>6. i \in DOMAIN edges /\ Source(i) \in Known
    BY <2>5, ScannedEnds DEF DagInv
  <2>7. QED BY <2>5, <2>6
<1>4. QED BY <1>2, <1>3

\* A graph without repeated ids, unknown ends and loops is rejected only if it
\* has a cycle.
THEOREM DagRejection == Spec => []RejectedForCycle
<1>1. ASSUME DagInv, phase = "rejected", ~Malformed
      PROVE  /\ Known \ Members(order) # {}
             /\ \A n \in Known \ Members(order) : \E i \in DOMAIN edges :
                   Target(i) = n /\ Source(i) \in Known \ Members(order)
  <2>1. Drained /\ Len(order) # Len(nodes)
    BY <1>1 DEF DagInv, Ended
  <2>2. QED BY <1>1, <2>1, LeftHasCycle
<1>2. DagInv => RejectedForCycle
  BY <1>1 DEF RejectedForCycle
<1>3. QED BY <1>2, DagInvariant, PTL

\* The engine's sort of a graph the validator let pass never raises: the nodes
\* left would include one of least rank, and an edge into it from a lower one.
THEOREM DagSortable == Spec => []PublishedIsSortable
<1>1. ASSUME DagInv, phase = "raised"
      PROVE  FALSE
  <2>1. Drained /\ ~Malformed /\ Ranked /\ Len(order) # Len(nodes)
    BY <1>1 DEF DagInv, Ended
  <2> DEFINE left == Known \ Members(order)
  <2>2. /\ left # {}
        /\ \A n \in left : \E i \in DOMAIN edges :
              Target(i) = n /\ Source(i) \in left
    BY <1>1, <2>1, LeftHasCycle
  <2>3. PICK r \in [Known -> Nat] :
            \A i \in DOMAIN edges : r[Source(i)] < r[Target(i)]
    BY <2>1 DEF Ranked
  <2>4. left \subseteq Known
    OBVIOUS
  <2> HIDE DEF left
  <2>5. PICK n \in left : \A m \in left : ~ (r[m] < r[n])
    BY <2>2, <2>3, <2>4, LeastRank
  <2>6. PICK i \in DOMAIN edges : Target(i) = n /\ Source(i) \in left
    BY <2>2, <2>5
  <2>7. QED BY <2>3, <2>5, <2>6
<1>2. DagInv => PublishedIsSortable
  BY <1>1 DEF PublishedIsSortable
<1>3. QED BY <1>2, DagInvariant, PTL

=============================================================================
