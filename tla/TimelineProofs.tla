--------------------------- MODULE TimelineProofs ---------------------------
(***************************************************************************)
(* Proofs about Timeline for any turns, requests, workers and bounds: that *)
(* tables and executions agree on what answered a turn, that a run and an  *)
(* extraction are worked on once, how a finished run is overwritten, and   *)
(* that what the reconciler leaves behind stays so.                        *)
(***************************************************************************)
EXTENDS Timeline, WellFoundedInduction, SequenceTheorems, TLAPS

-----------------------------------------------------------------------------
(* The inductive invariant.                                                *)

\* What rows refer to exists: a bound plan version, the turn and plan of a run,
\* the run of an extraction.
RowsInv ==
    /\ \A p \in Plans : plan[p].t # NoTurn => plan[p].st # "absent"
    /\ \A r \in Runs : run[r].st # "absent" =>
          run[r].t \in Turns /\ run[r].p \in Plans /\ plan[run[r].p].t = run[r].t
    /\ \A r \in Runs : ext[r] # "absent" => run[r].st # "absent"

\* What a request or a planning worker has read and still relies on.
ReadersInv ==
    /\ \A c \in Clients :
         /\ client[c].pc = "submitting" =>
               /\ client[c].t \in Turns /\ client[c].p \in Plans
               /\ plan[client[c].p].t = client[c].t
         /\ client[c].pc = "cancelling" =>
               client[c].r \in Runs /\ run[client[c].r].st # "absent"
    /\ \A w \in Workers :
         /\ work[w].pc \in PlanStages => work[w].t \in Turns
         /\ work[w].pc = "binding" =>
               /\ work[w].p \in Plans
               /\ plan[work[w].p].st # "absent" /\ plan[work[w].p].t = NoTurn
    /\ \A v, w \in Workers :
         v # w /\ work[v].pc = "binding" /\ work[w].pc = "binding"
            => work[v].p # work[w].p

\* What the execution of a run, or of an extraction, relies on: its run was
\* claimed and has not answered anything yet.
Executes(w) ==
    /\ work[w].r \in Runs
    /\ run[work[w].r].st \notin {"absent", "queued"}
    /\ work[w].t = run[work[w].r].t
    /\ work[w].p = run[work[w].r].p
    /\ \A t \in Turns : result[t] # work[w].r
    /\ ext[work[w].r] = "absent"
    /\ work[w].pc \in {"completing", "finishing"} => work[w].p \in analysed

ExecutionsInv ==
    \A w \in Workers :
       /\ work[w].pc \in RunStages => Executes(w)
       /\ work[w].pc \in ExtStages =>
             work[w].r \in Runs /\ ext[work[w].r] \notin {"absent", "queued"}

IInv == /\ TypeOK /\ RowsInv /\ ReadersInv
        /\ ResultInv /\ PaidOnce /\ ExecutionsInv

-----------------------------------------------------------------------------
(* Types.                                                                  *)

\* ORDER BY version_number DESC LIMIT 1 finds a row when there is one.
LEMMA LatestExists ==
    ASSUME NEW S, S \subseteq Plans, S # {}
    PROVE  Latest(S) \in S
  <1> USE TimelineAssumption
  <1> DEFINE T == {MaxPlans - p : p \in S}
  <1>1. T \subseteq Nat /\ T # {}
    <2>1. \A p \in S : p \in Nat /\ p <= MaxPlans
      BY DEF Plans
    <2>2. \A p \in S : MaxPlans - p \in Nat
      BY <2>1
    <2> QED
      BY <2>2
  <1>2. PICK x \in T : \A y \in T : <<y, x>> \notin OpToRel(<, Nat)
    <2> HIDE DEF T
    <2> QED
      BY <1>1, NatLessThanWellFounded, WFMin
  <1>3. \A y \in T : ~(y < x)
    BY <1>1, <1>2 DEF OpToRel
  <1>4. PICK p \in S : x = MaxPlans - p
    OBVIOUS
  <1>5. \A q \in S : q <= p
    <2> SUFFICES ASSUME NEW q \in S PROVE q <= p
      OBVIOUS
    <2>1. p \in Nat /\ q \in Nat
      BY DEF Plans
    <2>2. ~(MaxPlans - q < MaxPlans - p)
      BY <1>3, <1>4
    <2> QED
      BY <2>1, <2>2
  <1> QED
    BY <1>5 DEF Latest

\* Events and messages.
LEMMA TaskTypes ==
    /\ \A t \in Turns : PlanTask(t) \in Tasks
    /\ \A r \in Runs : RunTask(r) \in Tasks /\ ExtTask(r) \in Tasks
  BY DEF Tasks

LEMMA QueueTypes ==
    ASSUME TypeOK
    PROVE  /\ \A m \in Tasks \cup {DeadEvent} :
                Append(outbox, m) \in Seq(Tasks \cup {DeadEvent})
           /\ \A m \in Tasks : Took(m) => msgs' \in [Tasks -> Nat]
           /\ \A m : [msgs EXCEPT ![m] = @ + 1] \in [Tasks -> Nat]
           /\ \A k \in FaultKinds : Spend(k) => used' \in [FaultKinds -> Nat]
  <1>1. \A m \in Tasks \cup {DeadEvent} :
           Append(outbox, m) \in Seq(Tasks \cup {DeadEvent})
    BY DEF TypeOK
  <1>2. \A m \in Tasks : Took(m) => msgs' \in [Tasks -> Nat]
    <2> SUFFICES ASSUME NEW m \in Tasks, Took(m) PROVE msgs' \in [Tasks -> Nat]
      OBVIOUS
    <2>1. msgs[m] - 1 \in Nat
      BY DEF Took, TypeOK
    <2> QED
      BY <2>1 DEF Took, TypeOK
  <1>3. \A m : [msgs EXCEPT ![m] = @ + 1] \in [Tasks -> Nat]
    <2> SUFFICES ASSUME NEW m PROVE [msgs EXCEPT ![m] = @ + 1] \in [Tasks -> Nat]
      OBVIOUS
    <2>1. CASE m \in Tasks
      <3>1. msgs[m] + 1 \in Nat
        BY <2>1 DEF TypeOK
      <3> QED
        BY <3>1 DEF TypeOK
    <2>2. CASE m \notin Tasks
      BY <2>2 DEF TypeOK
    <2> QED
      BY <2>1, <2>2
  <1>4. \A k \in FaultKinds : Spend(k) => used' \in [FaultKinds -> Nat]
    BY DEF TypeOK, Spend
  <1> QED
    BY <1>1, <1>2, <1>3, <1>4

\* Sending an event takes it out of the sequence.
LEMMA SendShape ==
    ASSUME NEW S, NEW q \in Seq(S), NEW i \in DOMAIN q
    PROVE  /\ RemoveAt(q, i) \in Seq(S)
           /\ Len(RemoveAt(q, i)) = Len(q) - 1
           /\ \A k \in 1 .. (Len(q) - 1) :
                RemoveAt(q, i)[k] = IF k < i THEN q[k] ELSE q[k + 1]
  <1>1. /\ SubSeq(q, 1, i - 1) \in Seq(S) /\ Len(SubSeq(q, 1, i - 1)) = i - 1
        /\ SubSeq(q, i + 1, Len(q)) \in Seq(S)
        /\ Len(SubSeq(q, i + 1, Len(q))) = Len(q) - i
    OBVIOUS
  <1> DEFINE a == SubSeq(q, 1, i - 1)
             b == SubSeq(q, i + 1, Len(q))
  <1>2. /\ \A k \in 1 .. (i - 1) : a[k] = q[k]
        /\ \A k \in 1 .. (Len(q) - i) : b[k] = q[k + i]
    OBVIOUS
  <1>3. RemoveAt(q, i) = a \o b
    BY DEF RemoveAt
  <1>4. i \in 1 .. Len(q)
    OBVIOUS
  <1> HIDE DEF a, b
  <1>5. a \in Seq(S) /\ b \in Seq(S) /\ Len(a) = i - 1 /\ Len(b) = Len(q) - i
    BY <1>1 DEF a, b
  <1>6. /\ a \o b \in Seq(S)
        /\ Len(a \o b) = Len(a) + Len(b)
        /\ \A k \in 1 .. (Len(a) + Len(b)) :
             (a \o b)[k] = IF k <= Len(a) THEN a[k] ELSE b[k - Len(a)]
    BY <1>5, ConcatProperties
  <1>7. Len(a) + Len(b) = Len(q) - 1
    BY <1>4, <1>5
  <1>8. ASSUME NEW k \in 1 .. (Len(q) - 1)
        PROVE  (a \o b)[k] = IF k < i THEN q[k] ELSE q[k + 1]
    <2>1. CASE k < i
      <3>1. k <= Len(a) /\ k \in 1 .. (i - 1)
        BY <1>4, <1>5, <2>1
      <3>2. (a \o b)[k] = a[k]
        BY <1>6, <1>7, <3>1
      <3> QED
        BY <1>2, <2>1, <3>1, <3>2
    <2>2. CASE ~(k < i)
      <3>1. ~(k <= Len(a))
        BY <1>4, <1>5, <2>2
      <3>2. (a \o b)[k] = b[k - Len(a)]
        BY <1>6, <1>7, <3>1
      <3>3. k - (i - 1) \in 1 .. (Len(q) - i) /\ k - (i - 1) + i = k + 1
        BY <1>4, <2>2
      <3> QED
        BY <1>2, <1>5, <2>2, <3>2, <3>3
    <2> QED
      BY <2>1, <2>2
  <1> QED
    BY <1>3, <1>6, <1>7, <1>8

\* A worker step writes one field, or the whole, of an execution.
LEMMA ExecutionTypes ==
    /\ IdleWorker \in Execution
    /\ IdleClient \in Request
    /\ \A e \in Execution : \A s \in Stages : [e EXCEPT !.pc = s] \in Execution
  BY DEF IdleWorker, IdleClient, Execution, Request, Stages

\* An execution is rewritten field by field.
LEMMA RewrittenTypes ==
    ASSUME NEW e \in Execution, NEW s \in Stages
    PROVE  /\ \A p \in Plans : [e EXCEPT !.pc = s, !.p = p] \in Execution
           /\ \A t \in Turns : [e EXCEPT !.pc = s, !.t = t] \in Execution
           /\ \A r \in Runs : \A t \in Turns \cup {NoTurn} : \A p \in Plans \cup {0} :
                [e EXCEPT !.pc = s, !.r = r, !.t = t, !.p = p] \in Execution
  BY DEF Execution

\* The two reads of the newest plan version find one.
LEMMA NewestPlans ==
    ASSUME IInv
    PROVE  /\ \A t : ConfirmedPlansOf(t) # {} =>
                /\ Latest(ConfirmedPlansOf(t)) \in Plans
                /\ plan[Latest(ConfirmedPlansOf(t))].t = t
           /\ \A r \in Runs : ext[r] # "absent" =>
                /\ run[r].t \in Turns
                /\ Latest(PlansOf(run[r].t)) \in Plans
  <1>1. ASSUME NEW t, ConfirmedPlansOf(t) # {}
        PROVE  /\ Latest(ConfirmedPlansOf(t)) \in Plans
               /\ plan[Latest(ConfirmedPlansOf(t))].t = t
    <2>1. ConfirmedPlansOf(t) \subseteq Plans
      BY DEF ConfirmedPlansOf, PlansOf
    <2>2. Latest(ConfirmedPlansOf(t)) \in ConfirmedPlansOf(t)
      BY <1>1, <2>1, LatestExists
    <2> QED
      BY <2>2 DEF ConfirmedPlansOf, PlansOf
  <1>2. ASSUME NEW r \in Runs, ext[r] # "absent"
        PROVE  run[r].t \in Turns /\ Latest(PlansOf(run[r].t)) \in Plans
    <2>1. run[r].t \in Turns /\ run[r].p \in PlansOf(run[r].t)
      BY <1>2 DEF IInv, RowsInv, PlansOf
    <2>2. PlansOf(run[r].t) \subseteq Plans
      BY DEF PlansOf
    <2> QED
      BY <2>1, <2>2, LatestExists
  <1> QED
    BY <1>1, <1>2

\* The API process keeps the types.
LEMMA ClientTypes ==
    ASSUME IInv,
           \/ \E t \in Turns : StartPlanning(t) \/ ConfirmPlan(t)
           \/ \E c \in Clients : \/ \E t \in Turns : SubmitReads(c, t)
                                 \/ \E r \in Runs : CancelReads(c, r)
                                 \/ Answers(c)
    PROVE  TypeOK'
  <1> USE TaskTypes, QueueTypes, ExecutionTypes
  <1>0. TypeOK /\ RowsInv /\ ReadersInv
    BY DEF IInv
  <1>1. ASSUME NEW t \in Turns, StartPlanning(t) PROVE TypeOK'
    BY <1>0, <1>1 DEF StartPlanning, TypeOK, Enqueue, TurnStatus
  <1>2. ASSUME NEW t \in Turns, ConfirmPlan(t) PROVE TypeOK'
    <2>1. \A row \in PlanRow : [row EXCEPT !.st = "confirmed"] \in PlanRow
      BY DEF PlanRow
    <2>2. plan' \in [Plans -> PlanRow]
      BY <1>0, <1>2, <2>1 DEF ConfirmPlan, PlansOf, TypeOK
    <2>3. turn' \in [Turns -> TurnStatus]
      BY <1>0, <1>2 DEF ConfirmPlan, TypeOK, TurnStatus
    <2> QED
      BY <1>0, <1>2, <2>2, <2>3 DEF ConfirmPlan, TypeOK
  <1>3. ASSUME NEW c \in Clients, NEW t \in Turns, SubmitReads(c, t) PROVE TypeOK'
    <2>1. Latest(ConfirmedPlansOf(t)) \in Plans
      BY <1>3, NewestPlans DEF SubmitReads
    <2> DEFINE p == Latest(ConfirmedPlansOf(t))
    <2>2. [IdleClient EXCEPT !.pc = "submitting", !.t = t, !.p = p] \in Request
      BY <2>1 DEF IdleClient, Request
    <2> QED
      BY <1>0, <1>3, <2>2 DEF SubmitReads, TypeOK, data
  <1>4. ASSUME NEW c \in Clients, NEW r \in Runs, CancelReads(c, r) PROVE TypeOK'
    <2>1. [IdleClient EXCEPT !.pc = "cancelling", !.r = r] \in Request
      BY DEF IdleClient, Request
    <2>2. "cancel" \in FaultKinds
      BY DEF FaultKinds
    <2> QED
      BY <1>0, <1>4, <2>1, <2>2 DEF CancelReads, TypeOK, data
  <1>5. ASSUME NEW c \in Clients, SubmitWrites(c) PROVE TypeOK'
    <2>1. PICK r \in NextRun :
             /\ run' = [run EXCEPT ![r] = [st |-> "queued", t |-> client[c].t,
                                           p |-> client[c].p]]
             /\ Enqueue(RunTask(r))
      BY <1>5 DEF SubmitWrites
    <2>2. r \in Runs
      BY DEF NextRun
    <2>3. [st |-> "queued", t |-> client[c].t, p |-> client[c].p] \in RunRow
      BY <1>0, <1>5 DEF SubmitWrites, ReadersInv, RunRow
    <2> QED
      BY <1>0, <1>5, <2>1, <2>2, <2>3 DEF SubmitWrites, TypeOK, Enqueue, TurnStatus
  <1>6. ASSUME NEW c \in Clients, CancelWrites(c) PROVE TypeOK'
    <2>1. \A row \in RunRow : [row EXCEPT !.st = "cancelled"] \in RunRow
      BY DEF RunRow
    <2>2. run' \in [Runs -> RunRow]
      BY <1>0, <1>6, <2>1 DEF CancelWrites, TypeOK
    <2> QED
      BY <1>0, <1>6, <2>2 DEF CancelWrites, TypeOK
  <1>7. ASSUME NEW c \in Clients, RequestFails(c) PROVE TypeOK'
    BY <1>0, <1>7 DEF RequestFails, TypeOK, data
  <1> QED
    BY <1>1, <1>2, <1>3, <1>4, <1>5, <1>6, <1>7 DEF Answers

\* So do the dispatcher, the broker and the reconciler.
LEMMA CarrierTypes ==
    ASSUME IInv,
           \/ \E m \in Tasks : Dispatch(m) \/ DispatchTwice(m) \/ LoseMessage(m)
           \/ \E r \in Runs : Reconciles(r)
    PROVE  TypeOK'
  <1> USE TaskTypes, QueueTypes
  <1>0. TypeOK /\ "crash" \in FaultKinds /\ "drop" \in FaultKinds
    BY DEF IInv, FaultKinds
  <1>1. ASSUME NEW m \in Tasks, Dispatch(m) PROVE TypeOK'
    <2>1. PICK i \in Sendable : outbox' = RemoveAt(outbox, i)
      BY <1>1 DEF Dispatch
    <2>2. outbox' \in Seq(Tasks \cup {DeadEvent})
      BY <1>0, <2>1, SendShape DEF Sendable, TypeOK
    <2> QED
      BY <1>0, <1>1, <2>2 DEF Dispatch, TypeOK, data
  <1>2. ASSUME NEW m \in Tasks, DispatchTwice(m) PROVE TypeOK'
    BY <1>0, <1>2 DEF DispatchTwice, TypeOK, data
  <1>3. ASSUME NEW m \in Tasks, LoseMessage(m) PROVE TypeOK'
    BY <1>0, <1>3 DEF LoseMessage, TypeOK, data
  <1>4. ASSUME NEW r \in Runs, Reconciles(r) PROVE TypeOK'
    <2>1. CASE ReconcileRunning(r)
      BY <1>0, <2>1 DEF ReconcileRunning, TypeOK, RunRow
    <2>2. CASE ReconcileExtracting(r)
      BY <1>0, <2>2 DEF ReconcileExtracting, TypeOK, ExtStatus
    <2>3. CASE ReconcileQueued(r)
      BY <1>0, <2>3 DEF ReconcileQueued, TypeOK, Enqueue, data
    <2> QED
      BY <1>4, <2>1, <2>2, <2>3 DEF Reconciles
  <1> QED
    BY <1>1, <1>2, <1>3, <1>4

\* So do the worker tasks.
LEMMA WorkerTypes ==
    ASSUME IInv,
           \/ \E m \in Tasks : Receives(m)
           \/ \E w \in Workers : Works(w) \/ Crash(w) \/ TaskDies(w)
    PROVE  TypeOK'
  <1> USE TaskTypes, QueueTypes, ExecutionTypes
  <1>0. TypeOK /\ "crash" \in FaultKinds /\ "timeout" \in FaultKinds
    BY DEF IInv, FaultKinds
  <1>1. ASSUME NEW w \in Workers, NEW t \in Turns, PlanStarts(w, t) PROVE TypeOK'
    <2>1. "generating" \in Stages
      BY DEF Stages
    <2>2. [IdleWorker EXCEPT !.pc = "generating", !.t = t] \in Execution
      BY <2>1, RewrittenTypes
    <2> QED
      BY <1>0, <1>1, <2>2 DEF PlanStarts, TypeOK, data
  <1>2. ASSUME NEW w \in Workers, NEW t \in Turns, PlanExists(w, t) PROVE TypeOK'
    BY <1>0, <1>2 DEF PlanExists, TypeOK, TurnStatus
  <1>3. ASSUME NEW w \in Workers, NEW r \in Runs, RunStarts(w, r) PROVE TypeOK'
    <2>0. "analysing" \in Stages /\ run[r].t \in Turns \cup {NoTurn}
                                 /\ run[r].p \in Plans \cup {0}
      BY <1>0 DEF Stages, TypeOK, RunRow
    <2>1. [IdleWorker EXCEPT !.pc = "analysing", !.r = r, !.t = run[r].t,
                             !.p = run[r].p] \in Execution
      BY <2>0, RewrittenTypes
    <2>2. run' \in [Runs -> RunRow]
      <3>1. \A row \in RunRow : [row EXCEPT !.st = "running"] \in RunRow
        BY DEF RunRow
      <3> QED
        BY <1>0, <1>3, <3>1 DEF RunStarts, TypeOK
    <2> QED
      BY <1>0, <1>3, <2>1, <2>2 DEF RunStarts, TypeOK
  <1>4. ASSUME NEW w \in Workers, NEW r \in Runs, RunSkipped(w, r) PROVE TypeOK'
    BY <1>0, <1>4 DEF RunSkipped, TypeOK, data
  <1>5. ASSUME NEW w \in Workers, NEW r \in Runs, ExtStarts(w, r) PROVE TypeOK'
    <2>1. run[r].t \in Turns /\ Latest(PlansOf(run[r].t)) \in Plans
      BY <1>5, NewestPlans DEF ExtStarts, ExtClaimable
    <2> DEFINE p == Latest(PlansOf(run[r].t))
    <2>2. [IdleWorker EXCEPT !.pc = "extracting", !.r = r, !.t = run[r].t, !.p = p]
             \in Execution
      <3>1. "extracting" \in Stages
        BY DEF Stages
      <3> QED
        BY <2>1, <3>1, RewrittenTypes
    <2>3. ext' \in [Runs -> ExtStatus]
      BY <1>0, <1>5 DEF ExtStarts, TypeOK, ExtStatus
    <2> QED
      BY <1>0, <1>5, <2>2, <2>3 DEF ExtStarts, TypeOK
  <1>6. ASSUME NEW w \in Workers, NEW r \in Runs, ExtSkipped(w, r) PROVE TypeOK'
    BY <1>0, <1>6 DEF ExtSkipped, TypeOK, data
  <1>7. ASSUME NEW w \in Workers, Works(w) PROVE TypeOK'
    <2>0. /\ work[w] \in Execution
          /\ work[w].r \in Runs \cup {0} /\ work[w].t \in Turns \cup {NoTurn}
          /\ work[w].p \in Plans \cup {0}
      BY <1>0 DEF TypeOK, Execution
    <2>1. CASE PlanGenerated(w)
      <3>1. PICK p \in NextPlan :
               /\ plan' = [q \in Plans |-> IF q = p THEN [st |-> "draft", t |-> NoTurn]
                                                    ELSE Superseded(plan[q])]
               /\ work' = [work EXCEPT ![w].pc = "binding", ![w].p = p]
        BY <2>1 DEF PlanGenerated
      <3>2. p \in Plans
        BY DEF NextPlan
      <3>3. \A q \in Plans : Superseded(plan[q]) \in PlanRow
        BY <1>0 DEF TypeOK, PlanRow, Superseded
      <3>4. [st |-> "draft", t |-> NoTurn] \in PlanRow
        BY DEF PlanRow
      <3>5. plan' \in [Plans -> PlanRow]
        BY <3>1, <3>3, <3>4
      <3>6. [work[w] EXCEPT !.pc = "binding", !.p = p] \in Execution
        <4>1. "binding" \in Stages
          BY DEF Stages
        <4> QED
          BY <2>0, <3>2, <4>1, RewrittenTypes
      <3>7. work' \in [Workers -> Execution]
        BY <1>0, <3>1, <3>6 DEF TypeOK
      <3> QED
        BY <1>0, <2>1, <3>5, <3>7 DEF PlanGenerated, TypeOK
    <2>2. CASE PlanRefused(w)
      BY <1>0, <2>2 DEF PlanRefused, Stage, TypeOK, data, Stages
    <2>3. CASE PlanBinds(w)
      BY <1>0, <2>0, <2>3 DEF PlanBinds, Acknowledge, TypeOK, TurnStatus, PlanRow
    <2>4. CASE PlanFails(w)
      BY <1>0, <2>4 DEF PlanFails, Acknowledge, TypeOK, TurnStatus
    <2>5. CASE Analysed(w)
      <3>1. work[w].p \in Plans
        BY <2>5 DEF Analysed, IInv, ExecutionsInv, RunStages, Executes, RowsInv
      <3> QED
        BY <1>0, <2>5, <3>1 DEF Analysed, Stage, TypeOK, Stages
    <2>6. CASE AnalysisFails(w)
      BY <1>0, <2>6 DEF AnalysisFails, Stage, TypeOK, data, Stages
    <2>7. CASE CompleteReads(w)
      <3>1. /\ [work[w] EXCEPT !.pc = "finishing"] \in Execution
            /\ [work[w] EXCEPT !.pc = "failing"] \in Execution
        BY <2>0 DEF Stages
      <3>2. \/ Acknowledge(w) \/ Stage(w, "finishing") \/ Stage(w, "failing")
        BY <2>7 DEF CompleteReads
      <3>3. work' \in [Workers -> Execution]
        BY <1>0, <3>1, <3>2 DEF Stage, Acknowledge, TypeOK
      <3> QED
        BY <1>0, <2>7, <3>3 DEF CompleteReads, TypeOK, data
    <2>8. CASE CompleteWrites(w)
      <3>1. work[w].r \in Runs
        BY <2>8 DEF CompleteWrites, IInv, ExecutionsInv, RunStages, Executes
      <3>2. run' \in [Runs -> RunRow]
        <4>1. \A row \in RunRow : [row EXCEPT !.st = "succeeded"] \in RunRow
          BY DEF RunRow
        <4> QED
          BY <1>0, <2>8, <3>1, <4>1 DEF CompleteWrites, TypeOK
      <3>5. ext' \in [Runs -> ExtStatus]
        BY <1>0, <2>8 DEF CompleteWrites, TypeOK, ExtStatus
      <3>3. turn' \in [Turns -> TurnStatus] /\ result' \in [Turns -> Runs \cup {0}]
        BY <1>0, <2>8, <3>1 DEF CompleteWrites, TypeOK, TurnStatus
      <3>4. /\ outbox' \in Seq(Tasks \cup {DeadEvent})
            /\ work' \in [Workers -> Execution]
        BY <1>0, <2>8, <3>1 DEF CompleteWrites, TypeOK, Enqueue, Acknowledge
      <3> QED
        BY <1>0, <2>8, <3>2, <3>3, <3>4, <3>5 DEF CompleteWrites, TypeOK
    <2>9. CASE CompleteFails(w)
      BY <1>0, <2>9 DEF CompleteFails, Stage, TypeOK, data, Stages
    <2>10. CASE FailWrites(w)
      <3>1. \A row \in RunRow : [row EXCEPT !.st = "failed"] \in RunRow
        BY DEF RunRow
      <3>2. run' \in [Runs -> RunRow]
        BY <1>0, <2>10, <3>1 DEF FailWrites, TypeOK
      <3>3. turn' \in [Turns -> TurnStatus]
        BY <1>0, <2>10 DEF FailWrites, TypeOK, TurnStatus
      <3>4. work' \in [Workers -> Execution]
        BY <1>0, <2>10 DEF FailWrites, Acknowledge, TypeOK
      <3> QED
        BY <1>0, <2>10, <3>2, <3>3, <3>4 DEF FailWrites, TypeOK
    <2>11. CASE Extracted(w)
      BY <1>0, <2>11 DEF Extracted, Stage, TypeOK, data, Stages
    <2>12. CASE ExtractFails(w)
      BY <1>0, <2>12 DEF ExtractFails, Stage, TypeOK, data, Stages
    <2>13. CASE ExtSettles(w)
      BY <1>0, <2>13 DEF ExtSettles, Acknowledge, TypeOK, ExtStatus
    <2> QED
      BY <1>7, <2>1, <2>2, <2>3, <2>4, <2>5, <2>6, <2>7, <2>8, <2>9, <2>10, <2>11,
         <2>12, <2>13 DEF Works
  <1>8. ASSUME NEW w \in Workers, Crash(w) PROVE TypeOK'
    BY <1>0, <1>8 DEF Crash, Acknowledge, TypeOK, data
  <1>9. ASSUME NEW w \in Workers, TaskDies(w) PROVE TypeOK'
    BY <1>0, <1>9 DEF TaskDies, Acknowledge, TypeOK, data
  <1> QED
    BY <1>1, <1>2, <1>3, <1>4, <1>5, <1>6, <1>7, <1>8, <1>9 DEF Receives

LEMMA NextTypes == IInv /\ [Next]_vars => TypeOK'
  <1> SUFFICES ASSUME IInv, [Next]_vars PROVE TypeOK'
    OBVIOUS
  <1>1. CASE UNCHANGED vars
    BY <1>1 DEF vars, IInv, TypeOK
  <1> QED
    BY <1>1, ClientTypes, CarrierTypes, WorkerTypes DEF Next

-----------------------------------------------------------------------------
(* The invariant.  Most steps only move an execution forward, drop it, or  *)
(* end a run or an extraction; the others get a lemma each.                *)

CalmRun(r) ==
    /\ run'[r].t = run[r].t /\ run'[r].p = run[r].p
    /\ \/ run'[r].st = run[r].st
       \/ run[r].st # "absent" /\ run'[r].st = "cancelled"
       \/ /\ run[r].st # "absent" /\ run'[r].st = "failed"
          /\ \A t \in Turns : result[t] # r

CalmRows ==
    /\ result' = result
    /\ analysed \subseteq analysed'
    /\ \A t \in Turns : turn'[t] = "succeeded" => turn[t] = "succeeded"
    /\ \A p \in Plans : /\ plan'[p].t = plan[p].t
                        /\ plan[p].st # "absent" => plan'[p].st # "absent"
    /\ \A r \in Runs : CalmRun(r)
    /\ \A r \in Runs : \/ ext'[r] = ext[r]
                       \/ ext[r] = "running" /\ ext'[r] \in {"succeeded", "failed"}

CalmClients == \A c \in Clients : client'[c] = client[c] \/ client'[c].pc = "idle"

Forward(w) ==
    /\ work'[w].t = work[w].t /\ work'[w].p = work[w].p /\ work'[w].r = work[w].r
    /\ work'[w].pc \in {"plan_failing", "failing", "completing", "finishing",
                        "extracted", "ext_failing"}
    /\ work'[w].pc \in PlanStages => work[w].pc \in PlanStages
    /\ work'[w].pc \in RunStages => work[w].pc \in RunStages
    /\ work'[w].pc \in ExtStages => work[w].pc \in ExtStages
    /\ work'[w].pc \in {"completing", "finishing"} => work[w].p \in analysed'

CalmWork ==
    \A w \in Workers : work'[w] = work[w] \/ work'[w].pc = "idle" \/ Forward(w)

\* Which stages are which.
LEMMA StageFacts ==
    /\ \A s \in PlanStages : s \notin RunStages /\ s \notin ExtStages /\ s # "idle"
    /\ \A s \in RunStages : s \notin ExtStages /\ s # "idle"
    /\ \A s \in ExtStages : s # "idle"
    /\ "generating" \in PlanStages /\ "binding" \in PlanStages
    /\ "plan_failing" \in PlanStages
    /\ "analysing" \in RunStages /\ "completing" \in RunStages
    /\ "finishing" \in RunStages /\ "failing" \in RunStages
    /\ "extracting" \in ExtStages /\ "extracted" \in ExtStages
    /\ "ext_failing" \in ExtStages
  BY DEF PlanStages, RunStages, ExtStages

LEMMA CalmKeeps ==
    ASSUME IInv, TypeOK', CalmRows, CalmClients, CalmWork
    PROVE  IInv'
  <1>0. TypeOK /\ RowsInv /\ ReadersInv /\ ResultInv /\ PaidOnce /\ ExecutionsInv
    BY DEF IInv
  <1>r. \A r \in Runs : /\ run'[r].t = run[r].t /\ run'[r].p = run[r].p
                        /\ run'[r].st = "absent" <=> run[r].st = "absent"
                        /\ run'[r].st = "queued" => run[r].st = "queued"
                        /\ run'[r].st = "succeeded" => run[r].st = "succeeded"
                        /\ ext'[r] = "absent" <=> ext[r] = "absent"
                        /\ ext'[r] = "queued" => ext[r] = "queued"
    BY DEF CalmRows, CalmRun
  <1>w. \A w \in Workers :
          /\ work'[w].pc \in RunStages => /\ work[w].pc \in RunStages
                                          /\ work'[w].r = work[w].r
                                          /\ work'[w].t = work[w].t
                                          /\ work'[w].p = work[w].p
          /\ work'[w].pc \in ExtStages => /\ work[w].pc \in ExtStages
                                          /\ work'[w].r = work[w].r
          /\ work'[w].pc \in PlanStages => /\ work[w].pc \in PlanStages
                                           /\ work'[w].t = work[w].t
          /\ work'[w].pc = "binding" => work'[w] = work[w]
    BY StageFacts DEF CalmWork, Forward
  <1>1. RowsInv'
    BY <1>0, <1>r DEF RowsInv, CalmRows
  <1>2. ReadersInv'
    <2>1. \A c \in Clients :
            /\ client'[c].pc = "submitting" => client'[c] = client[c]
            /\ client'[c].pc = "cancelling" => client'[c] = client[c]
      BY DEF CalmClients
    <2> QED
      BY <1>0, <1>r, <1>w, <2>1 DEF ReadersInv, CalmRows
  <1>3. ResultInv'
    <2>1. \A t \in Turns : result[t] # 0 => result[t] \in Runs
      BY <1>0 DEF TypeOK
    <2>2. \A t \in Turns : result'[t] # 0 =>
             /\ run'[result'[t]].t = t
             /\ run'[result'[t]].st \in {"succeeded", "cancelled"}
             /\ run'[result'[t]].p \in analysed'
      BY <1>0, <2>1 DEF ResultInv, CalmRows, CalmRun
    <2> QED
      BY <1>0, <1>r, <2>2 DEF ResultInv, CalmRows
  <1>4. PaidOnce'
    BY <1>0, <1>r, <1>w DEF PaidOnce, WorksOn, Claimable, ExtClaimable
  <1>5. ExecutionsInv'
    <2>1. ASSUME NEW w \in Workers, work'[w].pc \in RunStages PROVE Executes(w)'
      <3>1. Executes(w)
        BY <1>0, <1>w, <2>1 DEF ExecutionsInv
      <3>2. work'[w].pc \in {"completing", "finishing"} => work'[w].p \in analysed'
        BY <2>1, <3>1 DEF Executes, CalmWork, CalmRows, Forward
      <3> QED
        BY <1>r, <1>w, <2>1, <3>1, <3>2 DEF Executes, CalmRows
    <2>2. ASSUME NEW w \in Workers, work'[w].pc \in ExtStages
          PROVE  work'[w].r \in Runs /\ ext'[work'[w].r] \notin {"absent", "queued"}
      BY <1>0, <1>r, <1>w, <2>2 DEF ExecutionsInv
    <2> QED
      BY <2>1, <2>2 DEF ExecutionsInv
  <1> QED
    BY <1>1, <1>2, <1>3, <1>4, <1>5 DEF IInv

\* Rows, requests and executions that a step leaves alone are calm.
LEMMA SameRows ==
    ASSUME UNCHANGED data
    PROVE  CalmRows
  BY DEF CalmRows, CalmRun, data

LEMMA SameClients == ASSUME UNCHANGED client PROVE CalmClients
  BY DEF CalmClients

LEMMA SameWork == ASSUME UNCHANGED work PROVE CalmWork
  BY DEF CalmWork

LEMMA DroppedWork ==
    ASSUME TypeOK, NEW w \in Workers, Acknowledge(w)
    PROVE  CalmWork
  BY DEF CalmWork, Acknowledge, IdleWorker, TypeOK

LEMMA ForwardWork ==
    ASSUME TypeOK, NEW w \in Workers, NEW s, Stage(w, s), work[w].pc # "idle",
           \/ s = "plan_failing" /\ work[w].pc \in PlanStages
           \/ s \in {"failing", "completing", "finishing"} /\ work[w].pc \in RunStages
           \/ s \in {"extracted", "ext_failing"} /\ work[w].pc \in ExtStages,
           s \in {"completing", "finishing"} => work[w].p \in analysed'
    PROVE  CalmWork
  <1>1. \A v \in Workers : v # w => work'[v] = work[v]
    BY DEF Stage, TypeOK
  <1>2. /\ work'[w].pc = s
        /\ work'[w].t = work[w].t /\ work'[w].p = work[w].p /\ work'[w].r = work[w].r
    BY DEF Stage, TypeOK, Execution
  <1>3. Forward(w)
    BY <1>2, StageFacts DEF Forward
  <1> QED
    BY <1>1, <1>3 DEF CalmWork

\* A run that ends without an answer.
LEMMA EndedRun ==
    ASSUME IInv, NEW r \in Runs, NEW s \in {"failed", "cancelled"},
           run' = [run EXCEPT ![r].st = s], run[r].st # "absent",
           s = "failed" => \A t \in Turns : result[t] # r
    PROVE  \A q \in Runs : CalmRun(q)
  <1>1. run \in [Runs -> RunRow]
    BY DEF IInv, TypeOK
  <1>2. /\ run'[r].st = s /\ run'[r].t = run[r].t /\ run'[r].p = run[r].p
        /\ \A q \in Runs : q # r => run'[q] = run[q]
    BY <1>1 DEF RunRow
  <1> QED
    BY <1>2 DEF CalmRun

\* A running run has not answered its turn.
LEMMA RunningUnanswered ==
    ASSUME IInv, NEW r \in Runs, run[r].st \in {"queued", "running"}
    PROVE  (\A t \in Turns : result[t] # r) /\ ext[r] = "absent"
  <1>1. ASSUME NEW t \in Turns, result[t] = r PROVE FALSE
    <2>1. result[t] # 0
      BY <1>1 DEF Runs
    <2> QED
      BY <1>1, <2>1 DEF IInv, ResultInv
  <1>2. ASSUME ext[r] # "absent" PROVE FALSE
    <2>1. run[r].t \in Turns /\ result[run[r].t] = r
      BY <1>2 DEF IInv, ResultInv, RowsInv
    <2> QED
      BY <1>1, <2>1
  <1> QED
    BY <1>1, <1>2

LEMMA ApiKeeps ==
    ASSUME IInv, TypeOK',
           \/ \E t \in Turns : StartPlanning(t) \/ ConfirmPlan(t)
           \/ \E c \in Clients : CancelWrites(c) \/ RequestFails(c)
    PROVE  IInv'
  <1>0. TypeOK
    BY DEF IInv
  <1>1. ASSUME NEW t \in Turns, StartPlanning(t) PROVE IInv'
    <2>1. CalmRows
      BY <1>0, <1>1 DEF StartPlanning, CalmRows, CalmRun, TypeOK
    <2> QED
      BY <1>1, <2>1, SameClients, SameWork, CalmKeeps DEF StartPlanning
  <1>2. ASSUME NEW t \in Turns, ConfirmPlan(t) PROVE IInv'
    <2>1. PICK p \in PlansOf(t) : plan' = [plan EXCEPT ![p].st = "confirmed"]
      BY <1>2 DEF ConfirmPlan
    <2>2. \A q \in Plans : /\ plan'[q].t = plan[q].t
                           /\ plan[q].st # "absent" => plan'[q].st # "absent"
      BY <1>0, <2>1 DEF TypeOK, PlanRow
    <2>3. \A u \in Turns : turn'[u] = "succeeded" => turn[u] = "succeeded"
      BY <1>0, <1>2 DEF ConfirmPlan, TypeOK
    <2>4. CalmRows
      BY <1>2, <2>2, <2>3 DEF ConfirmPlan, CalmRows, CalmRun
    <2> QED
      BY <1>2, <2>4, SameClients, SameWork, CalmKeeps DEF ConfirmPlan
  <1>3. ASSUME NEW c \in Clients, CancelWrites(c) PROVE IInv'
    <2>1. client[c].r \in Runs /\ run[client[c].r].st # "absent"
      BY <1>3 DEF CancelWrites, IInv, ReadersInv
    <2>2. \A q \in Runs : CalmRun(q)
      BY <1>3, <2>1, EndedRun DEF CancelWrites
    <2>3. CalmRows /\ CalmClients
      BY <1>0, <1>3, <2>2
         DEF CancelWrites, CalmRows, CalmClients, IdleClient, TypeOK
    <2> QED
      BY <1>3, <2>3, SameWork, CalmKeeps DEF CancelWrites
  <1>4. ASSUME NEW c \in Clients, RequestFails(c) PROVE IInv'
    <2>1. CalmClients
      BY <1>0, <1>4 DEF RequestFails, CalmClients, IdleClient, TypeOK
    <2> QED
      BY <1>4, <2>1, SameRows, SameWork, CalmKeeps DEF RequestFails
  <1> QED
    BY <1>1, <1>2, <1>3, <1>4

LEMMA CarrierKeeps ==
    ASSUME IInv, TypeOK',
           \/ \E m \in Tasks : Dispatch(m) \/ DispatchTwice(m) \/ LoseMessage(m)
           \/ \E w \in Workers, r \in Runs : RunSkipped(w, r) \/ ExtSkipped(w, r)
           \/ \E w \in Workers, t \in Turns : PlanExists(w, t)
           \/ \E r \in Runs : Reconciles(r)
    PROVE  IInv'
  <1>0. TypeOK
    BY DEF IInv
  <1>1. CASE UNCHANGED <<data, client, work>>
    BY <1>1, SameRows, SameClients, SameWork, CalmKeeps
  <1>2. ASSUME NEW w \in Workers, NEW t \in Turns, PlanExists(w, t) PROVE IInv'
    <2>1. CalmRows
      BY <1>0, <1>2 DEF PlanExists, CalmRows, CalmRun, TypeOK
    <2> QED
      BY <1>2, <2>1, SameClients, SameWork, CalmKeeps DEF PlanExists
  <1>3. ASSUME NEW r \in Runs, ReconcileRunning(r) PROVE IInv'
    <2>1. \A q \in Runs : CalmRun(q)
      BY <1>3, RunningUnanswered, EndedRun DEF ReconcileRunning
    <2>2. CalmRows
      BY <1>3, <2>1 DEF ReconcileRunning, CalmRows
    <2> QED
      BY <1>3, <2>2, SameClients, SameWork, CalmKeeps DEF ReconcileRunning
  <1>4. ASSUME NEW r \in Runs, ReconcileExtracting(r) PROVE IInv'
    <2>1. CalmRows
      BY <1>0, <1>4 DEF ReconcileExtracting, CalmRows, CalmRun, TypeOK
    <2> QED
      BY <1>4, <2>1, SameClients, SameWork, CalmKeeps DEF ReconcileExtracting
  <1> QED
    BY <1>1, <1>2, <1>3, <1>4
       DEF Dispatch, DispatchTwice, LoseMessage, RunSkipped, ExtSkipped, Reconciles,
           ReconcileQueued

\* Works except the three steps that write a plan version or a result.
LEMMA WorkerKeeps ==
    ASSUME IInv, TypeOK', NEW w \in Workers,
           \/ Works(w) /\ ~PlanGenerated(w) /\ ~PlanBinds(w) /\ ~CompleteWrites(w)
           \/ Crash(w)
           \/ TaskDies(w)
    PROVE  IInv'
  <1> USE StageFacts
  <1>0. TypeOK
    BY DEF IInv
  <1>1. CASE PlanRefused(w)
    <2>1. CalmWork
      BY <1>0, <1>1, ForwardWork DEF PlanRefused
    <2> QED
      BY <1>1, <2>1, SameRows, SameClients, CalmKeeps DEF PlanRefused
  <1>2. CASE PlanFails(w)
    <2>1. CalmRows
      BY <1>0, <1>2 DEF PlanFails, CalmRows, CalmRun, TypeOK
    <2> QED
      BY <1>0, <1>2, <2>1, DroppedWork, SameClients, CalmKeeps DEF PlanFails
  <1>3. CASE Analysed(w)
    <2>1. work[w].p \in analysed'
      BY <1>3 DEF Analysed
    <2>2. CalmWork
      BY <1>0, <1>3, <2>1, ForwardWork DEF Analysed
    <2>3. CalmRows
      BY <1>3 DEF Analysed, CalmRows, CalmRun
    <2> QED
      BY <1>3, <2>2, <2>3, SameClients, CalmKeeps DEF Analysed
  <1>4. CASE AnalysisFails(w)
    <2>1. CalmWork
      BY <1>0, <1>4, ForwardWork DEF AnalysisFails
    <2> QED
      BY <1>4, <2>1, SameRows, SameClients, CalmKeeps DEF AnalysisFails
  <1>5. CASE CompleteReads(w)
    <2>1. work[w].p \in analysed'
      BY <1>5 DEF CompleteReads, IInv, ExecutionsInv, Executes, data
    <2>2. Acknowledge(w) \/ Stage(w, "finishing") \/ Stage(w, "failing")
      BY <1>5 DEF CompleteReads
    <2>3. CalmWork
      BY <1>0, <1>5, <2>1, <2>2, DroppedWork, ForwardWork DEF CompleteReads
    <2> QED
      BY <1>5, <2>3, SameRows, SameClients, CalmKeeps DEF CompleteReads
  <1>6. CASE CompleteFails(w)
    <2>1. CalmWork
      BY <1>0, <1>6, ForwardWork DEF CompleteFails
    <2> QED
      BY <1>6, <2>1, SameRows, SameClients, CalmKeeps DEF CompleteFails
  <1>7. CASE FailWrites(w)
    <2> DEFINE r == work[w].r
    <2>1. /\ r \in Runs /\ run[r].st # "absent"
          /\ \A t \in Turns : result[t] # r
      BY <1>7 DEF FailWrites, IInv, ExecutionsInv, Executes
    <2>2. \/ run' = [run EXCEPT ![r].st = "failed"]
          \/ run' = run
      BY <1>7 DEF FailWrites
    <2>3. \A q \in Runs : CalmRun(q)
      <3>1. CASE run' = [run EXCEPT ![r].st = "failed"]
        BY <2>1, <3>1, EndedRun
      <3>2. CASE run' = run
        BY <3>2 DEF CalmRun
      <3> QED
        BY <2>2, <3>1, <3>2
    <2>4. \A t \in Turns : turn'[t] = "succeeded" => turn[t] = "succeeded"
      BY <1>0, <1>7 DEF FailWrites, TypeOK
    <2>5. CalmRows
      BY <1>7, <2>3, <2>4 DEF FailWrites, CalmRows
    <2> QED
      BY <1>0, <1>7, <2>5, DroppedWork, SameClients, CalmKeeps DEF FailWrites
  <1>8. CASE Extracted(w)
    <2>1. CalmWork
      BY <1>0, <1>8, ForwardWork DEF Extracted
    <2> QED
      BY <1>8, <2>1, SameRows, SameClients, CalmKeeps DEF Extracted
  <1>9. CASE ExtractFails(w)
    <2>1. CalmWork
      BY <1>0, <1>9, ForwardWork DEF ExtractFails
    <2> QED
      BY <1>9, <2>1, SameRows, SameClients, CalmKeeps DEF ExtractFails
  <1>10. CASE ExtSettles(w)
    <2>1. CalmRows
      BY <1>0, <1>10 DEF ExtSettles, CalmRows, CalmRun, TypeOK
    <2> QED
      BY <1>0, <1>10, <2>1, DroppedWork, SameClients, CalmKeeps DEF ExtSettles
  <1>11. CASE Crash(w)
    BY <1>0, <1>11, DroppedWork, SameRows, SameClients, CalmKeeps DEF Crash
  <1>12. CASE TaskDies(w)
    BY <1>0, <1>12, DroppedWork, SameRows, SameClients, CalmKeeps DEF TaskDies
  <1> QED
    BY <1>1, <1>2, <1>3, <1>4, <1>5, <1>6, <1>7, <1>8, <1>9, <1>10, <1>11, <1>12
       DEF Works

\* A request reads rows that stay as it needs them.
LEMMA RequestReads ==
    ASSUME IInv, TypeOK', NEW c \in Clients,
           \/ \E t \in Turns : SubmitReads(c, t)
           \/ \E r \in Runs : CancelReads(c, r)
    PROVE  IInv'
  <1>0. TypeOK
    BY DEF IInv
  <1>1. UNCHANGED <<turn, plan, analysed, run, result, ext, work>>
    BY DEF SubmitReads, CancelReads, data
  <1>2. \A b \in Clients : b # c => client'[b] = client[b]
    BY <1>0 DEF SubmitReads, CancelReads, TypeOK
  <1> DEFINE Holds(q) == /\ q.pc = "submitting" =>
                               /\ q.t \in Turns /\ q.p \in Plans
                               /\ plan[q.p].t = q.t
                         /\ q.pc = "cancelling" =>
                               q.r \in Runs /\ run[q.r].st # "absent"
  <1>3. Holds(client'[c])
    <2>1. ASSUME NEW t \in Turns, SubmitReads(c, t) PROVE Holds(client'[c])
      <3> DEFINE p == Latest(ConfirmedPlansOf(t))
      <3>1. p \in Plans /\ plan[p].t = t
        BY <2>1, NewestPlans DEF SubmitReads
      <3>2. client'[c] = [IdleClient EXCEPT !.pc = "submitting", !.t = t, !.p = p]
        BY <1>0, <2>1 DEF SubmitReads, TypeOK
      <3> HIDE DEF p
      <3>3. client'[c].pc = "submitting" /\ client'[c].t = t /\ client'[c].p = p
        BY <3>2 DEF IdleClient
      <3> QED
        BY <3>1, <3>3
    <2>2. ASSUME NEW r \in Runs, CancelReads(c, r) PROVE Holds(client'[c])
      <3>1. client'[c].pc = "cancelling" /\ client'[c].r = r
        BY <1>0, <2>2 DEF CancelReads, TypeOK, IdleClient
      <3> QED
        BY <2>2, <3>1 DEF CancelReads, ActiveRun
    <2> QED
      BY <2>1, <2>2
  <1>4. ReadersInv'
    BY <1>1, <1>2, <1>3 DEF IInv, ReadersInv
  <1> QED
    BY <1>1, <1>4
       DEF IInv, RowsInv, ResultInv, PaidOnce, WorksOn, Claimable, ExtClaimable,
           ExecutionsInv, Executes

\* A new run: nothing referred to its row.
LEMMA SubmitKeeps ==
    ASSUME IInv, TypeOK', NEW c \in Clients, SubmitWrites(c)
    PROVE  IInv'
  <1>0. TypeOK /\ RowsInv /\ ReadersInv /\ ResultInv /\ PaidOnce /\ ExecutionsInv
    BY DEF IInv
  <1>1. PICK r \in Runs :
           /\ run[r].st = "absent"
           /\ run' = [run EXCEPT ![r] = [st |-> "queued", t |-> client[c].t,
                                         p |-> client[c].p]]
    BY DEF SubmitWrites, NextRun
  <1>2. UNCHANGED <<plan, analysed, result, ext, work>>
    BY DEF SubmitWrites
  <1>3. /\ \A q \in Runs : q # r => run'[q] = run[q]
        /\ run'[r].st = "queued" /\ run'[r].t = client[c].t /\ run'[r].p = client[c].p
    BY <1>0, <1>1 DEF TypeOK
  <1>4. /\ client[c].t \in Turns /\ client[c].p \in Plans
        /\ plan[client[c].p].t = client[c].t
    BY <1>0 DEF SubmitWrites, ReadersInv
  <1>5. /\ ext[r] = "absent"
        /\ \A t \in Turns : result[t] # r
        /\ \A w \in Workers : work[w].pc \in RunStages \cup ExtStages => work[w].r # r
    <2>1. ext[r] = "absent"
      BY <1>0, <1>1 DEF RowsInv
    <2>2. 0 \notin Runs
      BY DEF Runs
    <2>3. \A t \in Turns : result[t] # r
      BY <1>0, <1>1, <2>2 DEF ResultInv
    <2>4. \A w \in Workers : work[w].pc \in RunStages \cup ExtStages => work[w].r # r
      BY <1>0, <1>1, <2>1 DEF ExecutionsInv, Executes
    <2> QED
      BY <2>1, <2>3, <2>4
  <1>6. RowsInv'
    BY <1>0, <1>2, <1>3, <1>4, <1>5 DEF RowsInv
  <1>7. ReadersInv'
    <2>1. \A b \in Clients : client'[b] = client[b] \/ client'[b].pc = "idle"
      BY <1>0 DEF SubmitWrites, TypeOK, IdleClient
    <2> QED
      BY <1>0, <1>1, <1>2, <1>3, <2>1 DEF ReadersInv
  <1>8. ResultInv'
    <2>1. \A t \in Turns : turn'[t] = "succeeded" => turn[t] = "succeeded"
      BY <1>0 DEF SubmitWrites, TypeOK
    <2>2. \A t \in Turns : result[t] # 0 => run'[result[t]] = run[result[t]]
      BY <1>0, <1>3, <1>5 DEF TypeOK
    <2> QED
      BY <1>0, <1>2, <1>3, <1>5, <2>1, <2>2 DEF ResultInv
  <1>9. PaidOnce'
    BY <1>0, <1>2, <1>3, <1>5 DEF PaidOnce, WorksOn, Claimable, ExtClaimable
  <1>10. ExecutionsInv'
    <2>1. \A w \in Workers : work[w].pc \in RunStages \cup ExtStages =>
             run'[work[w].r] = run[work[w].r]
      BY <1>0, <1>3, <1>5 DEF ExecutionsInv, Executes
    <2> QED
      BY <1>0, <1>2, <2>1 DEF ExecutionsInv, Executes
  <1> QED
    BY <1>6, <1>7, <1>8, <1>9, <1>10 DEF IInv

\* A planning worker starts, generates a version and binds it.
LEMMA PlanningKeeps ==
    ASSUME IInv, TypeOK', NEW w \in Workers,
           \/ \E t \in Turns : PlanStarts(w, t)
           \/ PlanGenerated(w)
           \/ PlanBinds(w)
    PROVE  IInv'
  <1> USE StageFacts
  <1>0. TypeOK /\ RowsInv /\ ReadersInv /\ ResultInv /\ PaidOnce /\ ExecutionsInv
    BY DEF IInv
  <1>1. UNCHANGED <<analysed, run, result, ext, client>>
    BY DEF PlanStarts, PlanGenerated, PlanBinds, data
  <1>2. \A v \in Workers : v # w => work'[v] = work[v]
    BY <1>0 DEF PlanStarts, PlanGenerated, PlanBinds, Acknowledge, TypeOK
  <1>3. work'[w].pc \in {"generating", "binding", "idle"}
    <2>1. ASSUME NEW t \in Turns, PlanStarts(w, t) PROVE work'[w].pc = "generating"
      BY <1>0, <2>1 DEF PlanStarts, TypeOK, IdleWorker
    <2>2. ASSUME PlanGenerated(w) PROVE work'[w].pc = "binding"
      <3>1. \A e \in Execution : \A p : [e EXCEPT !.pc = "binding", !.p = p].pc = "binding"
        BY DEF Execution
      <3>2. PICK p : work' = [work EXCEPT ![w].pc = "binding", ![w].p = p]
        BY <2>2 DEF PlanGenerated
      <3>3. work'[w] = [work[w] EXCEPT !.pc = "binding", !.p = p]
        BY <1>0, <3>2 DEF TypeOK
      <3> QED
        BY <1>0, <3>1, <3>3 DEF TypeOK
    <2>3. ASSUME PlanBinds(w) PROVE work'[w].pc = "idle"
      BY <1>0, <2>3 DEF PlanBinds, Acknowledge, TypeOK, IdleWorker
    <2> QED
      BY <2>1, <2>2, <2>3
  <1>4. \A t \in Turns : turn'[t] = "succeeded" => turn[t] = "succeeded"
    BY <1>0 DEF PlanStarts, PlanGenerated, PlanBinds, TypeOK, data
  <1>5. \A v \in Workers : /\ work'[v].pc \in RunStages => work'[v] = work[v]
                           /\ work'[v].pc \in ExtStages => work'[v] = work[v]
    BY <1>2, <1>3
  <1>6. ResultInv'
    BY <1>0, <1>1, <1>4 DEF ResultInv
  <1>7. PaidOnce'
    BY <1>0, <1>1, <1>5 DEF PaidOnce, WorksOn, Claimable, ExtClaimable
  <1>8. ExecutionsInv'
    BY <1>0, <1>1, <1>5 DEF ExecutionsInv, Executes
  <1>9. RowsInv' /\ ReadersInv'
    <2>1. ASSUME NEW t \in Turns, PlanStarts(w, t) PROVE RowsInv' /\ ReadersInv'
      <3>1. work'[w].pc = "generating" /\ work'[w].t = t
        BY <1>0, <2>1 DEF PlanStarts, TypeOK, IdleWorker
      <3>2. plan' = plan
        BY <2>1 DEF PlanStarts, data
      <3> QED
        BY <1>0, <1>1, <1>2, <3>1, <3>2 DEF RowsInv, ReadersInv
    <2>2. CASE PlanGenerated(w)
      <3>1. PICK p \in Plans :
               /\ plan[p].st = "absent"
               /\ plan' = [q \in Plans |-> IF q = p THEN [st |-> "draft", t |-> NoTurn]
                                                    ELSE Superseded(plan[q])]
               /\ work' = [work EXCEPT ![w].pc = "binding", ![w].p = p]
        BY <2>2 DEF PlanGenerated, NextPlan
      <3>2. /\ \A q \in Plans : q # p =>
                  /\ plan'[q].t = plan[q].t
                  /\ plan[q].st # "absent" => plan'[q].st # "absent"
            /\ plan'[p].st = "draft" /\ plan'[p].t = NoTurn /\ plan[p].t = NoTurn
        <4>1. plan[p].t = NoTurn
          BY <1>0, <3>1 DEF RowsInv
        <4>2. \A q \in Plans : q # p => plan'[q] = Superseded(plan[q])
          BY <3>1
        <4>3. \A row \in PlanRow : /\ Superseded(row).t = row.t
                                   /\ row.st # "absent" => Superseded(row).st # "absent"
          BY DEF Superseded, PlanRow
        <4>4. plan'[p].st = "draft" /\ plan'[p].t = NoTurn
          BY <3>1
        <4> QED
          BY <1>0, <4>1, <4>2, <4>3, <4>4 DEF TypeOK
      <3>3. /\ work'[w].pc = "binding" /\ work'[w].p = p
            /\ work'[w].t = work[w].t /\ work[w].t \in Turns
        <4>1. \A e \in Execution : /\ [e EXCEPT !.pc = "binding", !.p = p].pc = "binding"
                                    /\ [e EXCEPT !.pc = "binding", !.p = p].p = p
                                    /\ [e EXCEPT !.pc = "binding", !.p = p].t = e.t
          BY DEF Execution
        <4>2. work'[w] = [work[w] EXCEPT !.pc = "binding", !.p = p]
          BY <1>0, <3>1 DEF TypeOK
        <4>3. work[w].t \in Turns
          BY <1>0, <2>2 DEF PlanGenerated, ReadersInv
        <4> QED
          BY <1>0, <4>1, <4>2, <4>3 DEF TypeOK
      <3>4. RowsInv'
        BY <1>0, <1>1, <3>1, <3>2, TimelineAssumption DEF RowsInv
      <3>5. \A v \in Workers : work[v].pc = "binding" => work[v].p # p
        BY <1>0, <3>1 DEF ReadersInv
      <3>6. /\ plan[p].t \notin Turns
            /\ \A v \in Workers : v # w /\ work[v].pc = "binding" =>
                  plan'[work[v].p].st # "absent" /\ plan'[work[v].p].t = NoTurn
        BY <1>0, <3>1, <3>2, <3>5, TimelineAssumption DEF ReadersInv
      <3>7. \A c \in Clients : client[c].pc = "submitting" =>
               plan'[client[c].p].t = client[c].t
        BY <1>0, <3>2, <3>6 DEF ReadersInv
      <3>8. \A v \in Workers : v # w => work'[v] = work[v]
        BY <1>2
      <3>9. ReadersInv'
        <4>1. \A c \in Clients :
                 /\ client[c].pc = "submitting" =>
                      /\ client[c].t \in Turns /\ client[c].p \in Plans
                      /\ plan'[client[c].p].t = client[c].t
                 /\ client[c].pc = "cancelling" =>
                      client[c].r \in Runs /\ run[client[c].r].st # "absent"
          BY <1>0, <3>7 DEF ReadersInv
        <4>2. \A v \in Workers :
                 /\ work'[v].pc \in PlanStages => work'[v].t \in Turns
                 /\ work'[v].pc = "binding" =>
                      /\ work'[v].p \in Plans
                      /\ plan'[work'[v].p].st # "absent" /\ plan'[work'[v].p].t = NoTurn
          <5> SUFFICES ASSUME NEW v \in Workers
                       PROVE  /\ work'[v].pc \in PlanStages => work'[v].t \in Turns
                              /\ work'[v].pc = "binding" =>
                                   /\ work'[v].p \in Plans
                                   /\ plan'[work'[v].p].st # "absent"
                                   /\ plan'[work'[v].p].t = NoTurn
            OBVIOUS
          <5>1. CASE v = w
            BY <3>1, <3>2, <3>3, <5>1
          <5>2. CASE v # w
            BY <1>0, <3>6, <3>8, <5>2 DEF ReadersInv
          <5> QED
            BY <5>1, <5>2
        <4>3. \A u, v \in Workers :
                 u # v /\ work'[u].pc = "binding" /\ work'[v].pc = "binding"
                    => work'[u].p # work'[v].p
          BY <1>0, <3>3, <3>5, <3>8 DEF ReadersInv
        <4> QED
          BY <1>1, <4>1, <4>2, <4>3 DEF ReadersInv
      <3> QED
        BY <3>4, <3>9
    <2>3. CASE PlanBinds(w)
      <3> DEFINE p == work[w].p
                 t == work[w].t
      <3>1. p \in Plans /\ plan[p].st # "absent" /\ plan[p].t = NoTurn /\ t \in Turns
        BY <1>0, <2>3 DEF PlanBinds, ReadersInv
      <3>2. /\ \A q \in Plans : q # p => plan'[q] = plan[q]
            /\ plan'[p].t = t /\ plan'[p].st = plan[p].st
        BY <1>0, <2>3, <3>1 DEF PlanBinds, TypeOK, PlanRow
      <3>3. work'[w].pc = "idle"
        BY <1>0, <2>3 DEF PlanBinds, Acknowledge, IdleWorker, TypeOK
      <3> HIDE DEF p, t
      <3>4. RowsInv'
        BY <1>0, <1>1, <3>1, <3>2, TimelineAssumption DEF RowsInv
      <3>5. \A v \in Workers : v # w /\ work[v].pc = "binding" => work[v].p # p
        BY <1>0, <2>3 DEF PlanBinds, ReadersInv, p
      <3>6. ReadersInv'
        BY <1>0, <1>1, <1>2, <3>1, <3>2, <3>3, <3>5, TimelineAssumption DEF ReadersInv
      <3> QED
        BY <3>4, <3>6
    <2> QED
      BY <2>1, <2>2, <2>3
  <1> QED
    BY <1>6, <1>7, <1>8, <1>9 DEF IInv

\* The claim of a run: it was queued, so nobody works on it and it answered nothing.
LEMMA RunStartKeeps ==
    ASSUME IInv, TypeOK', NEW w \in Workers, NEW r \in Runs, RunStarts(w, r)
    PROVE  IInv'
  <1> USE StageFacts
  <1>0. TypeOK /\ RowsInv /\ ReadersInv /\ ResultInv /\ PaidOnce /\ ExecutionsInv
    BY DEF IInv
  <1>1. UNCHANGED <<turn, plan, analysed, result, ext, client>>
    BY DEF RunStarts
  <1>2. /\ \A q \in Runs : q # r => run'[q] = run[q]
        /\ run[r].st = "queued" /\ run'[r].st = "running"
        /\ run'[r].t = run[r].t /\ run'[r].p = run[r].p
    BY <1>0 DEF RunStarts, Claimable, TypeOK, RunRow
  <1>3. /\ \A v \in Workers : v # w => work'[v] = work[v]
        /\ work'[w].pc = "analysing" /\ work'[w].r = r
        /\ work'[w].t = run[r].t /\ work'[w].p = run[r].p
    <2>1. work'[w] = [IdleWorker EXCEPT !.pc = "analysing", !.r = r, !.t = run[r].t,
                                        !.p = run[r].p]
      BY <1>0 DEF RunStarts, TypeOK
    <2>2. \A t, p : LET e == [IdleWorker EXCEPT !.pc = "analysing", !.r = r, !.t = t,
                                                !.p = p]
                    IN e.pc = "analysing" /\ e.r = r /\ e.t = t /\ e.p = p
      BY DEF IdleWorker
    <2>3. \A v \in Workers : v # w => work'[v] = work[v]
      BY <1>0 DEF RunStarts, TypeOK
    <2> QED
      BY <2>1, <2>2, <2>3
  <1>4. (\A t \in Turns : result[t] # r) /\ ext[r] = "absent"
    BY <1>2, RunningUnanswered
  <1>5. \A v \in Workers :
           /\ work[v].pc \in RunStages => work[v].r # r
           /\ work'[v].pc \in ExtStages => work'[v] = work[v] /\ work[v].r # r
    BY <1>0, <1>2, <1>3, <1>4 DEF PaidOnce, WorksOn, Claimable, ExecutionsInv
  <1>6. RowsInv'
    BY <1>0, <1>1, <1>2 DEF RowsInv
  <1>7. ReadersInv'
    BY <1>0, <1>1, <1>2, <1>3 DEF ReadersInv
  <1>8. ResultInv'
    <2>1. \A t \in Turns : result[t] # 0 => run'[result[t]] = run[result[t]]
      BY <1>0, <1>2, <1>4 DEF TypeOK
    <2> QED
      BY <1>0, <1>1, <1>2, <1>4, <2>1 DEF ResultInv
  <1>9. PaidOnce'
    BY <1>0, <1>1, <1>2, <1>3, <1>4, <1>5 DEF PaidOnce, WorksOn, Claimable, ExtClaimable
  <1>10. ExecutionsInv'
    <2>1. Executes(w)'
      BY <1>1, <1>2, <1>3, <1>4 DEF Executes
    <2>2. ASSUME NEW v \in Workers, v # w, work[v].pc \in RunStages
          PROVE  Executes(v)'
      BY <1>0, <1>1, <1>2, <1>3, <1>5, <2>2 DEF ExecutionsInv, Executes
    <2> QED
      BY <1>0, <1>1, <1>3, <1>5, <2>1, <2>2 DEF ExecutionsInv
  <1> QED
    BY <1>6, <1>7, <1>8, <1>9, <1>10 DEF IInv

\* The claim of an extraction.
LEMMA ExtStartKeeps ==
    ASSUME IInv, TypeOK', NEW w \in Workers, NEW r \in Runs, ExtStarts(w, r)
    PROVE  IInv'
  <1> USE StageFacts
  <1>0. TypeOK /\ RowsInv /\ ReadersInv /\ ResultInv /\ PaidOnce /\ ExecutionsInv
    BY DEF IInv
  <1>1. UNCHANGED <<turn, plan, analysed, run, result, client>>
    BY DEF ExtStarts
  <1>2. /\ \A q \in Runs : q # r => ext'[q] = ext[q]
        /\ ext[r] = "queued" /\ ext'[r] = "running"
    BY <1>0 DEF ExtStarts, ExtClaimable, TypeOK
  <1>3. /\ \A v \in Workers : v # w => work'[v] = work[v]
        /\ work'[w].pc = "extracting" /\ work'[w].r = r
    <2>1. work'[w] = [IdleWorker EXCEPT !.pc = "extracting", !.r = r, !.t = run[r].t,
                                        !.p = Latest(PlansOf(run[r].t))]
      BY <1>0 DEF ExtStarts, TypeOK
    <2>2. \A t, p : LET e == [IdleWorker EXCEPT !.pc = "extracting", !.r = r, !.t = t,
                                                !.p = p]
                    IN e.pc = "extracting" /\ e.r = r
      BY DEF IdleWorker
    <2>3. \A v \in Workers : v # w => work'[v] = work[v]
      BY <1>0 DEF ExtStarts, TypeOK
    <2> QED
      BY <2>1, <2>2, <2>3
  <1>4. \A v \in Workers :
           /\ work[v].pc \in ExtStages => work[v].r # r
           /\ work'[v].pc \in RunStages => work'[v] = work[v] /\ work[v].r # r
    BY <1>0, <1>2, <1>3 DEF PaidOnce, WorksOn, ExtClaimable
  <1>5. RowsInv'
    BY <1>0, <1>1, <1>2 DEF RowsInv
  <1>6. ReadersInv'
    BY <1>0, <1>1, <1>3 DEF ReadersInv
  <1>7. ResultInv'
    BY <1>0, <1>1, <1>2 DEF ResultInv
  <1>8. PaidOnce'
    BY <1>0, <1>1, <1>2, <1>3, <1>4 DEF PaidOnce, WorksOn, Claimable, ExtClaimable
  <1>9. ExecutionsInv'
    <2>1. ASSUME NEW v \in Workers, work'[v].pc \in RunStages PROVE Executes(v)'
      BY <1>0, <1>1, <1>2, <1>4, <2>1 DEF ExecutionsInv, Executes
    <2>2. ASSUME NEW v \in Workers, work'[v].pc \in ExtStages
          PROVE  work'[v].r \in Runs /\ ext'[work'[v].r] \notin {"absent", "queued"}
      BY <1>0, <1>2, <1>3, <2>2 DEF ExecutionsInv
    <2> QED
      BY <2>1, <2>2 DEF ExecutionsInv
  <1> QED
    BY <1>5, <1>6, <1>7, <1>8, <1>9 DEF IInv

\* The answer of a turn.
LEMMA CompleteKeeps ==
    ASSUME IInv, TypeOK', NEW w \in Workers, CompleteWrites(w)
    PROVE  IInv'
  <1> USE StageFacts
  <1>0. TypeOK /\ RowsInv /\ ReadersInv /\ ResultInv /\ PaidOnce /\ ExecutionsInv
    BY DEF IInv
  <1>1. PICK r \in Runs, t \in Turns :
           /\ r = work[w].r /\ t = work[w].t
           /\ run[r].st \notin {"absent", "queued"}
           /\ run[r].t = t /\ run[r].p \in analysed
           /\ \A u \in Turns : result[u] # r
           /\ ext[r] = "absent"
    BY <1>0 DEF CompleteWrites, ExecutionsInv, Executes, RowsInv
  <1>2. UNCHANGED <<plan, analysed, client>> /\ result[t] = 0 /\ r # 0
    BY <1>1 DEF CompleteWrites, Runs
  <1>3. /\ \A q \in Runs : q # r => run'[q] = run[q] /\ ext'[q] = ext[q]
        /\ run'[r].st = "succeeded" /\ run'[r].t = t /\ run'[r].p = run[r].p
        /\ ext'[r] = "queued"
    BY <1>0, <1>1 DEF CompleteWrites, TypeOK, RunRow
  <1>4. /\ \A u \in Turns : u # t => result'[u] = result[u] /\ turn'[u] = turn[u]
        /\ result'[t] = r
    BY <1>0, <1>1 DEF CompleteWrites, TypeOK
  <1>5. /\ \A v \in Workers : v # w => work'[v] = work[v]
        /\ work'[w].pc = "idle"
    BY <1>0 DEF CompleteWrites, Acknowledge, TypeOK, IdleWorker
  <1>6. \A v \in Workers : v # w /\ work[v].pc \in RunStages \cup ExtStages
                              => work[v].r # r
    BY <1>0, <1>1 DEF CompleteWrites, PaidOnce, WorksOn, ExecutionsInv
  <1>7. RowsInv'
    BY <1>0, <1>1, <1>2, <1>3 DEF RowsInv
  <1>8. ReadersInv'
    BY <1>0, <1>1, <1>2, <1>3, <1>5 DEF ReadersInv
  <1>9. ResultInv'
    <2>1. ASSUME NEW u \in Turns, result'[u] # 0
          PROVE  /\ run'[result'[u]].t = u
                 /\ run'[result'[u]].st \in {"succeeded", "cancelled"}
                 /\ run'[result'[u]].p \in analysed'
      <3>1. CASE u = t
        BY <1>1, <1>2, <1>3, <1>4, <3>1
      <3>2. CASE u # t
        <4>1. result'[u] = result[u] /\ result[u] \in Runs /\ result[u] # r
          BY <1>0, <1>1, <1>4, <2>1, <3>2 DEF TypeOK
        <4> QED
          BY <1>0, <1>2, <1>3, <2>1, <4>1 DEF ResultInv
      <3> QED
        BY <3>1, <3>2
    <2>2. ASSUME NEW q \in Runs, run'[q].st = "succeeded" \/ ext'[q] # "absent"
          PROVE  result'[run'[q].t] = q
      <3>1. CASE q = r
        BY <1>3, <1>4, <3>1
      <3>2. CASE q # r
        <4>1. run[q].st = "succeeded" \/ ext[q] # "absent"
          BY <1>3, <2>2, <3>2
        <4>2. run[q].t \in Turns /\ result[run[q].t] = q
          BY <1>0, <4>1 DEF ResultInv, RowsInv
        <4>3. q # 0
          BY DEF Runs
        <4> QED
          BY <1>2, <1>3, <1>4, <3>2, <4>2, <4>3
      <3> QED
        BY <3>1, <3>2
    <2>3. ASSUME NEW u \in Turns, turn'[u] = "succeeded" PROVE result'[u] # 0
      BY <1>0, <1>2, <1>4, <2>3 DEF ResultInv
    <2> QED
      BY <2>1, <2>2, <2>3 DEF ResultInv
  <1>10. PaidOnce'
    <2>1. \A v \in Workers : work'[v].pc \in RunStages \cup ExtStages =>
             v # w /\ work'[v] = work[v] /\ work[v].r # r
      BY <1>5, <1>6
    <2> QED
      BY <1>0, <1>3, <2>1 DEF PaidOnce, WorksOn, Claimable, ExtClaimable
  <1>11. ExecutionsInv'
    <2>1. ASSUME NEW v \in Workers, work'[v].pc \in RunStages PROVE Executes(v)'
      <3>1. v # w /\ work'[v] = work[v] /\ work[v].r # r /\ Executes(v)
        BY <1>0, <1>5, <1>6, <2>1 DEF ExecutionsInv
      <3>2. \A u \in Turns : result'[u] # work[v].r
        BY <1>4, <3>1 DEF Executes
      <3> QED
        BY <1>2, <1>3, <3>1, <3>2 DEF Executes
    <2>2. ASSUME NEW v \in Workers, work'[v].pc \in ExtStages
          PROVE  work'[v].r \in Runs /\ ext'[work'[v].r] \notin {"absent", "queued"}
      BY <1>0, <1>3, <1>5, <1>6, <2>2 DEF ExecutionsInv
    <2> QED
      BY <2>1, <2>2 DEF ExecutionsInv
  <1> QED
    BY <1>7, <1>8, <1>9, <1>10, <1>11 DEF IInv

-----------------------------------------------------------------------------
LEMMA InitInv == Init => IInv
  <1> SUFFICES ASSUME Init PROVE IInv
    OBVIOUS
  <1> USE StageFacts, ExecutionTypes
  <1>1. TypeOK
    BY DEF Init, TypeOK, TurnStatus, PlanRow, RunRow, ExtStatus
  <1>2. RowsInv /\ ResultInv
    BY DEF Init, RowsInv, ResultInv
  <1>3. ReadersInv /\ PaidOnce /\ ExecutionsInv
    BY DEF Init, ReadersInv, PaidOnce, ExecutionsInv, WorksOn, IdleWorker, IdleClient
  <1> QED
    BY <1>1, <1>2, <1>3 DEF IInv

LEMMA NextInv == IInv /\ [Next]_vars => IInv'
  <1> SUFFICES ASSUME IInv, [Next]_vars PROVE IInv'
    OBVIOUS
  <1>1. TypeOK'
    BY NextTypes
  <1>2. CASE UNCHANGED vars
    <2>1. UNCHANGED data /\ UNCHANGED client /\ UNCHANGED work
      BY <1>2 DEF vars, data
    <2> QED
      BY <1>1, <2>1, SameRows, SameClients, SameWork, CalmKeeps
  <1>3. ASSUME NEW t \in Turns, StartPlanning(t) \/ ConfirmPlan(t) PROVE IInv'
    BY <1>1, <1>3, ApiKeeps
  <1>4. ASSUME NEW c \in Clients, \/ \E t \in Turns : SubmitReads(c, t)
                                  \/ \E r \in Runs : CancelReads(c, r)
                                  \/ Answers(c)
        PROVE  IInv'
    BY <1>1, <1>4, RequestReads, SubmitKeeps, ApiKeeps DEF Answers
  <1>5. ASSUME NEW m \in Tasks, Dispatch(m) \/ DispatchTwice(m) \/ LoseMessage(m)
        PROVE  IInv'
    BY <1>1, <1>5, CarrierKeeps
  <1>6. ASSUME NEW m \in Tasks, Receives(m) PROVE IInv'
    BY <1>1, <1>6, PlanningKeeps, RunStartKeeps, ExtStartKeeps, CarrierKeeps
       DEF Receives
  <1>7. ASSUME NEW w \in Workers, Works(w) \/ Crash(w) \/ TaskDies(w) PROVE IInv'
    BY <1>1, <1>7, PlanningKeeps, CompleteKeeps, WorkerKeeps
  <1>8. ASSUME NEW r \in Runs, Reconciles(r) PROVE IInv'
    BY <1>1, <1>8, CarrierKeeps
  <1> QED
    BY <1>2, <1>3, <1>4, <1>5, <1>6, <1>7, <1>8 DEF Next

LEMMA Invariance == Spec => []IInv
  BY InitInv, NextInv, PTL DEF Spec

\* Rows, events and executions keep the shape of their tables.
THEOREM TimelineTypes == Spec => []TypeOK
  <1>1. IInv => TypeOK
    BY DEF IInv
  <1> QED
    BY <1>1, Invariance, PTL

\* A turn has at most one result, of a run of its own that analysed a plan, and
\* run, extraction and turn agree with it (TimelineRunFinalizer.complete).
THEOREM AnswersAgree == Spec => []ResultInv
  <1>1. IInv => ResultInv
    BY DEF IInv
  <1> QED
    BY <1>1, Invariance, PTL

\* However often a message is delivered, a run and its extraction are worked on
\* by one worker and at most once (execute_analysis_run, extract_candidates).
THEOREM PaidOnceAlways == Spec => []PaidOnce
  <1>1. IInv => PaidOnce
    BY DEF IInv
  <1> QED
    BY <1>1, Invariance, PTL


-----------------------------------------------------------------------------
(* What a step may never do.                                               *)

\* The steps that write a run's status.
LEMMA StatusWriters ==
    ASSUME IInv, [Next]_vars, NEW r \in Runs, run'[r] # run[r]
    PROVE  \/ run[r].st = "absent" /\ \E c \in Clients : SubmitWrites(c)
           \/ \E c \in Clients : /\ client[c].pc = "cancelling" /\ client[c].r = r
                                 /\ run'[r].st = "cancelled" /\ run'[r].t = run[r].t
           \/ /\ run[r].st = "queued" /\ run'[r].t = run[r].t
              /\ \E w \in Workers : RunStarts(w, r)
           \/ /\ run[r].st = "running" /\ run'[r].st = "failed"
              /\ run'[r].t = run[r].t
           \/ \E w \in Workers :
                /\ WorksOn(w, {"finishing", "failing"}, r)
                /\ run[r].st \notin {"absent", "queued", "succeeded"}
                /\ run'[r].st \in {"succeeded", "failed"} /\ run'[r].t = run[r].t
  <1> DEFINE Goal ==
           \/ run[r].st = "absent" /\ \E c \in Clients : SubmitWrites(c)
           \/ \E c \in Clients : /\ client[c].pc = "cancelling" /\ client[c].r = r
                                 /\ run'[r].st = "cancelled" /\ run'[r].t = run[r].t
           \/ /\ run[r].st = "queued" /\ run'[r].t = run[r].t
              /\ \E w \in Workers : RunStarts(w, r)
           \/ /\ run[r].st = "running" /\ run'[r].st = "failed"
              /\ run'[r].t = run[r].t
           \/ \E w \in Workers :
                /\ WorksOn(w, {"finishing", "failing"}, r)
                /\ run[r].st \notin {"absent", "queued", "succeeded"}
                /\ run'[r].st \in {"succeeded", "failed"} /\ run'[r].t = run[r].t
  <1>0. run \in [Runs -> RunRow]
    BY DEF IInv, TypeOK
  <1>1. ASSUME NEW q \in Runs, NEW s, run' = [run EXCEPT ![q].st = s]
        PROVE  q = r /\ run'[r].st = s /\ run'[r].t = run[r].t
    BY <1>0, <1>1 DEF RunRow
  <1>2. ASSUME NEW w \in Workers, work[w].pc \in RunStages
        PROVE  /\ work[w].r \in Runs
               /\ run[work[w].r].st \notin {"absent", "queued", "succeeded"}
    <2>1. Executes(w)
      BY <1>2 DEF IInv, ExecutionsInv
    <2> QED
      BY <2>1 DEF Executes, IInv, ResultInv, RowsInv
  <1>3. ASSUME NEW c \in Clients, SubmitWrites(c) PROVE Goal
    <2>1. PICK q \in NextRun :
             run' = [run EXCEPT ![q] = [st |-> "queued", t |-> client[c].t,
                                        p |-> client[c].p]]
      BY <1>3 DEF SubmitWrites
    <2> QED
      BY <1>0, <1>3, <2>1 DEF NextRun
  <1>4. ASSUME NEW c \in Clients, CancelWrites(c) PROVE Goal
    <2>1. client[c].r \in Runs
      BY <1>4 DEF CancelWrites, IInv, ReadersInv
    <2> QED
      BY <1>1, <1>4, <2>1 DEF CancelWrites
  <1>5. ASSUME NEW w \in Workers, NEW q \in Runs, RunStarts(w, q) PROVE Goal
    BY <1>1, <1>5 DEF RunStarts, Claimable
  <1>6. ASSUME NEW w \in Workers, CompleteWrites(w) PROVE Goal
    BY <1>1, <1>2, <1>6, StageFacts DEF CompleteWrites, WorksOn
  <1>7. ASSUME NEW w \in Workers, FailWrites(w) PROVE Goal
    BY <1>1, <1>2, <1>7, StageFacts DEF FailWrites, WorksOn
  <1>8. ASSUME NEW q \in Runs, ReconcileRunning(q) PROVE Goal
    BY <1>1, <1>8 DEF ReconcileRunning
  <1>9. run' = run \/ Goal
    BY <1>3, <1>4, <1>5, <1>6, <1>7, <1>8
       DEF Next, vars, data, StartPlanning, ConfirmPlan, SubmitReads, CancelReads,
           Answers, RequestFails, Dispatch, DispatchTwice, LoseMessage, Receives,
           PlanStarts, PlanExists, RunSkipped, ExtStarts, ExtSkipped, Works,
           PlanGenerated, PlanRefused, PlanBinds, PlanFails, Analysed, AnalysisFails,
           CompleteReads, CompleteFails, Extracted, ExtractFails, ExtSettles, Crash,
           TaskDies, Reconciles, ReconcileExtracting, ReconcileQueued
  <1> QED
    BY <1>9

\* A finished run is overwritten by its executor, or by a stale cancel, only
\* (cancel_run, complete and fail update by id).
THEOREM OverwritesNamed == Spec => RunStatusOverwritten
  <1> DEFINE Named(r) ==
         Ended(r) /\ run'[r].st # run[r].st =>
           \/ \E w \in Workers : /\ WorksOn(w, {"finishing", "failing"}, r)
                                 /\ run[r].st # "succeeded"
           \/ \E c \in Clients : /\ client[c].pc = "cancelling" /\ client[c].r = r
                                 /\ run'[r].st = "cancelled"
  <1>1. IInv /\ [Next]_vars => [\A r \in Runs : Named(r)]_vars
    <2> SUFFICES ASSUME IInv, [Next]_vars, NEW r \in Runs, Ended(r),
                        run'[r].st # run[r].st
                 PROVE  Named(r)
      OBVIOUS
    <2> QED
      BY StatusWriters DEF Ended
  <1> QED
    BY <1>1, Invariance, PTL DEF Spec, RunStatusOverwritten

\* Tasks of different kinds, or about different rows, differ.
LEMMA TasksDiffer ==
    /\ \A q, r : RunTask(q) = RunTask(r) => q = r
    /\ \A t, r : PlanTask(t) # RunTask(r) /\ ExtTask(t) # RunTask(r)
    /\ \A r : DeadEvent # RunTask(r)
  BY DEF PlanTask, RunTask, ExtTask, DeadEvent

\* How an event list can change: nothing, a new event at the end, or a sendable
\* one taken out.
LEMMA OutboxSteps ==
    ASSUME IInv, [Next]_vars
    PROVE  \/ outbox' = outbox
           \/ \E m \in Tasks \cup {DeadEvent} :
                /\ outbox' = Append(outbox, m)
                /\ \A r \in Runs : m = RunTask(r) => run[r].st = "absent"
           \/ \E i \in Sendable : outbox' = RemoveAt(outbox, i)
  <1> USE TaskTypes, TasksDiffer
  <1> DEFINE Goal == \/ outbox' = outbox
                     \/ \E m \in Tasks \cup {DeadEvent} :
                          /\ outbox' = Append(outbox, m)
                          /\ \A r \in Runs : m = RunTask(r) => run[r].st = "absent"
                     \/ \E i \in Sendable : outbox' = RemoveAt(outbox, i)
  <1>1. ASSUME NEW t \in Turns, StartPlanning(t) PROVE Goal
    BY <1>1 DEF StartPlanning, Enqueue
  <1>2. ASSUME NEW c \in Clients, SubmitWrites(c) PROVE Goal
    BY <1>2 DEF SubmitWrites, Enqueue, NextRun
  <1>3. ASSUME NEW m \in Tasks, Dispatch(m) PROVE Goal
    BY <1>3 DEF Dispatch
  <1>4. ASSUME NEW w \in Workers, CompleteWrites(w) PROVE Goal
    <2>1. work[w].r \in Runs
      BY <1>4, StageFacts DEF CompleteWrites, IInv, ExecutionsInv, Executes
    <2> QED
      BY <1>4, <2>1 DEF CompleteWrites, Enqueue
  <1>5. ASSUME NEW r \in Runs, ReconcileQueued(r) PROVE Goal
    BY <1>5 DEF ReconcileQueued, Enqueue
  <1>6. outbox' = outbox \/ Goal
    BY <1>1, <1>2, <1>3, <1>4, <1>5
       DEF Next, vars, data, ConfirmPlan, SubmitReads, CancelReads,
           Answers, CancelWrites, RequestFails, DispatchTwice, LoseMessage, Receives,
           PlanStarts, PlanExists, RunStarts, RunSkipped, ExtStarts, ExtSkipped, Works,
           PlanGenerated, PlanRefused, PlanBinds, PlanFails, Analysed, AnalysisFails,
           CompleteReads, CompleteFails, FailWrites, Extracted, ExtractFails,
           ExtSettles, Crash, TaskDies, Reconciles, ReconcileRunning,
           ReconcileExtracting
  <1> QED
    BY <1>6

\* Events the dispatcher refuses at the head of its list stay there for good.
LEMMA CloggedStays ==
    ASSUME IInv, [Next]_vars, Clogged
    PROVE  Clogged'
  <1>0. outbox \in Seq(Tasks \cup {DeadEvent}) /\ Batch \in Nat
    BY TimelineAssumption DEF IInv, TypeOK
  <1>1. CASE outbox' = outbox
    BY <1>1 DEF Clogged, Sendable
  <1>2. ASSUME NEW m \in Tasks \cup {DeadEvent}, outbox' = Append(outbox, m)
        PROVE  Clogged'
    <2>1. /\ Len(outbox') = Len(outbox) + 1
          /\ \A i \in 1 .. Len(outbox) : outbox'[i] = outbox[i]
      BY <1>0, <1>2
    <2>2. \A i \in DOMAIN outbox' : i <= Batch => outbox'[i] = DeadEvent
      <3> SUFFICES ASSUME NEW i \in 1 .. Len(outbox'), i <= Batch
                   PROVE  outbox'[i] = DeadEvent
        BY <1>0, <1>2
      <3>1. i \in 1 .. Len(outbox)
        BY <1>0, <2>1 DEF Clogged
      <3> QED
        BY <1>0, <2>1, <3>1 DEF Clogged, Sendable
    <2> QED
      BY <1>0, <2>1, <2>2 DEF Clogged, Sendable
  <1> QED
    BY <1>1, <1>2, OutboxSteps DEF Clogged


\* Taking a sendable event out brings no event in.
LEMMA NoNewEvent ==
    ASSUME IInv, [Next]_vars, NEW r \in Runs, run[r].st # "absent",
           RunTask(r) \notin ToSet(outbox)
    PROVE  RunTask(r) \notin ToSet(outbox')
  <1>0. outbox \in Seq(Tasks \cup {DeadEvent})
    BY DEF IInv, TypeOK
  <1>1. \A i \in 1 .. Len(outbox) : outbox[i] # RunTask(r)
    BY <1>0 DEF ToSet
  <1>2. CASE outbox' = outbox
    BY <1>2
  <1>3. ASSUME NEW m \in Tasks \cup {DeadEvent}, outbox' = Append(outbox, m),
               \A q \in Runs : m = RunTask(q) => run[q].st = "absent"
        PROVE  RunTask(r) \notin ToSet(outbox')
    <2>1. m # RunTask(r)
      BY <1>3
    <2>2. \A i \in 1 .. Len(outbox') : outbox'[i] # RunTask(r)
      BY <1>0, <1>1, <1>3, <2>1
    <2>3. DOMAIN outbox' = 1 .. Len(outbox')
      BY <1>0, <1>3
    <2> QED
      BY <2>2, <2>3 DEF ToSet
  <1>4. ASSUME NEW i \in Sendable, outbox' = RemoveAt(outbox, i)
        PROVE  RunTask(r) \notin ToSet(outbox')
    <2>1. /\ outbox' \in Seq(Tasks \cup {DeadEvent})
          /\ Len(outbox') = Len(outbox) - 1
          /\ \A k \in 1 .. (Len(outbox) - 1) :
               outbox'[k] = IF k < i THEN outbox[k] ELSE outbox[k + 1]
      BY <1>0, <1>4, SendShape DEF Sendable
    <2>2. \A k \in 1 .. Len(outbox') : outbox'[k] # RunTask(r)
      BY <1>0, <1>1, <2>1
    <2> QED
      BY <2>1, <2>2 DEF ToSet
  <1> QED
    BY <1>2, <1>3, <1>4, OutboxSteps

\* A message about a run appears when its event is sent, or when the worker that
\* executes the run dies.
LEMMA NoNewMessage ==
    ASSUME IInv, [Next]_vars, NEW r \in Runs, Lost(r)
    PROVE  msgs'[RunTask(r)] = 0
  <1> USE TaskTypes, TasksDiffer
  <1>0. msgs \in [Tasks -> Nat] /\ RunTask(r) \in Tasks /\ msgs[RunTask(r)] = 0
    BY DEF IInv, TypeOK, Lost
  <1>1. \A m : Took(m) => msgs'[RunTask(r)] = 0
    BY <1>0 DEF Took
  <1>2. \A m : m # RunTask(r) /\ msgs' = [msgs EXCEPT ![m] = @ + 1]
                  => msgs'[RunTask(r)] = 0
    BY <1>0
  <1>3. \A i \in Sendable : outbox[i] # RunTask(r)
    BY DEF Lost, Sendable, ToSet
  <1>4. ASSUME NEW m \in Tasks, Dispatch(m) \/ DispatchTwice(m)
        PROVE  msgs'[RunTask(r)] = 0
    BY <1>2, <1>3, <1>4 DEF Dispatch, DispatchTwice
  <1>5. ASSUME NEW m \in Tasks, LoseMessage(m) PROVE msgs'[RunTask(r)] = 0
    BY <1>1, <1>5 DEF LoseMessage
  <1>6. ASSUME NEW m \in Tasks, Receives(m) PROVE msgs'[RunTask(r)] = 0
    BY <1>1, <1>6
       DEF Receives, PlanStarts, PlanExists, RunStarts, RunSkipped, ExtStarts, ExtSkipped
  <1>7. ASSUME NEW w \in Workers, Crash(w) PROVE msgs'[RunTask(r)] = 0
    <2>1. MessageOf(work[w]) # RunTask(r)
      <3>1. work[w].pc \in RunStages => work[w].r # r
        BY DEF Lost, IInv, ExecutionsInv, Executes
      <3>2. CASE work[w].pc \in RunStages
        BY <3>1, <3>2, StageFacts DEF MessageOf
      <3>3. CASE work[w].pc \notin RunStages
        BY <3>3 DEF MessageOf
      <3> QED
        BY <3>2, <3>3
    <2> QED
      BY <1>2, <1>7, <2>1 DEF Crash
  <1> QED
    BY <1>0, <1>4, <1>5, <1>6, <1>7
       DEF Next, vars, data, StartPlanning, ConfirmPlan, SubmitReads, SubmitWrites,
           CancelReads, Answers, CancelWrites, RequestFails, Works,
           PlanGenerated, PlanRefused, PlanBinds, PlanFails, Analysed, AnalysisFails,
           CompleteReads, CompleteWrites, CompleteFails, FailWrites, Extracted,
           ExtractFails, ExtSettles, TaskDies, Reconciles, ReconcileRunning,
           ReconcileExtracting, ReconcileQueued

\* A run whose message was lost is left by a cancel alone.
LEMMA LostStays ==
    ASSUME IInv, [Next]_vars, NEW r \in Runs, Lost(r)
    PROVE  Lost(r)' \/ run'[r].st = "cancelled"
  <1>1. run[r].st = "queued" /\ msgs[RunTask(r)] = 0 /\ RunTask(r) \notin ToSet(outbox)
    BY DEF Lost
  <1>2. msgs'[RunTask(r)] = 0 /\ RunTask(r) \notin ToSet(outbox')
    BY <1>1, NoNewMessage, NoNewEvent
  <1>3. ASSUME NEW w \in Workers, NEW q \in Runs, RunStarts(w, q) PROVE q # r
    BY <1>1, <1>3 DEF RunStarts, Took, IInv, TypeOK
  <1>4. run'[r].st \in {"queued", "cancelled"}
    <2>1. CASE run'[r] = run[r]
      BY <1>1, <2>1
    <2>2. CASE run'[r] # run[r]
      <3>1. \/ run'[r].st = "cancelled"
            \/ \E w \in Workers : RunStarts(w, r)
        BY <1>1, <2>2, StatusWriters
      <3> QED
        BY <1>3, <3>1
    <2> QED
      BY <2>1, <2>2
  <1> QED
    BY <1>2, <1>4 DEF Lost


\* The parts of Stuck: the turn's status ...
LEMMA StuckTurn ==
    ASSUME IInv, [Next]_vars, NEW t \in Turns, Stuck(t)
    PROVE  turn'[t] = "queued"
  <1>0. /\ turn \in [Turns -> TurnStatus] /\ turn[t] = "queued"
        /\ \A w \in Workers : work[w].pc \in RunStages => work[w].t # t
        /\ \A c \in Clients : client[c].pc = "submitting" => client[c].t # t
    BY DEF IInv, TypeOK, Stuck
  <1>1. ASSUME NEW u \in Turns, StartPlanning(u) \/ ConfirmPlan(u)
        PROVE  turn'[t] = "queued"
    BY <1>0, <1>1 DEF StartPlanning, ConfirmPlan, CAN_PLAN
  <1>2. ASSUME NEW c \in Clients, SubmitWrites(c) PROVE turn'[t] = "queued"
    BY <1>0, <1>2 DEF SubmitWrites
  <1>3. ASSUME NEW w \in Workers, NEW u \in Turns, PlanExists(w, u)
        PROVE  turn'[t] = "queued"
    BY <1>0, <1>3 DEF PlanExists
  <1>4. ASSUME NEW w \in Workers, PlanBinds(w) \/ PlanFails(w)
        PROVE  turn'[t] = "queued"
    BY <1>0, <1>4 DEF PlanBinds, PlanFails
  <1>5. ASSUME NEW w \in Workers, CompleteWrites(w) \/ FailWrites(w)
        PROVE  turn'[t] = "queued"
    BY <1>0, <1>5, StageFacts DEF CompleteWrites, FailWrites
  <1> QED
    BY <1>0, <1>1, <1>2, <1>3, <1>4, <1>5
       DEF Next, vars, data, SubmitReads, CancelReads, Answers, CancelWrites,
           RequestFails, Dispatch, DispatchTwice, LoseMessage, Receives, PlanStarts,
           RunStarts, RunSkipped, ExtStarts, ExtSkipped, Works, PlanGenerated,
           PlanRefused, Analysed, AnalysisFails, CompleteReads, CompleteFails,
           Extracted, ExtractFails, ExtSettles, Crash, TaskDies, Reconciles,
           ReconcileRunning, ReconcileExtracting, ReconcileQueued

\* ... its runs ...
LEMMA StuckRuns ==
    ASSUME IInv, [Next]_vars, NEW t \in Turns, Stuck(t), NEW r \in Runs,
           run'[r].t = t
    PROVE  Ended(r)'
  <1>1. \A q \in Runs : run[q].t = t => Ended(q)
    BY DEF Stuck
  <1>2. CASE run'[r] = run[r]
    BY <1>1, <1>2 DEF Ended
  <1>3. ASSUME run'[r] # run[r], NEW c \in Clients, SubmitWrites(c),
               run[r].st = "absent"
        PROVE  Ended(r)'
    <2>1. PICK q \in Runs :
             run' = [run EXCEPT ![q] = [st |-> "queued", t |-> client[c].t,
                                        p |-> client[c].p]]
      BY <1>3 DEF SubmitWrites, NextRun
    <2>2. q = r /\ run'[r].t = client[c].t
      BY <1>3, <2>1 DEF IInv, TypeOK
    <2>3. client[c].t # t
      BY <1>3 DEF SubmitWrites, Stuck
    <2> QED
      BY <2>2, <2>3
  <1>4. CASE run'[r] # run[r] /\ run'[r].t = run[r].t
    <2>1. Ended(r)
      BY <1>1, <1>4
    <2>2. run'[r].st \in {"cancelled", "failed", "succeeded"} \/ run[r].st = "absent"
             \/ run[r].st = "queued"
      BY <1>4, StatusWriters
    <2> QED
      BY <2>1, <2>2 DEF Ended
  <1> QED
    BY <1>2, <1>3, <1>4, StatusWriters

\* ... the workers ...
LEMMA StuckWorkers ==
    ASSUME IInv, [Next]_vars, NEW t \in Turns, Stuck(t), NEW w \in Workers,
           work'[w].pc \in RunStages
    PROVE  work'[w].t # t
  <1> USE StageFacts
  <1>0. /\ TypeOK /\ \A v \in Workers : work[v].pc \in RunStages => work[v].t # t
        /\ \A r \in Runs : run[r].t = t => Ended(r)
    BY DEF IInv, Stuck
  <1>1. CASE work'[w] = work[w]
    BY <1>0, <1>1
  <1>2. ASSUME NEW v \in Workers, NEW r \in Runs, RunStarts(v, r)
        PROVE  work'[w].t # t
    <2>1. run[r].t # t
      BY <1>0, <1>2 DEF RunStarts, Claimable, Ended
    <2>2. \A p, u : [IdleWorker EXCEPT !.pc = "analysing", !.r = r, !.t = u, !.p = p].t = u
      BY DEF IdleWorker
    <2>3. work'[v].t = run[r].t
      BY <1>0, <1>2, <2>2 DEF RunStarts, TypeOK
    <2>4. v # w => work'[w] = work[w]
      BY <1>0, <1>2 DEF RunStarts, TypeOK
    <2> QED
      BY <1>1, <2>1, <2>3, <2>4
  <1>3. ASSUME NEW v \in Workers, NEW s, Stage(v, s), work[v].pc \in RunStages
        PROVE  work'[w].t # t
    BY <1>0, <1>3 DEF Stage, TypeOK, Execution
  <1>4. ASSUME NEW v \in Workers, NEW s, s \notin RunStages, Stage(v, s)
        PROVE  work'[w].t # t
    BY <1>0, <1>4 DEF Stage, TypeOK, Execution
  <1>5. ASSUME NEW v \in Workers, Acknowledge(v) PROVE work'[w].t # t
    BY <1>0, <1>5 DEF Acknowledge, TypeOK, IdleWorker
  <1>6. ASSUME NEW v \in Workers, NEW u \in Turns, PlanStarts(v, u)
        PROVE  work'[w].t # t
    <2>1. work'[v].pc = "generating" /\ (v # w => work'[w] = work[w])
      BY <1>0, <1>6 DEF PlanStarts, TypeOK, IdleWorker
    <2> QED
      BY <1>1, <2>1
  <1>7. ASSUME NEW v \in Workers, NEW r \in Runs, ExtStarts(v, r)
        PROVE  work'[w].t # t
    <2>1. \A p, u : [IdleWorker EXCEPT !.pc = "extracting", !.r = r, !.t = u, !.p = p].pc
                       = "extracting"
      BY DEF IdleWorker
    <2>2. work'[v].pc = "extracting" /\ (v # w => work'[w] = work[w])
      BY <1>0, <1>7, <2>1 DEF ExtStarts, TypeOK
    <2> QED
      BY <1>1, <2>2
  <1>8. ASSUME NEW v \in Workers, PlanGenerated(v) PROVE work'[w].t # t
    <2>1. work'[v].pc = "binding" /\ (v # w => work'[w] = work[w])
      BY <1>0, <1>8 DEF PlanGenerated, TypeOK, Execution
    <2> QED
      BY <1>1, <2>1
  <1>9. ASSUME NEW v \in Workers, Works(v) PROVE work'[w].t # t
    BY <1>3, <1>4, <1>5, <1>8, <1>9
       DEF Works, PlanRefused, PlanBinds, PlanFails, Analysed, AnalysisFails,
           CompleteReads, CompleteWrites, CompleteFails, FailWrites, Extracted,
           ExtractFails, ExtSettles
  <1>10. CASE UNCHANGED work
    BY <1>1, <1>10
  <1> QED
    BY <1>2, <1>5, <1>6, <1>7, <1>9, <1>10
       DEF Next, vars, StartPlanning, ConfirmPlan, SubmitReads, SubmitWrites,
           CancelReads, Answers, CancelWrites, RequestFails, Dispatch, DispatchTwice,
           LoseMessage, Receives, PlanExists, RunSkipped, ExtSkipped, Crash, TaskDies,
           Reconciles, ReconcileRunning, ReconcileExtracting, ReconcileQueued

\* ... and the requests.
LEMMA StuckClients ==
    ASSUME IInv, [Next]_vars, NEW t \in Turns, Stuck(t), NEW c \in Clients,
           client'[c].pc = "submitting"
    PROVE  client'[c].t # t
  <1>0. /\ client \in [Clients -> Request] /\ turn[t] = "queued"
        /\ \A b \in Clients : client[b].pc = "submitting" => client[b].t # t
    BY DEF IInv, TypeOK, Stuck
  <1>1. CASE client'[c] = client[c]
    BY <1>0, <1>1
  <1>2. ASSUME NEW b \in Clients, NEW u \in Turns, SubmitReads(b, u)
        PROVE  client'[c].t # t
    <2>1. u # t
      BY <1>0, <1>2 DEF SubmitReads, RUNNABLE_TURN_STATUSES
    <2>2. \A p : [IdleClient EXCEPT !.pc = "submitting", !.t = u, !.p = p].t = u
      BY DEF IdleClient
    <2>3. client'[b].t = u /\ (b # c => client'[c] = client[c])
      BY <1>0, <1>2, <2>2 DEF SubmitReads
    <2> QED
      BY <1>1, <2>1, <2>3
  <1>3. ASSUME NEW b \in Clients, NEW r \in Runs, CancelReads(b, r)
        PROVE  client'[c].t # t
    <2>1. client'[b].pc = "cancelling" /\ (b # c => client'[c] = client[c])
      BY <1>0, <1>3 DEF CancelReads, IdleClient
    <2> QED
      BY <1>1, <2>1
  <1>4. ASSUME NEW b \in Clients, client' = [client EXCEPT ![b] = IdleClient]
        PROVE  client'[c].t # t
    <2>1. client'[b].pc = "idle" /\ (b # c => client'[c] = client[c])
      BY <1>0, <1>4 DEF IdleClient
    <2> QED
      BY <1>1, <2>1
  <1>5. CASE UNCHANGED client
    BY <1>1, <1>5
  <1> QED
    BY <1>2, <1>3, <1>4, <1>5
       DEF Next, vars, StartPlanning, ConfirmPlan, Answers, SubmitWrites, CancelWrites,
           RequestFails, Dispatch, DispatchTwice, LoseMessage, Receives, PlanStarts,
           PlanExists, RunStarts, RunSkipped, ExtStarts, ExtSkipped, Works,
           PlanGenerated, PlanRefused, PlanBinds, PlanFails, Analysed, AnalysisFails,
           CompleteReads, CompleteWrites, CompleteFails, FailWrites, Extracted,
           ExtractFails, ExtSettles, Crash, TaskDies, Reconciles, ReconcileRunning,
           ReconcileExtracting, ReconcileQueued

\* What reconcile_timeline leaves behind stays: a run without a message until it
\* is cancelled, a queued turn without a run, a clogged outbox.
THEOREM LeftBehind == Spec => NotReconciled
  <1> DEFINE Stays == /\ \A r \in Runs : Lost(r) => Lost(r)' \/ run'[r].st = "cancelled"
                      /\ \A t \in Turns : Stuck(t) => Stuck(t)'
                      /\ Clogged => Clogged'
  <1>1. IInv /\ [Next]_vars => [Stays]_vars
    <2> SUFFICES ASSUME IInv, [Next]_vars PROVE Stays
      OBVIOUS
    <2>1. ASSUME NEW t \in Turns, Stuck(t) PROVE Stuck(t)'
      BY <2>1, StuckTurn, StuckRuns, StuckWorkers, StuckClients DEF Stuck
    <2> QED
      BY <2>1, LostStays, CloggedStays
  <1> QED
    BY <1>1, Invariance, PTL DEF Spec, NotReconciled

-----------------------------------------------------------------------------
(* The refinement.  Of a step, TurnLedger sees the rows of runs and        *)
(* extractions, what the workers hold, the analyses and the answers.       *)

LEMMA LedgerInit == Init => Ledger!Init
  <1> SUFFICES ASSUME Init PROVE Ledger!Init
    OBVIOUS
  <1>1. \A w \in Workers : OnDesk(work[w]) = Ledger!Free
    BY StageFacts DEF Init, IdleWorker, OnDesk, Ledger!Free
  <1>2. Desk = [w \in Workers |-> Ledger!Free]
    BY <1>1 DEF Desk
  <1>3. Orders = [r \in Runs |-> Ledger!NoOrder]
    BY DEF Init, Orders, Ledger!NoOrder
  <1>4. Waiting = {} /\ Offered = {}
    BY DEF Init, Waiting, Offered
  <1> QED
    BY <1>2, <1>3, <1>4 DEF Init, Ledger!Init

\* What an execution is to the ledger.
LEMMA DeskFacts ==
    /\ \A e : e.pc \in RunStages => OnDesk(e) = Ledger!Held("run", e.r)
    /\ \A e : e.pc \in ExtStages => OnDesk(e) = Ledger!Held("ext", e.r)
    /\ \A e : e.pc \notin RunStages \cup ExtStages => OnDesk(e) = Ledger!Free
    /\ OnDesk(IdleWorker) = Ledger!Free
  BY StageFacts DEF OnDesk, Ledger!Held, Ledger!Free, IdleWorker, RunStages,
                    ExtStages

\* The steps of one execution, seen on its desk.
LEMMA DeskSteps ==
    ASSUME TypeOK, NEW w \in Workers
    PROVE  /\ Desk[w] = OnDesk(work[w])
           /\ UNCHANGED work => UNCHANGED Desk
           /\ \A e : work' = [work EXCEPT ![w] = e]
                        => Desk' = [Desk EXCEPT ![w] = OnDesk(e)]
           /\ Acknowledge(w) => Desk' = [Desk EXCEPT ![w] = Ledger!Free]
  <1>0. work \in [Workers -> Execution]
    BY DEF TypeOK
  <1>1. Desk[w] = OnDesk(work[w])
    BY DEF Desk
  <1>2. UNCHANGED work => UNCHANGED Desk
    BY DEF Desk
  <1>3. ASSUME NEW e, work' = [work EXCEPT ![w] = e]
        PROVE  Desk' = [Desk EXCEPT ![w] = OnDesk(e)]
    BY <1>0, <1>3 DEF Desk
  <1>4. Acknowledge(w) => Desk' = [Desk EXCEPT ![w] = Ledger!Free]
    BY <1>3, DeskFacts DEF Acknowledge
  <1>5. \A e : work' = [work EXCEPT ![w] = e]
                  => Desk' = [Desk EXCEPT ![w] = OnDesk(e)]
    BY <1>3
  <1> QED
    BY <1>1, <1>2, <1>4, <1>5

LEMMA StageSame ==
    ASSUME TypeOK, NEW w \in Workers, NEW s, Stage(w, s),
           s \in RunStages <=> work[w].pc \in RunStages,
           s \in ExtStages <=> work[w].pc \in ExtStages
    PROVE  UNCHANGED Desk
  <1>0. work \in [Workers -> Execution]
    BY DEF TypeOK
  <1>1. /\ \A v \in Workers : v # w => work'[v] = work[v]
        /\ work'[w].pc = s /\ work'[w].r = work[w].r
    BY <1>0 DEF Stage, Execution
  <1>2. OnDesk(work'[w]) = OnDesk(work[w])
    BY <1>1, DeskFacts
  <1>3. \A v \in Workers : OnDesk(work'[v]) = OnDesk(work[v])
    BY <1>1, <1>2
  <1> QED
    BY <1>3 DEF Desk

\* A run that moves on after its order was placed.
LEMMA OrderKept ==
    ASSUME NEW r \in Runs, run[r].st # "absent",
           run'[r].st \notin {"absent", "queued"},
           run'[r].t = run[r].t, run'[r].p = run[r].p,
           \A q \in Runs : q # r => run'[q] = run[q]
    PROVE  /\ Orders' = Orders
           /\ Waiting' = Waiting \ {r}
           /\ run[r].st # "queued" => Waiting' = Waiting
  <1>1. Orders' = Orders
    BY DEF Orders
  <1>2. Waiting' = Waiting \ {r}
    BY DEF Waiting
  <1> QED
    BY <1>1, <1>2 DEF Waiting

LEMMA StatusOnly ==
    ASSUME TypeOK, NEW r \in Runs, NEW s, run' = [run EXCEPT ![r].st = s]
    PROVE  /\ run'[r].st = s /\ run'[r].t = run[r].t /\ run'[r].p = run[r].p
           /\ \A q \in Runs : q # r => run'[q] = run[q]
  BY DEF TypeOK, RunRow

\* What a step leaves alone, the ledger does not see change.
LEMMA SameLedger ==
    /\ UNCHANGED run => UNCHANGED <<Orders, Waiting>>
    /\ UNCHANGED ext => UNCHANGED Offered
    /\ UNCHANGED data => UNCHANGED <<Orders, Waiting, Offered, analysed, result>>
  BY DEF data, Orders, Waiting, Offered

LEMMA LedgerOrder ==
    ASSUME IInv, NEW c \in Clients, SubmitWrites(c)
    PROVE  \E r \in Runs, t \in Turns, p \in Plans : Ledger!Order(r, t, p)
  <1>0. TypeOK /\ ReadersInv
    BY DEF IInv
  <1>1. PICK r \in NextRun :
           run' = [run EXCEPT ![r] = [st |-> "queued", t |-> client[c].t,
                                      p |-> client[c].p]]
    BY DEF SubmitWrites
  <1>2. r \in Runs /\ run[r].st = "absent" /\ run \in [Runs -> RunRow]
    BY <1>0, <1>1 DEF NextRun, TypeOK
  <1>3. client[c].t \in Turns /\ client[c].p \in Plans
    BY <1>0 DEF SubmitWrites, ReadersInv
  <1>4. Waiting = {}
    BY DEF SubmitWrites, Busy, ActiveRun, Waiting
  <1>5. /\ run'[r].st = "queued"
        /\ run'[r].t = client[c].t /\ run'[r].p = client[c].p
        /\ \A q \in Runs : q # r => run'[q] = run[q]
    BY <1>1, <1>2
  <1>6. Waiting' = {r}
    BY <1>2, <1>4, <1>5 DEF Waiting
  <1>7. Orders[r] = Ledger!NoOrder
    BY <1>2 DEF Orders, Ledger!NoOrder
  <1>8. Orders' = [Orders EXCEPT ![r] = [t |-> client[c].t, p |-> client[c].p]]
    BY <1>2, <1>5 DEF Orders
  <1>9. UNCHANGED <<Offered, Desk, analysed, result>>
    BY DEF SubmitWrites, Offered, Desk
  <1>10. Ledger!Order(r, client[c].t, client[c].p)
    BY <1>4, <1>6, <1>7, <1>8, <1>9 DEF Ledger!Order
  <1> QED
    BY <1>2, <1>3, <1>10

LEMMA LedgerWithdraw ==
    ASSUME IInv, NEW c \in Clients, CancelWrites(c)
    PROVE  \E r \in Runs : Ledger!Withdraw(r)
  <1>1. client[c].r \in Runs /\ run[client[c].r].st # "absent"
    BY DEF CancelWrites, IInv, ReadersInv
  <1>2. UNCHANGED Orders /\ Waiting' = Waiting \ {client[c].r}
    <2>1. TypeOK /\ run' = [run EXCEPT ![client[c].r].st = "cancelled"]
      BY DEF CancelWrites, IInv
    <2>2. /\ run'[client[c].r].st = "cancelled"
          /\ run'[client[c].r].t = run[client[c].r].t
          /\ run'[client[c].r].p = run[client[c].r].p
          /\ \A q \in Runs : q # client[c].r => run'[q] = run[q]
      BY <1>1, <2>1, StatusOnly
    <2> QED
      BY <1>1, <2>2, OrderKept
  <1>3. UNCHANGED <<Offered, Desk, analysed, result>>
    BY DEF CancelWrites, Offered, Desk
  <1> QED
    BY <1>1, <1>2, <1>3 DEF Ledger!Withdraw

LEMMA LedgerTakeRun ==
    ASSUME IInv, NEW w \in Workers, NEW r \in Runs, RunStarts(w, r)
    PROVE  Ledger!TakeRun(w, r)
  <1>0. TypeOK
    BY DEF IInv
  <1>1. r \in Waiting
    BY DEF RunStarts, Claimable, Waiting
  <1>2. Desk[w] = Ledger!Free
    BY <1>0, DeskSteps, DeskFacts, StageFacts DEF RunStarts
  <1>3. UNCHANGED Orders /\ Waiting' = Waiting \ {r}
    <2>1. run[r].st = "queued" /\ run' = [run EXCEPT ![r].st = "running"]
      BY DEF RunStarts, Claimable
    <2>2. /\ run'[r].st = "running" /\ run'[r].t = run[r].t
          /\ run'[r].p = run[r].p
          /\ \A q \in Runs : q # r => run'[q] = run[q]
      BY <1>0, <2>1, StatusOnly
    <2> QED
      BY <2>1, <2>2, OrderKept
  <1> DEFINE e == [IdleWorker EXCEPT !.pc = "analysing", !.r = r,
                                     !.t = run[r].t, !.p = run[r].p]
  <1>4. e.pc = "analysing" /\ e.r = r
    BY DEF IdleWorker
  <1>5. work' = [work EXCEPT ![w] = e]
    BY DEF RunStarts
  <1> HIDE DEF e
  <1>6. Desk' = [Desk EXCEPT ![w] = OnDesk(e)]
    BY <1>0, <1>5, DeskSteps
  <1>7. OnDesk(e) = Ledger!Held("run", r)
    BY <1>4, DeskFacts, StageFacts
  <1>8. UNCHANGED <<Offered, analysed, result>>
    BY DEF RunStarts, Offered
  <1> QED
    BY <1>1, <1>2, <1>3, <1>6, <1>7, <1>8 DEF Ledger!TakeRun

LEMMA LedgerStudy ==
    ASSUME IInv, NEW w \in Workers, Analysed(w)
    PROVE  \E r \in Runs : Ledger!Study(w, r)
  <1> DEFINE r == work[w].r
  <1>0. TypeOK
    BY DEF IInv
  <1>1. /\ r \in Runs /\ run[r].st # "absent" /\ work[w].p = run[r].p
    BY StageFacts DEF Analysed, IInv, ExecutionsInv, Executes
  <1>2. Desk[w] = Ledger!Held("run", r)
    BY <1>0, DeskSteps, DeskFacts, StageFacts DEF Analysed
  <1>3. UNCHANGED Desk
    BY <1>0, StageSame, StageFacts DEF Analysed
  <1>4. Orders[r].p = work[w].p
    BY <1>1 DEF Orders
  <1>5. UNCHANGED <<Orders, Waiting, Offered, result>>
    BY DEF Analysed, Orders, Waiting, Offered
  <1>6. analysed' = analysed \cup {work[w].p}
    BY DEF Analysed
  <1> QED
    BY <1>1, <1>2, <1>3, <1>4, <1>5, <1>6 DEF Ledger!Study

LEMMA LedgerAnswer ==
    ASSUME IInv, NEW w \in Workers, CompleteWrites(w)
    PROVE  \E r \in Runs : Ledger!Answer(w, r)
  <1> DEFINE r == work[w].r
  <1>0. TypeOK
    BY DEF IInv
  <1>1. /\ r \in Runs /\ run[r].st \notin {"absent", "queued"}
        /\ work[w].t = run[r].t /\ run[r].p \in analysed
    BY StageFacts DEF CompleteWrites, IInv, ExecutionsInv, Executes
  <1>2. Desk[w] = Ledger!Held("run", r)
    BY <1>0, DeskSteps, DeskFacts, StageFacts DEF CompleteWrites
  <1>3. Desk' = [Desk EXCEPT ![w] = Ledger!Free]
    BY <1>0, DeskSteps DEF CompleteWrites
  <1>4. Orders[r].p = run[r].p /\ Orders[r].t = work[w].t
    BY <1>1 DEF Orders
  <1>5. UNCHANGED Orders /\ UNCHANGED Waiting
    <2>1. run' = [run EXCEPT ![r].st = "succeeded"]
      BY DEF CompleteWrites
    <2> HIDE DEF r
    <2>2. /\ run'[r].st = "succeeded" /\ run'[r].t = run[r].t
          /\ run'[r].p = run[r].p
          /\ \A q \in Runs : q # r => run'[q] = run[q]
      BY <1>0, <1>1, <2>1, StatusOnly
    <2> QED
      BY <1>1, <2>2, OrderKept
  <1>6. Offered' = Offered \cup {r}
    BY <1>0, <1>1 DEF CompleteWrites, Offered, TypeOK
  <1>7. result[work[w].t] = 0 /\ result' = [result EXCEPT ![work[w].t] = r]
    BY DEF CompleteWrites
  <1>8. UNCHANGED analysed
    BY DEF CompleteWrites
  <1> QED
    BY <1>1, <1>2, <1>3, <1>4, <1>5, <1>6, <1>7, <1>8 DEF Ledger!Answer

LEMMA LedgerTakeExtraction ==
    ASSUME IInv, NEW w \in Workers, NEW r \in Runs, ExtStarts(w, r)
    PROVE  Ledger!TakeExtraction(w, r)
  <1>0. TypeOK
    BY DEF IInv
  <1>1. r \in Offered
    BY DEF ExtStarts, ExtClaimable, Offered
  <1>2. Desk[w] = Ledger!Free
    BY <1>0, DeskSteps, DeskFacts, StageFacts DEF ExtStarts
  <1>3. Offered' = Offered \ {r}
    BY <1>0 DEF ExtStarts, Offered, TypeOK
  <1> DEFINE e == [IdleWorker EXCEPT !.pc = "extracting", !.r = r,
                      !.t = run[r].t, !.p = Latest(PlansOf(run[r].t))]
  <1>4. e.pc = "extracting" /\ e.r = r
    BY DEF IdleWorker
  <1>5. work' = [work EXCEPT ![w] = e]
    BY DEF ExtStarts
  <1> HIDE DEF e
  <1>6. Desk' = [Desk EXCEPT ![w] = OnDesk(e)]
    BY <1>0, <1>5, DeskSteps
  <1>7. OnDesk(e) = Ledger!Held("ext", r)
    BY <1>4, DeskFacts, StageFacts
  <1>8. UNCHANGED <<Orders, Waiting, analysed, result>>
    BY DEF ExtStarts, Orders, Waiting
  <1> QED
    BY <1>1, <1>2, <1>3, <1>6, <1>7, <1>8 DEF Ledger!TakeExtraction

\* An execution that ends without an answer.
LEMMA LedgerDrop ==
    ASSUME IInv, NEW w \in Workers, Acknowledge(w),
           \/ UNCHANGED data
           \/ PlanBinds(w) \/ PlanFails(w) \/ FailWrites(w) \/ ExtSettles(w)
    PROVE  Ledger!Drop(w)
  <1>0. TypeOK
    BY DEF IInv
  <1>1. Desk' = [Desk EXCEPT ![w] = Ledger!Free]
    BY <1>0, DeskSteps
  <1>2. ASSUME UNCHANGED data \/ PlanBinds(w) \/ PlanFails(w)
        PROVE  UNCHANGED <<Orders, Waiting, Offered, analysed, result>>
    BY <1>2, SameLedger DEF PlanBinds, PlanFails, data
  <1>3. ASSUME FailWrites(w)
        PROVE  UNCHANGED <<Orders, Waiting, Offered, analysed, result>>
    <2>1. /\ work[w].r \in Runs
          /\ run[work[w].r].st \notin {"absent", "queued"}
      BY <1>3, StageFacts DEF FailWrites, IInv, ExecutionsInv, Executes
    <2> DEFINE r == work[w].r
    <2>2. run' = run \/ run' = [run EXCEPT ![r].st = "failed"]
      BY <1>3 DEF FailWrites
    <2> HIDE DEF r
    <2>3. ASSUME run' = [run EXCEPT ![r].st = "failed"]
          PROVE  UNCHANGED <<Orders, Waiting>>
      <3>1. /\ run'[r].st = "failed" /\ run'[r].t = run[r].t
            /\ run'[r].p = run[r].p
            /\ \A q \in Runs : q # r => run'[q] = run[q]
        BY <1>0, <2>1, <2>3, StatusOnly DEF r
      <3> QED
        BY <2>1, <3>1, OrderKept DEF r
    <2>4. UNCHANGED <<Orders, Waiting>>
      BY <2>2, <2>3, SameLedger
    <2> QED
      BY <1>3, <2>4, SameLedger DEF FailWrites
  <1>4. ASSUME ExtSettles(w)
        PROVE  UNCHANGED <<Orders, Waiting, Offered, analysed, result>>
    <2>1. UNCHANGED Offered
      BY <1>0, <1>4 DEF ExtSettles, Offered, TypeOK
    <2> QED
      BY <1>4, <2>1, SameLedger DEF ExtSettles
  <1> QED
    BY <1>1, <1>2, <1>3, <1>4 DEF Ledger!Drop

LedgerSame == UNCHANGED <<Orders, Waiting, Offered, Desk, analysed, result>>

\* What the ledger does not see: planning, delivery, reading and reconciling.
LEMMA LedgerApi ==
    ASSUME IInv,
           \/ UNCHANGED data /\ UNCHANGED work
           \/ \E t \in Turns : StartPlanning(t) \/ ConfirmPlan(t)
           \/ \E w \in Workers, t \in Turns : PlanExists(w, t)
    PROVE  LedgerSame
  BY SameLedger DEF LedgerSame, data, Desk, StartPlanning, ConfirmPlan, PlanExists

LEMMA LedgerReconcile ==
    ASSUME IInv, NEW r \in Runs, Reconciles(r)
    PROVE  LedgerSame
  <1>0. TypeOK
    BY DEF IInv
  <1>1. ASSUME ReconcileRunning(r) PROVE LedgerSame
    <2>1. run[r].st = "running" /\ run' = [run EXCEPT ![r].st = "failed"]
      BY <1>1 DEF ReconcileRunning
    <2>2. /\ run'[r].st = "failed" /\ run'[r].t = run[r].t
          /\ run'[r].p = run[r].p
          /\ \A q \in Runs : q # r => run'[q] = run[q]
      BY <1>0, <2>1, StatusOnly
    <2>3. UNCHANGED Orders /\ UNCHANGED Waiting
      BY <2>1, <2>2, OrderKept
    <2> QED
      BY <1>1, <2>3 DEF ReconcileRunning, LedgerSame, Offered, Desk
  <1>2. ASSUME ReconcileExtracting(r) PROVE LedgerSame
    <2>1. UNCHANGED Offered
      BY <1>0, <1>2 DEF ReconcileExtracting, Offered, TypeOK
    <2> QED
      BY <1>2, <2>1 DEF ReconcileExtracting, LedgerSame, Orders, Waiting, Desk
  <1>3. ASSUME ReconcileQueued(r) PROVE LedgerSame
    BY <1>3, LedgerApi DEF ReconcileQueued
  <1> QED
    BY <1>1, <1>2, <1>3 DEF Reconciles

LEMMA PlanStartsFacts ==
    ASSUME TypeOK, NEW w \in Workers, NEW t \in Turns, PlanStarts(w, t)
    PROVE  /\ run' = run /\ ext' = ext /\ analysed' = analysed /\ result' = result
           /\ \A v \in Workers : v # w => work'[v] = work[v]
           /\ work[w].pc = "idle" /\ work'[w].pc = "generating"
  BY DEF PlanStarts, data, TypeOK, IdleWorker

LEMMA LedgerPlanning ==
    ASSUME IInv, NEW w \in Workers,
           \/ \E t \in Turns : PlanStarts(w, t)
           \/ PlanGenerated(w) \/ PlanRefused(w)
    PROVE  LedgerSame
  <1>0. TypeOK /\ work \in [Workers -> Execution]
    BY DEF IInv, TypeOK
  <1>1. run' = run /\ ext' = ext /\ analysed' = analysed /\ result' = result
    <2>1. ASSUME NEW t \in Turns, PlanStarts(w, t)
          PROVE  run' = run /\ ext' = ext /\ analysed' = analysed /\ result' = result
      BY <1>0, <2>1, PlanStartsFacts
    <2>2. ASSUME PlanGenerated(w)
          PROVE  run' = run /\ ext' = ext /\ analysed' = analysed /\ result' = result
      BY <2>2 DEF PlanGenerated
    <2>3. ASSUME PlanRefused(w)
          PROVE  run' = run /\ ext' = ext /\ analysed' = analysed /\ result' = result
      BY <2>3 DEF PlanRefused, data
    <2> QED
      BY <2>1, <2>2, <2>3
  <1>2. /\ \A v \in Workers : v # w => work'[v] = work[v]
        /\ work[w].pc \in PlanStages \cup {"idle"}
        /\ work'[w].pc \in PlanStages
    <2>1. ASSUME NEW t \in Turns, PlanStarts(w, t)
          PROVE  /\ \A v \in Workers : v # w => work'[v] = work[v]
                 /\ work[w].pc = "idle" /\ work'[w].pc = "generating"
      BY <1>0, <2>1, PlanStartsFacts
    <2>2. ASSUME PlanGenerated(w)
          PROVE  /\ \A v \in Workers : v # w => work'[v] = work[v]
                 /\ work[w].pc = "generating" /\ work'[w].pc = "binding"
      <3>1. work[w].pc = "generating"
        BY <2>2 DEF PlanGenerated
      <3>2. PICK p : work' = [work EXCEPT ![w].pc = "binding", ![w].p = p]
        BY <2>2 DEF PlanGenerated
      <3>3. \A v \in Workers : v # w => work'[v] = work[v]
        BY <1>0, <3>2
      <3>4. \A e \in Execution : [e EXCEPT !.pc = "binding", !.p = p].pc = "binding"
        BY DEF Execution
      <3>5. work'[w] = [work[w] EXCEPT !.pc = "binding", !.p = p]
        BY <1>0, <3>2
      <3> QED
        BY <1>0, <3>1, <3>3, <3>4, <3>5
    <2>3. ASSUME PlanRefused(w)
          PROVE  /\ \A v \in Workers : v # w => work'[v] = work[v]
                 /\ work[w].pc = "generating" /\ work'[w].pc = "plan_failing"
      BY <1>0, <2>3 DEF PlanRefused, Stage, Execution
    <2> QED
      BY <2>1, <2>2, <2>3, StageFacts
  <1>3. \A v \in Workers : OnDesk(work'[v]) = OnDesk(work[v])
    BY <1>2, DeskFacts, StageFacts
  <1>4. UNCHANGED Desk
    BY <1>3 DEF Desk
  <1> QED
    BY <1>1, <1>4, SameLedger DEF LedgerSame

LEMMA LedgerForward ==
    ASSUME IInv, NEW w \in Workers, UNCHANGED data, NEW s, Stage(w, s),
           \/ work[w].pc \in RunStages /\ s \in RunStages
           \/ work[w].pc \in ExtStages /\ s \in ExtStages
    PROVE  LedgerSame
  <1>1. UNCHANGED Desk
    BY StageSame, StageFacts DEF IInv
  <1> QED
    BY <1>1, SameLedger DEF LedgerSame

LEMMA LedgerWorks ==
    ASSUME IInv, NEW w \in Workers, Works(w)
    PROVE  \/ LedgerSame
           \/ Ledger!Drop(w)
           \/ \E r \in Runs : Ledger!Study(w, r) \/ Ledger!Answer(w, r)
  <1> USE StageFacts
  <1>1. ASSUME PlanGenerated(w) \/ PlanRefused(w) PROVE LedgerSame
    BY <1>1, LedgerPlanning
  <1>2. ASSUME PlanBinds(w) \/ PlanFails(w) \/ FailWrites(w) \/ ExtSettles(w)
        PROVE  Ledger!Drop(w)
    <2>1. Acknowledge(w)
      BY <1>2 DEF PlanBinds, PlanFails, FailWrites, ExtSettles
    <2> QED
      BY <1>2, <2>1, LedgerDrop
  <1>3. ASSUME AnalysisFails(w) \/ CompleteFails(w) PROVE LedgerSame
    BY <1>3, LedgerForward DEF AnalysisFails, CompleteFails
  <1>4. ASSUME CompleteReads(w) PROVE LedgerSame \/ Ledger!Drop(w)
    BY <1>4, LedgerForward, LedgerDrop DEF CompleteReads
  <1>5. ASSUME Extracted(w) \/ ExtractFails(w) PROVE LedgerSame
    BY <1>5, LedgerForward DEF Extracted, ExtractFails
  <1>6. ASSUME Analysed(w) PROVE \E r \in Runs : Ledger!Study(w, r)
    BY <1>6, LedgerStudy
  <1>7. ASSUME CompleteWrites(w) PROVE \E r \in Runs : Ledger!Answer(w, r)
    BY <1>7, LedgerAnswer
  <1> QED
    BY <1>1, <1>2, <1>3, <1>4, <1>5, <1>6, <1>7 DEF Works

\* How TurnLedger's next-state relation is reached.
LEMMA LedgerMoves ==
    /\ \A w \in Workers : Ledger!Drop(w) => Ledger!Next
    /\ \A r \in Runs :
         /\ Ledger!Withdraw(r) => Ledger!Next
         /\ \A t \in Turns, p \in Plans : Ledger!Order(r, t, p) => Ledger!Next
         /\ \A w \in Workers :
              Ledger!TakeRun(w, r) \/ Ledger!Study(w, r) \/ Ledger!Answer(w, r)
              \/ Ledger!TakeExtraction(w, r) => Ledger!Next
  BY DEF Ledger!Next

LEMMA LedgerNext ==
    ASSUME IInv, [Next]_vars
    PROVE  Ledger!Next \/ LedgerSame
  <1>1. CASE UNCHANGED vars
    <2>1. UNCHANGED data /\ UNCHANGED work
      BY <1>1 DEF vars, data
    <2> QED
      BY <2>1, LedgerApi
  <1>2. ASSUME NEW t \in Turns, StartPlanning(t) \/ ConfirmPlan(t) PROVE LedgerSame
    BY <1>2, LedgerApi
  <1>3. ASSUME NEW c \in Clients, \/ \E t \in Turns : SubmitReads(c, t)
                                  \/ \E r \in Runs : CancelReads(c, r)
                                  \/ RequestFails(c)
        PROVE  LedgerSame
    <2>1. ASSUME NEW t \in Turns, SubmitReads(c, t)
          PROVE  UNCHANGED data /\ UNCHANGED work
      BY <2>1 DEF SubmitReads
    <2>2. ASSUME NEW r \in Runs, CancelReads(c, r)
          PROVE  UNCHANGED data /\ UNCHANGED work
      BY <2>2 DEF CancelReads
    <2>3. ASSUME RequestFails(c)
          PROVE  UNCHANGED data /\ UNCHANGED work
      BY <2>3 DEF RequestFails
    <2>4. UNCHANGED data /\ UNCHANGED work
      BY <1>3, <2>1, <2>2, <2>3
    <2> QED
      BY <2>4, LedgerApi
  <1>4. ASSUME NEW c \in Clients, SubmitWrites(c) \/ CancelWrites(c)
        PROVE  Ledger!Next
    BY <1>4, LedgerOrder, LedgerWithdraw, LedgerMoves
  <1>5. ASSUME NEW m \in Tasks, Dispatch(m) \/ DispatchTwice(m) \/ LoseMessage(m)
        PROVE  LedgerSame
    BY <1>5, LedgerApi DEF Dispatch, DispatchTwice, LoseMessage
  <1>6. ASSUME NEW m \in Tasks, Receives(m) PROVE Ledger!Next \/ LedgerSame
    <2>1. ASSUME NEW w \in Workers, NEW t \in Turns, PlanStarts(w, t) \/ PlanExists(w, t)
          PROVE  LedgerSame
      BY <2>1, LedgerPlanning, LedgerApi
    <2>2. ASSUME NEW w \in Workers, NEW r \in Runs, RunStarts(w, r) \/ ExtStarts(w, r)
          PROVE  Ledger!Next
      BY <2>2, LedgerTakeRun, LedgerTakeExtraction, LedgerMoves
    <2>3. ASSUME NEW w \in Workers, NEW r \in Runs, RunSkipped(w, r) \/ ExtSkipped(w, r)
          PROVE  LedgerSame
      BY <2>3, LedgerApi DEF RunSkipped, ExtSkipped
    <2> QED
      BY <1>6, <2>1, <2>2, <2>3 DEF Receives
  <1>7. ASSUME NEW w \in Workers, Works(w) PROVE Ledger!Next \/ LedgerSame
    BY <1>7, LedgerWorks, LedgerMoves
  <1>8. ASSUME NEW w \in Workers, Crash(w) \/ TaskDies(w) PROVE Ledger!Next
    <2>1. Acknowledge(w) /\ UNCHANGED data
      BY <1>8 DEF Crash, TaskDies
    <2> QED
      BY <2>1, LedgerDrop, LedgerMoves
  <1>9. ASSUME NEW r \in Runs, Reconciles(r) PROVE LedgerSame
    BY <1>9, LedgerReconcile
  <1> QED
    BY <1>1, <1>2, <1>3, <1>4, <1>5, <1>6, <1>7, <1>8, <1>9 DEF Next, Answers

\* For any number of turns, requests, workers and messages, the timeline is a
\* TurnLedger: a run is handed out once and answers its turn once, from the
\* analysis of its own plan, and only an answer has an extraction
\* (execute_analysis_run, TimelineRunFinalizer, extract_candidates).
THEOREM TimelineIsLedger == Spec => ImplementsLedger
  <1>1. IInv /\ [Next]_vars
           => [Ledger!Next]_<<Orders, Waiting, Offered, Desk, analysed, result>>
    BY LedgerNext DEF LedgerSame
  <1> QED
    BY <1>1, LedgerInit, Invariance, PTL
       DEF Spec, ImplementsLedger, Ledger!Spec, Ledger!vars, Orders, Waiting,
           Offered, Desk

\* What a step of TurnLedger, or none, does to orders, offers and answers.
LEMMA LedgerKeeps ==
    ASSUME [Ledger!Next]_<<Orders, Waiting, Offered, Desk, analysed, result>>
    PROVE  /\ \A r \in Runs : Orders[r] # Ledger!NoOrder =>
                 Orders'[r] = Orders[r] /\ (r \in Waiting' => r \in Waiting)
           /\ \A r \in Runs : result[Orders[r].t] = r /\ r \in Offered'
                 => r \in Offered
           /\ \A t \in Turns : result[t] # 0 => result'[t] = result[t]
  <1> DEFINE Kept ==
           /\ \A r \in Runs : Orders[r] # Ledger!NoOrder =>
                 Orders'[r] = Orders[r] /\ (r \in Waiting' => r \in Waiting)
           /\ \A r \in Runs : result[Orders[r].t] = r /\ r \in Offered'
                 => r \in Offered
           /\ \A t \in Turns : result[t] # 0 => result'[t] = result[t]
  <1>1. LedgerSame => Kept
    BY DEF LedgerSame
  <1>2. \A w \in Workers : Ledger!Drop(w) => Kept
    BY DEF Ledger!Drop
  <1>3. ASSUME NEW r \in Runs PROVE Ledger!Withdraw(r) => Kept
    BY DEF Ledger!Withdraw
  <1>4. ASSUME NEW r \in Runs, NEW t \in Turns, NEW p \in Plans
        PROVE  Ledger!Order(r, t, p) => Kept
    BY DEF Ledger!Order, Orders
  <1>5. ASSUME NEW r \in Runs, NEW w \in Workers
        PROVE  Ledger!TakeRun(w, r) \/ Ledger!Study(w, r)
                 \/ Ledger!TakeExtraction(w, r) => Kept
    BY DEF Ledger!TakeRun, Ledger!Study, Ledger!TakeExtraction
  <1>6. ASSUME NEW r \in Runs, NEW w \in Workers
        PROVE  Ledger!Answer(w, r) => Kept
    BY DEF Ledger!Answer, Runs
  <1> QED
    BY <1>1, <1>2, <1>3, <1>4, <1>5, <1>6 DEF Ledger!Next, LedgerSame

\* A run that was claimed is never queued again, nor is an extraction, and the
\* result of a turn is final: from the ledger, where nothing comes back.
THEOREM HandedOutOnceAlways == Spec => HandedOutOnce
  <1>1. ASSUME IInv, IInv', [Next]_vars, NEW r \in Runs, run[r].st # "absent"
        PROVE  /\ run'[r].t = run[r].t /\ run'[r].p = run[r].p
               /\ run'[r].st = "queued" => run[r].st = "queued"
               /\ ext[r] # "absent" /\ ext'[r] = "queued" => ext[r] = "queued"
    <2>1. Orders[r] = [t |-> run[r].t, p |-> run[r].p]
      BY <1>1 DEF Orders
    <2>2. Orders[r] # Ledger!NoOrder
      BY <1>1, <2>1, TimelineAssumption DEF IInv, RowsInv, Ledger!NoOrder
    <2>3. /\ Orders'[r] = Orders[r] /\ (r \in Waiting' => r \in Waiting)
          /\ result[Orders[r].t] = r /\ r \in Offered' => r \in Offered
      BY <1>1, <2>2, LedgerNext, LedgerKeeps DEF LedgerSame
    <2>4. run'[r].st # "absent" /\ Orders'[r] = [t |-> run'[r].t, p |-> run'[r].p]
      BY <2>2, <2>3 DEF Orders, Ledger!NoOrder
    <2>5. ext[r] # "absent" => result[Orders[r].t] = r
      BY <1>1, <2>1 DEF IInv, ResultInv
    <2> QED
      BY <2>1, <2>3, <2>4, <2>5 DEF Waiting, Offered
  <1>2. ASSUME IInv, [Next]_vars, NEW t \in Turns, result[t] # 0
        PROVE  result'[t] = result[t]
    BY <1>2, LedgerNext, LedgerKeeps DEF LedgerSame
  <1>3. IInv /\ IInv' /\ [Next]_vars =>
          [/\ \A r \in Runs : run[r].st # "absent" =>
                /\ run'[r].t = run[r].t /\ run'[r].p = run[r].p
                /\ run'[r].st = "queued" => run[r].st = "queued"
                /\ ext[r] # "absent" /\ ext'[r] = "queued" => ext[r] = "queued"
           /\ \A t \in Turns : result[t] # 0 => result'[t] = result[t]]_vars
    BY <1>1, <1>2
  <1> QED
    BY <1>3, Invariance, PTL DEF Spec, HandedOutOnce

=============================================================================
