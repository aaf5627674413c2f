-------------------------- MODULE TimelinePlanProofs --------------------------
(***************************************************************************)
(* A turn of Timeline gets one plan version unless its message was         *)
(* delivered twice, and nothing that was asked for is forgotten unless a   *)
(* fault explains it, for any turns, workers, requests, bounds and faults. *)
(*                                                                         *)
(* What carries the order to plan a turn is in one place only: an event, a *)
(* message or a worker that plans.  Each place changes in a quiet way but  *)
(* for the one or two steps that move the order on (the Case lemmas).      *)
(* That something carries an order at all is the second part: an event or  *)
(* a message is there until it is lost or received, a worker until it ends *)
(* or dies, and what a row becomes meanwhile excuses the rest.             *)
(***************************************************************************)
EXTENDS TimelineProofs, FiniteSetTheorems

\* An event list holds m, and holds it at one position.
Has(q, m) == \E i \in DOMAIN q : q[i] = m
Single(q, m) == \A i, k \in DOMAIN q : (q[i] = m /\ q[k] = m) => i = k

Planners(t) == {w \in Workers : work[w].pc \in PlanStages /\ work[w].t = t}

\* The order to plan t is in at most one place; a turn that can be planned has
\* neither an order nor a plan, and a turn that is being planned has no plan yet.
OneTurn(t) ==
    /\ Single(outbox, PlanTask(t))
    /\ msgs[PlanTask(t)] <= 1
    /\ \A v, w \in Planners(t) : v = w
    /\ Has(outbox, PlanTask(t)) => msgs[PlanTask(t)] = 0 /\ Planners(t) = {}
    /\ msgs[PlanTask(t)] > 0 => Planners(t) = {}
    /\ turn[t] \in CAN_PLAN =>
         /\ ~Has(outbox, PlanTask(t))
         /\ msgs[PlanTask(t)] = 0
         /\ Planners(t) = {}
         /\ PlansOf(t) = {}
    /\ Planners(t) # {} => PlansOf(t) = {}
    /\ \A p, q \in PlansOf(t) : p = q

OnePlanInv == used["crash"] = 0 => \A t \in Turns : OneTurn(t)

-----------------------------------------------------------------------------
(* Event lists.                                                            *)
LEMMA PlanTasksDiffer ==
    /\ \A t, u : PlanTask(t) = PlanTask(u) => t = u
    /\ \A t, r : PlanTask(t) # RunTask(r) /\ PlanTask(t) # ExtTask(r)
    /\ \A t : PlanTask(t) # DeadEvent
  BY DEF PlanTask, RunTask, ExtTask, DeadEvent

LEMMA Appended ==
    ASSUME NEW S, NEW q \in Seq(S), NEW x \in S, NEW m
    PROVE  /\ x # m /\ Has(Append(q, x), m) => Has(q, m)
           /\ x # m /\ Single(q, m) => Single(Append(q, x), m)
           /\ ~Has(q, m) => Single(Append(q, x), m)
  <1>1. /\ DOMAIN Append(q, x) = 1 .. (Len(q) + 1) /\ DOMAIN q = 1 .. Len(q)
        /\ Len(q) \in Nat
        /\ \A i \in 1 .. Len(q) : Append(q, x)[i] = q[i]
        /\ Append(q, x)[Len(q) + 1] = x
    OBVIOUS
  <1> DEFINE a == Append(q, x)
  <1>2. /\ DOMAIN a = 1 .. (Len(q) + 1)
        /\ \A i \in 1 .. Len(q) : a[i] = q[i]
        /\ a[Len(q) + 1] = x
    BY <1>1
  <1> HIDE DEF a
  <1>3. \A i \in 1 .. (Len(q) + 1) : i \in 1 .. Len(q) \/ i = Len(q) + 1
    BY <1>1
  <1>4. /\ x # m /\ Has(a, m) => Has(q, m)
        /\ x # m /\ Single(q, m) => Single(a, m)
        /\ ~Has(q, m) => Single(a, m)
    BY <1>1, <1>2, <1>3 DEF Has, Single
  <1> QED
    BY <1>4 DEF a

LEMMA Removed ==
    ASSUME NEW S, NEW q \in Seq(S), NEW i \in DOMAIN q, NEW m
    PROVE  /\ Has(RemoveAt(q, i), m) => Has(q, m)
           /\ Single(q, m) => Single(RemoveAt(q, i), m)
           /\ Single(q, m) /\ q[i] = m => ~Has(RemoveAt(q, i), m)
  <1> DEFINE a == RemoveAt(q, i)
  <1>1. /\ a \in Seq(S) /\ Len(a) = Len(q) - 1
        /\ \A k \in 1 .. (Len(q) - 1) : a[k] = IF k < i THEN q[k] ELSE q[k + 1]
    BY SendShape
  <1>2. /\ DOMAIN q = 1 .. Len(q) /\ Len(q) \in Nat /\ i \in 1 .. Len(q)
        /\ DOMAIN a = 1 .. (Len(q) - 1)
    BY <1>1
  <1> HIDE DEF a
  <1> DEFINE At(k) == IF k < i THEN k ELSE k + 1
  <1>3. \A k \in DOMAIN a : /\ At(k) \in DOMAIN q /\ a[k] = q[At(k)] /\ At(k) # i
    BY <1>1, <1>2
  <1>4. \A k, n \in DOMAIN a : At(k) = At(n) => k = n
    BY <1>2
  <1> HIDE DEF At
  <1>5. /\ Has(a, m) => Has(q, m)
        /\ Single(q, m) => Single(a, m)
        /\ Single(q, m) /\ q[i] = m => ~Has(a, m)
    BY <1>3, <1>4 DEF Has, Single
  <1> QED
    BY <1>5 DEF a

-----------------------------------------------------------------------------
(* How each place changes.                                                 *)
LEMMA OutboxCase ==
    ASSUME IInv, Next, NEW t \in Turns
    PROVE  \/ outbox' = outbox
           \/ \E m \in Tasks \cup {DeadEvent} :
                m # PlanTask(t) /\ outbox' = Append(outbox, m)
           \/ \E i \in DOMAIN outbox : outbox' = RemoveAt(outbox, i)
           \/ StartPlanning(t)
  <1> USE TaskTypes, PlanTasksDiffer
  <1> DEFINE Goal == \/ outbox' = outbox
                     \/ \E m \in Tasks \cup {DeadEvent} :
                          m # PlanTask(t) /\ outbox' = Append(outbox, m)
                     \/ \E i \in DOMAIN outbox : outbox' = RemoveAt(outbox, i)
                     \/ StartPlanning(t)
  <1>1. ASSUME NEW u \in Turns, StartPlanning(u) PROVE Goal
    BY <1>1 DEF StartPlanning, Enqueue
  <1>2. ASSUME NEW c \in Clients, SubmitWrites(c) PROVE Goal
    BY <1>2 DEF SubmitWrites, Enqueue, NextRun
  <1>3. ASSUME NEW m \in Tasks, Dispatch(m) PROVE Goal
    BY <1>3 DEF Dispatch, Sendable
  <1>4. ASSUME NEW w \in Workers, CompleteWrites(w) PROVE Goal
    <2>1. work[w].r \in Runs
      BY <1>4, StageFacts DEF CompleteWrites, IInv, ExecutionsInv, Executes
    <2> QED
      BY <1>4, <2>1 DEF CompleteWrites, Enqueue
  <1>5. ASSUME NEW r \in Runs, ReconcileQueued(r) PROVE Goal
    BY <1>5 DEF ReconcileQueued, Enqueue
  <1>6. outbox' = outbox \/ Goal
    <2> HIDE DEF Goal
    <2> QED
      BY <1>1, <1>2, <1>3, <1>4, <1>5
       DEF Next, data, ConfirmPlan, SubmitReads, CancelReads,
           Answers, CancelWrites, RequestFails, DispatchTwice, LoseMessage, Receives,
           PlanStarts, PlanExists, RunStarts, RunSkipped, ExtStarts, ExtSkipped, Works,
           PlanGenerated, PlanRefused, PlanBinds, PlanFails, Analysed, AnalysisFails,
           CompleteReads, CompleteFails, FailWrites, Extracted, ExtractFails,
           ExtSettles, Crash, TaskDies, Reconciles, ReconcileRunning,
           ReconcileExtracting
  <1> QED
    BY <1>6

LEMMA MessageCase ==
    ASSUME IInv, Next, NEW t \in Turns, used'["crash"] = 0
    PROVE  msgs'[PlanTask(t)] <= msgs[PlanTask(t)] \/ Dispatch(PlanTask(t))
  <1> USE TaskTypes
  <1>0. /\ msgs \in [Tasks -> Nat] /\ PlanTask(t) \in Tasks /\ "crash" \in FaultKinds
        /\ used \in [FaultKinds -> Nat]
    BY DEF IInv, TypeOK, FaultKinds
  <1> DEFINE Goal == msgs'[PlanTask(t)] <= msgs[PlanTask(t)] \/ Dispatch(PlanTask(t))
  <1>1. UNCHANGED msgs => Goal
    BY <1>0
  <1>2. \A m \in Tasks : Took(m) => Goal
    BY <1>0 DEF Took
  <1>3. ASSUME NEW m \in Tasks, Dispatch(m) PROVE Goal
    <2>1. m # PlanTask(t) => msgs'[PlanTask(t)] = msgs[PlanTask(t)]
      BY <1>0, <1>3 DEF Dispatch
    <2> QED
      BY <1>0, <1>3, <2>1
  <1>4. ~Spend("crash")
    BY <1>0 DEF Spend
  <1> HIDE DEF Goal
  <1>5. Goal
    BY <1>1, <1>2, <1>3, <1>4
       DEF Next, data, StartPlanning, ConfirmPlan, SubmitReads, SubmitWrites,
           CancelReads, Answers, CancelWrites, RequestFails, DispatchTwice, LoseMessage,
           Receives, PlanStarts, PlanExists, RunStarts, RunSkipped, ExtStarts,
           ExtSkipped, Works, PlanGenerated, PlanRefused, PlanBinds, PlanFails, Analysed,
           AnalysisFails, CompleteReads, CompleteWrites, CompleteFails, FailWrites,
           Extracted, ExtractFails, ExtSettles, Crash, TaskDies, Reconciles,
           ReconcileRunning, ReconcileExtracting, ReconcileQueued
  <1> QED
    BY <1>5 DEF Goal

LEMMA PlannersCase ==
    ASSUME IInv, Next, NEW t \in Turns
    PROVE  \/ \A w \in Planners(t)' : w \in Planners(t)
           \/ \E w \in Workers : PlanStarts(w, t)
  <1> USE StageFacts
  <1> DEFINE Goal == \/ \A w \in Planners(t)' : w \in Planners(t)
                     \/ \E w \in Workers : PlanStarts(w, t)
  <1>0. TypeOK /\ work \in [Workers -> Execution]
    BY DEF IInv, TypeOK
  <1>1. CalmWork => Goal
    BY DEF CalmWork, Forward, Planners
  <1>2. \A w \in Workers : Acknowledge(w) => Goal
    BY <1>0, <1>1, DroppedWork
  <1>3. UNCHANGED work => Goal
    BY <1>1, SameWork
  \* A step that puts an execution of a run, an extraction or another turn.
  <1>4. ASSUME NEW w \in Workers, NEW e, work' = [work EXCEPT ![w] = e],
               e.pc \notin PlanStages \/ e.t # t
        PROVE  Goal
    BY <1>0, <1>4 DEF Planners
  <1>5. ASSUME NEW w \in Workers, NEW s, Stage(w, s),
               s \in PlanStages => work[w].pc \in PlanStages
        PROVE  Goal
    <2>1. \A v \in Workers : v # w => work'[v] = work[v]
      BY <1>5 DEF Stage
    <2>2. work'[w].pc = s /\ work'[w].t = work[w].t
      BY <1>0, <1>5 DEF Stage, Execution
    <2> QED
      BY <1>5, <2>1, <2>2 DEF Planners
  <1>6. ASSUME NEW w \in Workers, NEW u \in Turns, PlanStarts(w, u) PROVE Goal
    <2>1. CASE u = t
      BY <1>6, <2>1
    <2>2. CASE u # t
      <3>1. [IdleWorker EXCEPT !.pc = "generating", !.t = u].t = u
        BY DEF IdleWorker
      <3> QED
        BY <1>4, <1>6, <2>2, <3>1 DEF PlanStarts
    <2> QED
      BY <2>1, <2>2
  <1>7. ASSUME NEW w \in Workers, PlanGenerated(w) PROVE Goal
    <2>1. PICK p : work' = [work EXCEPT ![w].pc = "binding", ![w].p = p]
      BY <1>7 DEF PlanGenerated
    <2>2. \A v \in Workers : v # w => work'[v] = work[v]
      BY <1>0, <2>1
    <2>3. work'[w].t = work[w].t
      BY <1>0, <2>1 DEF Execution
    <2> QED
      BY <1>7, <2>2, <2>3 DEF Planners, PlanGenerated
  <1>8. ASSUME NEW w \in Workers, NEW r \in Runs, RunStarts(w, r) \/ ExtStarts(w, r)
        PROVE  Goal
    <2>1. CASE RunStarts(w, r)
      <3> DEFINE e == [IdleWorker EXCEPT !.pc = "analysing", !.r = r,
                                         !.t = run[r].t, !.p = run[r].p]
      <3>1. work' = [work EXCEPT ![w] = e] /\ e.pc = "analysing"
        BY <2>1 DEF RunStarts, IdleWorker
      <3> HIDE DEF e
      <3> QED
        BY <1>4, <3>1
    <2>2. CASE ExtStarts(w, r)
      <3> DEFINE e == [IdleWorker EXCEPT !.pc = "extracting", !.r = r,
                         !.t = run[r].t, !.p = Latest(PlansOf(run[r].t))]
      <3>1. work' = [work EXCEPT ![w] = e] /\ e.pc = "extracting"
        BY <2>2 DEF ExtStarts, IdleWorker
      <3> HIDE DEF e
      <3> QED
        BY <1>4, <3>1
    <2> QED
      BY <1>8, <2>1, <2>2
  <1> HIDE DEF Goal
  <1>9. ASSUME NEW w \in Workers, Works(w) PROVE Goal
    BY <1>2, <1>5, <1>7, <1>9
       DEF Works, PlanRefused, PlanBinds, PlanFails, Analysed, AnalysisFails,
           CompleteReads, CompleteWrites, CompleteFails, FailWrites, Extracted,
           ExtractFails, ExtSettles
  <1>10. Goal
    BY <1>2, <1>3, <1>6, <1>8, <1>9
       DEF Next, data, StartPlanning, ConfirmPlan, SubmitReads, SubmitWrites,
           CancelReads, Answers, CancelWrites, RequestFails, Dispatch, DispatchTwice,
           LoseMessage, Receives, PlanExists, RunSkipped, ExtSkipped, Crash, TaskDies,
           Reconciles, ReconcileRunning, ReconcileExtracting, ReconcileQueued
  <1> QED
    BY <1>10 DEF Goal

LEMMA PlansCase ==
    ASSUME IInv, Next, NEW t \in Turns
    PROVE  \/ \A p \in PlansOf(t)' : p \in PlansOf(t)
           \/ \E w \in Workers : work[w].t = t /\ PlanBinds(w)
  <1> DEFINE Goal == \/ \A p \in PlansOf(t)' : p \in PlansOf(t)
                     \/ \E w \in Workers : work[w].t = t /\ PlanBinds(w)
  <1>0. plan \in [Plans -> PlanRow] /\ RowsInv /\ ReadersInv
    BY DEF IInv, TypeOK
  <1>1. UNCHANGED plan => Goal
    BY DEF PlansOf
  <1>2. ASSUME NEW u \in Turns, ConfirmPlan(u) PROVE Goal
    <2>1. PICK p \in Plans : plan' = [plan EXCEPT ![p].st = "confirmed"]
      BY <1>2 DEF ConfirmPlan, PlansOf
    <2>2. \A q \in Plans : plan'[q].t = plan[q].t
      BY <1>0, <2>1 DEF PlanRow
    <2> QED
      BY <2>2 DEF PlansOf
  <1>3. ASSUME NEW w \in Workers, PlanGenerated(w) PROVE Goal
    <2>1. PICK p \in Plans :
             plan' = [q \in Plans |-> IF q = p THEN [st |-> "draft", t |-> NoTurn]
                                               ELSE Superseded(plan[q])]
      BY <1>3 DEF PlanGenerated, NextPlan
    <2>2. \A row \in PlanRow : Superseded(row).t = row.t
      BY DEF Superseded, PlanRow
    <2>3. \A q \in Plans : plan'[q].t = plan[q].t \/ plan'[q].t = NoTurn
      BY <1>0, <2>1, <2>2
    <2> QED
      BY <2>3, TimelineAssumption DEF PlansOf
  <1>4. ASSUME NEW w \in Workers, PlanBinds(w) PROVE Goal
    <2>1. \A q \in Plans : plan'[q].t = plan[q].t \/ plan'[q].t = work[w].t
      BY <1>0, <1>4 DEF PlanBinds, PlanRow
    <2> QED
      BY <1>4, <2>1 DEF PlansOf
  <1> HIDE DEF Goal
  <1>5. Goal
    BY <1>1, <1>2, <1>3, <1>4
       DEF Next, data, StartPlanning, SubmitReads, SubmitWrites,
           CancelReads, Answers, CancelWrites, RequestFails, Dispatch, DispatchTwice,
           LoseMessage, Receives, PlanStarts, PlanExists, RunStarts, RunSkipped,
           ExtStarts, ExtSkipped, Works, PlanRefused, PlanFails, Analysed,
           AnalysisFails, CompleteReads, CompleteWrites, CompleteFails, FailWrites,
           Extracted, ExtractFails, ExtSettles, Crash, TaskDies, Reconciles,
           ReconcileRunning, ReconcileExtracting, ReconcileQueued
  <1> QED
    BY <1>5 DEF Goal

LEMMA TurnCase ==
    ASSUME IInv, Next, NEW t \in Turns
    PROVE  \/ turn'[t] \in CAN_PLAN => turn[t] \in CAN_PLAN
           \/ \E w \in Workers : work[w].t = t /\ PlanFails(w)
  <1> DEFINE Goal == \/ turn'[t] \in CAN_PLAN => turn[t] \in CAN_PLAN
                     \/ \E w \in Workers : work[w].t = t /\ PlanFails(w)
  <1>0. turn \in [Turns -> TurnStatus]
    BY DEF IInv, TypeOK
  <1>1. UNCHANGED turn => Goal
    OBVIOUS
  <1>2. ASSUME NEW u, NEW s, s \notin CAN_PLAN, turn' = [turn EXCEPT ![u] = s]
        PROVE  Goal
    BY <1>0, <1>2
  <1>3. ASSUME NEW w \in Workers, PlanFails(w) PROVE Goal
    <2>1. CASE work[w].t = t
      BY <1>3, <2>1
    <2>2. CASE work[w].t # t
      BY <1>0, <1>3, <2>2 DEF PlanFails
    <2> QED
      BY <2>1, <2>2
  <1>4. /\ "planning" \notin CAN_PLAN /\ "plan_confirmed" \notin CAN_PLAN
        /\ "queued" \notin CAN_PLAN /\ "plan_review" \notin CAN_PLAN
        /\ "succeeded" \notin CAN_PLAN /\ "run_failed" \notin CAN_PLAN
    BY DEF CAN_PLAN
  <1> HIDE DEF Goal
  <1>5. Goal
    BY <1>1, <1>2, <1>3, <1>4
       DEF Next, data, StartPlanning, ConfirmPlan, SubmitReads, SubmitWrites,
           CancelReads, Answers, CancelWrites, RequestFails, Dispatch, DispatchTwice,
           LoseMessage, Receives, PlanStarts, PlanExists, RunStarts, RunSkipped,
           ExtStarts, ExtSkipped, Works, PlanGenerated, PlanRefused, PlanBinds, Analysed,
           AnalysisFails, CompleteReads, CompleteWrites, CompleteFails, FailWrites,
           Extracted, ExtractFails, ExtSettles, Crash, TaskDies, Reconciles,
           ReconcileRunning, ReconcileExtracting, ReconcileQueued
  <1> QED
    BY <1>5 DEF Goal

-----------------------------------------------------------------------------
(* Each of the steps that move the order on keeps it in one place.         *)
LEMMA OneTurnNext ==
    ASSUME IInv, IInv', Next, used'["crash"] = 0, NEW t \in Turns, OneTurn(t)
    PROVE  OneTurn(t)'
  <1> DEFINE m == PlanTask(t)
  <1>0. /\ turn \in [Turns -> TurnStatus] /\ work \in [Workers -> Execution]
        /\ outbox \in Seq(Tasks \cup {DeadEvent}) /\ m \in Tasks
        /\ msgs \in [Tasks -> Nat] /\ msgs[m] \in Nat /\ msgs'[m] \in Nat
    BY TaskTypes DEF IInv, TypeOK
  <1>1. /\ \/ /\ Single(outbox, m) => Single(outbox', m)
              /\ Has(outbox', m) => Has(outbox, m)
           \/ StartPlanning(t)
        /\ msgs'[m] <= msgs[m] \/ Dispatch(m)
        /\ \/ \A w \in Planners(t)' : w \in Planners(t)
           \/ \E w \in Workers : PlanStarts(w, t)
        /\ \/ \A p \in PlansOf(t)' : p \in PlansOf(t)
           \/ \E w \in Workers : work[w].t = t /\ PlanBinds(w)
        /\ \/ turn'[t] \in CAN_PLAN => turn[t] \in CAN_PLAN
           \/ \E w \in Workers : work[w].t = t /\ PlanFails(w)
    <2>1. \/ /\ Single(outbox, m) => Single(outbox', m)
             /\ Has(outbox', m) => Has(outbox, m)
          \/ StartPlanning(t)
      <3>1. CASE outbox' = outbox
        BY <3>1
      <3>2. ASSUME NEW x \in Tasks \cup {DeadEvent}, x # m,
                   outbox' = Append(outbox, x)
            PROVE  /\ Single(outbox, m) => Single(outbox', m)
                   /\ Has(outbox', m) => Has(outbox, m)
        <4> HIDE DEF m
        <4> QED
          BY <1>0, <3>2, Appended
      <3>3. ASSUME NEW i \in DOMAIN outbox, outbox' = RemoveAt(outbox, i)
            PROVE  /\ Single(outbox, m) => Single(outbox', m)
                   /\ Has(outbox', m) => Has(outbox, m)
        <4> HIDE DEF m
        <4> QED
          BY <1>0, <3>3, Removed
      <3> QED
        BY <3>1, <3>2, <3>3, OutboxCase
    <2> QED
      BY <2>1, MessageCase, PlannersCase, PlansCase, TurnCase
  <1>2. CASE StartPlanning(t)
    <2>1. /\ ~Has(outbox, m) /\ msgs[m] = 0 /\ Planners(t) = {} /\ PlansOf(t) = {}
      BY <1>2 DEF OneTurn, StartPlanning
    <2>2. /\ Single(outbox', m)
          /\ turn'[t] = "planning" /\ msgs'[m] = 0
          /\ PlansOf(t)' = {} /\ Planners(t)' = {}
      BY <1>0, <1>2, <2>1, Appended DEF StartPlanning, Enqueue, PlansOf, Planners
    <2> QED
      BY <2>2 DEF OneTurn, CAN_PLAN
  <1>3. CASE Dispatch(m)
    <2>1. PICK i \in DOMAIN outbox : outbox[i] = m /\ outbox' = RemoveAt(outbox, i)
      BY <1>3 DEF Dispatch, Sendable
    <2>2. Has(outbox, m) /\ Single(outbox, m)
      BY <2>1 DEF Has, OneTurn
    <2>3. msgs[m] = 0 /\ Planners(t) = {} /\ turn[t] \notin CAN_PLAN
      BY <2>2 DEF OneTurn
    <2>4. ~Has(outbox', m) /\ Single(outbox', m)
      BY <1>0, <2>1, <2>2, Removed
    <2>5. msgs'[m] = 1
      BY <1>0, <1>3, <2>3 DEF Dispatch
    <2>6. /\ turn'[t] \notin CAN_PLAN
          /\ Planners(t)' = {} /\ PlansOf(t)' = PlansOf(t)
      BY <1>3, <2>3 DEF Dispatch, data, Planners, PlansOf
    <2> QED
      BY <2>4, <2>5, <2>6 DEF OneTurn
  <1>4. ASSUME NEW w \in Workers, PlanStarts(w, t) PROVE OneTurn(t)'
    <2>1. msgs[m] > 0 /\ PlansOf(t) = {} /\ turn[t] = "planning"
      BY <1>4 DEF PlanStarts, Took
    <2>2. msgs[m] = 1 /\ Planners(t) = {} /\ ~Has(outbox, m) /\ Single(outbox, m)
      BY <1>0, <2>1 DEF OneTurn
    <2>3. msgs'[m] = 0
      BY <1>0, <1>4, <2>2 DEF PlanStarts, Took
    <2>4. \A v \in Planners(t)' : v = w
      BY <1>0, <1>4, <2>2 DEF PlanStarts, Planners
    <2>5. /\ ~Has(outbox', m) /\ Single(outbox', m)
          /\ turn'[t] = "planning" /\ PlansOf(t)' = {}
      BY <1>4, <2>1, <2>2 DEF PlanStarts, data, PlansOf
    <2> QED
      BY <2>3, <2>4, <2>5 DEF OneTurn, CAN_PLAN
  <1>5. ASSUME NEW w \in Workers, work[w].t = t, work[w].pc \in PlanStages,
               Acknowledge(w), UNCHANGED <<outbox, msgs>>
        PROVE  /\ Planners(t)' = {} /\ PlansOf(t) = {} /\ turn[t] \notin CAN_PLAN
               /\ ~Has(outbox', m) /\ Single(outbox', m) /\ msgs'[m] = 0
    <2>1. w \in Planners(t)
      BY <1>5 DEF Planners
    <2>2. /\ PlansOf(t) = {} /\ turn[t] \notin CAN_PLAN
          /\ ~Has(outbox, m) /\ Single(outbox, m) /\ msgs[m] = 0
          /\ \A v \in Planners(t) : v = w
      BY <1>0, <2>1 DEF OneTurn
    <2>3. Planners(t)' = {}
      BY <1>0, <1>5, <2>2, StageFacts DEF Acknowledge, Planners, IdleWorker
    <2> QED
      BY <1>5, <2>2, <2>3
  <1>6. ASSUME NEW w \in Workers, work[w].t = t, PlanBinds(w) PROVE OneTurn(t)'
    <2>1. /\ Planners(t)' = {} /\ PlansOf(t) = {} /\ turn[t] \notin CAN_PLAN
          /\ ~Has(outbox', m) /\ Single(outbox', m) /\ msgs'[m] = 0
      BY <1>5, <1>6, StageFacts DEF PlanBinds
    <2>2. \A p \in PlansOf(t)' : p = work[w].p
      BY <1>6, <2>1 DEF PlanBinds, PlansOf
    <2>3. turn'[t] \notin CAN_PLAN
      BY <1>0, <1>6, <2>1 DEF PlanBinds, CAN_PLAN
    <2> QED
      BY <2>1, <2>2, <2>3 DEF OneTurn
  <1>7. ASSUME NEW w \in Workers, work[w].t = t, PlanFails(w) PROVE OneTurn(t)'
    <2>1. /\ Planners(t)' = {} /\ PlansOf(t) = {}
          /\ ~Has(outbox', m) /\ Single(outbox', m) /\ msgs'[m] = 0
      BY <1>5, <1>7, StageFacts DEF PlanFails
    <2>2. PlansOf(t)' = {}
      BY <1>7, <2>1 DEF PlanFails, PlansOf
    <2> QED
      BY <2>1, <2>2 DEF OneTurn
  <1>8. CASE /\ (Single(outbox, m) => Single(outbox', m))
             /\ Has(outbox', m) => Has(outbox, m)
             /\ msgs'[m] <= msgs[m]
             /\ \A w \in Planners(t)' : w \in Planners(t)
             /\ \A p \in PlansOf(t)' : p \in PlansOf(t)
             /\ turn'[t] \in CAN_PLAN => turn[t] \in CAN_PLAN
    <2>1. Planners(t)' # {} => Planners(t) # {}
      BY <1>8
    <2>2. PlansOf(t) = {} => PlansOf(t)' = {}
      BY <1>8
    <2>3. msgs'[m] > 0 => msgs[m] > 0
      BY <1>0, <1>8
    <2>4. msgs[m] = 0 => msgs'[m] = 0
      BY <1>0, <1>8
    <2>5. msgs[m] <= 1 => msgs'[m] <= 1
      BY <1>0, <1>8
    <2> HIDE DEF m
    <2>6. /\ Single(outbox', m) /\ msgs'[m] <= 1
          /\ \A v, w \in Planners(t)' : v = w
          /\ \A p, q \in PlansOf(t)' : p = q
      BY <1>8, <2>5 DEF OneTurn, m
    <2>7. /\ Has(outbox', m) => msgs'[m] = 0 /\ Planners(t)' = {}
          /\ msgs'[m] > 0 => Planners(t)' = {}
          /\ Planners(t)' # {} => PlansOf(t)' = {}
      BY <1>8, <2>1, <2>2, <2>3, <2>4 DEF OneTurn, m
    <2>8. turn'[t] \in CAN_PLAN =>
            /\ ~Has(outbox', m) /\ msgs'[m] = 0
            /\ Planners(t)' = {} /\ PlansOf(t)' = {}
      BY <1>8, <2>1, <2>2, <2>4 DEF OneTurn, m
    <2> QED
      BY <2>6, <2>7, <2>8 DEF OneTurn, m
  <1> HIDE DEF m
  <1> QED
    BY <1>1, <1>2, <1>3, <1>4, <1>6, <1>7, <1>8

\* A worker that receives a message touches nothing but rows and its own state.
LEMMA ReceivesTook ==
    ASSUME NEW m, Receives(m)
    PROVE  Took(m) /\ outbox' = outbox /\ client' = client /\ used' = used
  <1> DEFINE Goal == Took(m) /\ outbox' = outbox /\ client' = client /\ used' = used
  <1>1. ASSUME NEW w \in Workers, NEW t \in Turns, m = PlanTask(t),
               PlanStarts(w, t) \/ PlanExists(w, t)
        PROVE  Goal
    BY <1>1 DEF PlanStarts, PlanExists
  <1>2. ASSUME NEW w \in Workers, NEW r \in Runs, m = RunTask(r),
               RunStarts(w, r) \/ RunSkipped(w, r)
        PROVE  Goal
    BY <1>2 DEF RunStarts, RunSkipped
  <1>3. ASSUME NEW w \in Workers, NEW r \in Runs, m = ExtTask(r),
               ExtStarts(w, r) \/ ExtSkipped(w, r)
        PROVE  Goal
    BY <1>3 DEF ExtStarts, ExtSkipped
  <1> HIDE DEF Goal
  <1>4. Goal
    BY <1>1, <1>2, <1>3 DEF Receives
  <1> QED
    BY <1>4 DEF Goal

\* A fault that was counted stays counted.
LEMMA FaultsCounted ==
    ASSUME Next
    PROVE  used' = used \/ Spend("cancel") \/ Spend("crash") \/ Spend("drop")
              \/ Spend("timeout")
  BY ReceivesTook
     DEF Next, data, StartPlanning, ConfirmPlan, SubmitReads, SubmitWrites,
         CancelReads, Answers, CancelWrites, RequestFails, Dispatch, DispatchTwice,
         LoseMessage, Works, PlanGenerated, PlanRefused, PlanBinds, PlanFails,
         Analysed, AnalysisFails, CompleteReads, CompleteWrites, CompleteFails,
         FailWrites, Extracted, ExtractFails, ExtSettles, Crash, TaskDies,
         Reconciles, ReconcileRunning, ReconcileExtracting, ReconcileQueued

LEMMA FaultsGrow ==
    ASSUME IInv, Next, NEW k \in FaultKinds
    PROVE  used[k] \in Nat /\ used'[k] \in Nat /\ used[k] <= used'[k]
  <1>0. used \in [FaultKinds -> Nat]
    BY DEF IInv, TypeOK
  <1>1. used' = used \/ \E f \in FaultKinds : Spend(f)
    BY FaultsCounted DEF FaultKinds
  <1>2. ASSUME NEW f \in FaultKinds, Spend(f)
        PROVE  used'[k] \in Nat /\ used[k] <= used'[k]
    BY <1>0, <1>2 DEF Spend
  <1> QED
    BY <1>0, <1>1, <1>2

LEMMA Spent ==
    ASSUME IInv, NEW k \in FaultKinds, Spend(k) PROVE used'[k] > 0
  BY DEF IInv, TypeOK, Spend

LEMMA CrashesCounted ==
    ASSUME IInv, Next, used'["crash"] = 0 PROVE used["crash"] = 0
  <1>1. "crash" \in FaultKinds
    BY DEF FaultKinds
  <1> QED
    BY <1>1, FaultsGrow

LEMMA OnePlanInit == Init => OnePlanInv
  <1> SUFFICES ASSUME Init, NEW t \in Turns PROVE OneTurn(t)
    BY DEF OnePlanInv
  <1>1. outbox = <<>> /\ msgs[PlanTask(t)] = 0
    BY TaskTypes DEF Init
  <1>2. ~Has(outbox, PlanTask(t)) /\ Single(outbox, PlanTask(t))
    BY <1>1 DEF Has, Single
  <1>3. Planners(t) = {}
    BY StageFacts DEF Init, Planners, IdleWorker
  <1>4. PlansOf(t) = {}
    BY TimelineAssumption DEF Init, PlansOf
  <1> QED
    BY <1>1, <1>2, <1>3, <1>4 DEF OneTurn

(* Without a crash, which alone delivers a message twice, no turn is ever  *)
(* bound to two plan versions (generate_plan, the task's look at the       *)
(* turn's plans when it starts and the binding when the model answered).   *)
THEOREM OnePlan == Spec => []OnePlanUnlessRedelivered
  <1>1. IInv /\ IInv' /\ OnePlanInv /\ [Next]_vars => OnePlanInv'
    <2> SUFFICES ASSUME IInv, IInv', OnePlanInv, [Next]_vars PROVE OnePlanInv'
      OBVIOUS
    <2>1. CASE Next
      <3> SUFFICES ASSUME used'["crash"] = 0, NEW t \in Turns PROVE OneTurn(t)'
        BY DEF OnePlanInv
      <3>1. OneTurn(t)
        BY <2>1, CrashesCounted DEF OnePlanInv
      <3> QED
        BY <2>1, <3>1, OneTurnNext
    <2>2. CASE UNCHANGED vars
      BY <2>2 DEF vars, OnePlanInv, OneTurn, Planners, PlansOf
    <2> QED
      BY <2>1, <2>2
  <1>2. OnePlanInv => OnePlanUnlessRedelivered
    <2> SUFFICES ASSUME NEW t \in Turns, OneTurn(t)
                 PROVE  Cardinality(PlansOf(t)) <= 1
      BY DEF OnePlanInv, OnePlanUnlessRedelivered
    <2>1. CASE PlansOf(t) = {}
      BY <2>1, FS_EmptySet
    <2>2. CASE PlansOf(t) # {}
      <3>1. PICK p : PlansOf(t) = {p}
        BY <2>2 DEF OneTurn
      <3> QED
        BY <3>1, FS_Singleton
    <2> QED
      BY <2>1, <2>2
  <1> QED
    BY <1>1, <1>2, InitInv, NextInv, OnePlanInit, PTL DEF Spec

-----------------------------------------------------------------------------
(* What was asked for is carried by an event, a message or a worker.       *)

\* Which step an event list, or the count of a message, changes by.
LEMMA OutboxMoves ==
    ASSUME IInv, Next
    PROVE  \/ outbox' = outbox
           \/ \E x \in Tasks \cup {DeadEvent} : outbox' = Append(outbox, x)
           \/ \E x \in Tasks : Dispatch(x)
  <1> USE TaskTypes
  <1> DEFINE Goal == \/ outbox' = outbox
                     \/ \E x \in Tasks \cup {DeadEvent} : outbox' = Append(outbox, x)
                     \/ \E x \in Tasks : Dispatch(x)
  <1>1. ASSUME NEW t \in Turns, StartPlanning(t) PROVE Goal
    BY <1>1 DEF StartPlanning, Enqueue
  <1>2. ASSUME NEW c \in Clients, SubmitWrites(c) PROVE Goal
    BY <1>2 DEF SubmitWrites, Enqueue, NextRun
  <1>3. ASSUME NEW w \in Workers, CompleteWrites(w) PROVE Goal
    <2>1. work[w].r \in Runs
      BY <1>3, StageFacts DEF CompleteWrites, IInv, ExecutionsInv, Executes
    <2> QED
      BY <1>3, <2>1 DEF CompleteWrites, Enqueue
  <1>4. ASSUME NEW r \in Runs, ReconcileQueued(r) PROVE Goal
    BY <1>4 DEF ReconcileQueued, Enqueue
  <1>5. ASSUME NEW x \in Tasks, Dispatch(x) PROVE Goal
    BY <1>5
  <1>6. outbox' = outbox \/ Goal
    <2> HIDE DEF Goal
    <2> QED
      BY <1>1, <1>2, <1>3, <1>4, <1>5, ReceivesTook
       DEF Next, data, ConfirmPlan, SubmitReads, CancelReads,
           Answers, CancelWrites, RequestFails, DispatchTwice, LoseMessage, Works,
           PlanGenerated, PlanRefused, PlanBinds, PlanFails, Analysed, AnalysisFails,
           CompleteReads, CompleteFails, FailWrites, Extracted, ExtractFails,
           ExtSettles, Crash, TaskDies, Reconciles, ReconcileRunning,
           ReconcileExtracting
  <1> QED
    BY <1>6

LEMMA MessageMoves ==
    ASSUME IInv, Next, NEW m \in Tasks
    PROVE  msgs'[m] >= msgs[m] \/ LoseMessage(m) \/ Receives(m)
  <1>0. msgs \in [Tasks -> Nat]
    BY DEF IInv, TypeOK
  <1> DEFINE Goal == msgs'[m] >= msgs[m] \/ LoseMessage(m) \/ Receives(m)
  <1>1. UNCHANGED msgs => Goal
    BY <1>0
  <1>2. ASSUME NEW x, msgs' = [msgs EXCEPT ![x] = @ + 1] PROVE Goal
    BY <1>0, <1>2
  <1>3. ASSUME NEW x \in Tasks, LoseMessage(x) \/ Receives(x) PROVE Goal
    <2>1. Took(x)
      BY <1>3, ReceivesTook DEF LoseMessage
    <2>2. CASE x = m
      BY <1>3, <2>2
    <2>3. CASE x # m
      BY <1>0, <2>1, <2>3 DEF Took
    <2> QED
      BY <2>2, <2>3
  <1> HIDE DEF Goal
  <1>4. Goal
    BY <1>1, <1>2, <1>3
       DEF Next, data, StartPlanning, ConfirmPlan, SubmitReads, SubmitWrites,
           CancelReads, Answers, CancelWrites, RequestFails, Dispatch, DispatchTwice,
           Works, PlanGenerated, PlanRefused, PlanBinds, PlanFails, Analysed,
           AnalysisFails, CompleteReads, CompleteWrites, CompleteFails, FailWrites,
           Extracted, ExtractFails, ExtSettles, Crash, TaskDies, Reconciles,
           ReconcileRunning, ReconcileExtracting, ReconcileQueued
  <1> QED
    BY <1>4 DEF Goal

\* What is in an event list stays there until it is sent.
LEMMA Kept ==
    ASSUME NEW S, NEW q \in Seq(S), NEW m, m \in ToSet(q)
    PROVE  /\ \A x \in S : m \in ToSet(Append(q, x))
           /\ \A i \in DOMAIN q : q[i] # m => m \in ToSet(RemoveAt(q, i))
  <1>1. PICK k \in 1 .. Len(q) : q[k] = m
    BY DEF ToSet
  <1>2. ASSUME NEW x \in S PROVE m \in ToSet(Append(q, x))
    <2>1. k \in DOMAIN Append(q, x) /\ Append(q, x)[k] = m
      BY <1>1
    <2> QED
      BY <2>1 DEF ToSet
  <1>3. ASSUME NEW i \in DOMAIN q, q[i] # m PROVE m \in ToSet(RemoveAt(q, i))
    <2> DEFINE a == RemoveAt(q, i)
    <2>1. /\ a \in Seq(S) /\ Len(a) = Len(q) - 1
          /\ \A j \in 1 .. (Len(q) - 1) : a[j] = IF j < i THEN q[j] ELSE q[j + 1]
      BY SendShape
    <2> HIDE DEF a
    <2>2. i \in 1 .. Len(q) /\ Len(q) \in Nat /\ k # i /\ DOMAIN a = 1 .. Len(a)
      BY <1>1, <1>3, <2>1
    <2>3. CASE k < i
      <3>1. k \in DOMAIN a /\ a[k] = m
        BY <1>1, <2>1, <2>2, <2>3
      <3> QED
        BY <3>1 DEF ToSet, a
    <2>4. CASE k > i
      <3>1. k - 1 \in DOMAIN a /\ ~(k - 1 < i) /\ (k - 1) + 1 = k
        BY <2>1, <2>2, <2>4
      <3>2. a[k - 1] = m
        BY <1>1, <2>1, <2>2, <3>1
      <3> QED
        BY <3>1, <3>2 DEF ToSet, a
    <2> QED
      BY <2>2, <2>3, <2>4
  <1> QED
    BY <1>2, <1>3

LEMMA Enqueued ==
    ASSUME IInv, NEW m \in Tasks, Enqueue(m)
    PROVE  Underway(m)'
  <1>1. outbox \in Seq(Tasks \cup {DeadEvent})
    BY DEF IInv, TypeOK
  <1>2. /\ Len(outbox) + 1 \in DOMAIN Append(outbox, m)
        /\ Append(outbox, m)[Len(outbox) + 1] = m
    BY <1>1
  <1>3. m \in ToSet(outbox')
    BY <1>2 DEF Enqueue, ToSet
  <1> QED
    BY <1>3 DEF Underway

\* An event or a message is there until it is lost or received.
LEMMA UnderwayStays ==
    ASSUME IInv, Next, NEW m \in Tasks, Underway(m)
    PROVE  Underway(m)' \/ LoseMessage(m) \/ Receives(m)
  <1>0. outbox \in Seq(Tasks \cup {DeadEvent}) /\ msgs \in [Tasks -> Nat]
        /\ msgs' \in [Tasks -> Nat]
    BY NextTypes DEF IInv, TypeOK
  <1>1. CASE msgs[m] > 0
    <2>1. msgs'[m] >= msgs[m] => Underway(m)'
      BY <1>0, <1>1 DEF Underway
    <2> QED
      BY <2>1, MessageMoves
  <1>2. CASE m \in ToSet(outbox)
    <2>1. CASE outbox' = outbox
      BY <1>2, <2>1 DEF Underway
    <2>2. ASSUME NEW x \in Tasks \cup {DeadEvent}, outbox' = Append(outbox, x)
          PROVE  Underway(m)'
      BY <1>0, <1>2, <2>2, Kept DEF Underway
    <2>3. ASSUME NEW x \in Tasks, Dispatch(x) PROVE Underway(m)'
      <3>1. CASE x = m
        BY <1>0, <2>3, <3>1 DEF Dispatch, Underway
      <3>2. CASE x # m
        <4>1. PICK i \in DOMAIN outbox : outbox[i] = x /\ outbox' = RemoveAt(outbox, i)
          BY <2>3 DEF Dispatch, Sendable
        <4>2. m \in ToSet(RemoveAt(outbox, i))
          BY <1>0, <1>2, <3>2, <4>1, Kept
        <4> QED
          BY <4>1, <4>2 DEF Underway
      <3> QED
        BY <3>1, <3>2
    <2> QED
      BY <2>1, <2>2, <2>3, OutboxMoves
  <1> QED
    BY <1>1, <1>2 DEF Underway

\* The steps that touch an execution.
LEMMA WorkSteps ==
    ASSUME Next
    PROVE  \/ work' = work
           \/ \E m \in Tasks : Receives(m)
           \/ \E v \in Workers : Works(v) \/ Crash(v) \/ TaskDies(v)
  <1>1. ASSUME NEW t \in Turns, StartPlanning(t) \/ ConfirmPlan(t) PROVE work' = work
    BY <1>1 DEF StartPlanning, ConfirmPlan
  <1>2. ASSUME NEW c \in Clients, NEW t \in Turns, SubmitReads(c, t)
        PROVE  work' = work
    BY <1>2 DEF SubmitReads
  <1>3. ASSUME NEW c \in Clients, NEW r \in Runs, CancelReads(c, r) PROVE work' = work
    BY <1>3 DEF CancelReads
  <1>4. ASSUME NEW c \in Clients, Answers(c) PROVE work' = work
    BY <1>4 DEF Answers, SubmitWrites, CancelWrites, RequestFails
  <1>5. ASSUME NEW m \in Tasks, Dispatch(m) \/ DispatchTwice(m) \/ LoseMessage(m)
        PROVE  work' = work
    BY <1>5 DEF Dispatch, DispatchTwice, LoseMessage
  <1>6. ASSUME NEW r \in Runs, Reconciles(r) PROVE work' = work
    BY <1>6 DEF Reconciles, ReconcileRunning, ReconcileExtracting, ReconcileQueued
  <1> QED
    BY <1>1, <1>2, <1>3, <1>4, <1>5, <1>6 DEF Next

\* A worker in the middle of a task works on, or it dies.
LEMMA WorkerMoves ==
    ASSUME IInv, Next, NEW w \in Workers, work[w].pc # "idle"
    PROVE  \/ work'[w] = work[w] /\ work'[w].pc # "idle"
           \/ Works(w) \/ Crash(w) \/ TaskDies(w)
  <1>0. work \in [Workers -> Execution]
    BY DEF IInv, TypeOK
  <1> DEFINE Goal == work'[w] = work[w] \/ Works(w) \/ Crash(w) \/ TaskDies(w)
  <1>1. UNCHANGED work => Goal
    OBVIOUS
  <1>2. ASSUME NEW v \in Workers, NEW e, v # w, work' = [work EXCEPT ![v] = e]
        PROVE  Goal
    BY <1>0, <1>2
  <1>3. ASSUME NEW m \in Tasks, Receives(m) PROVE Goal
    <2>1. ASSUME NEW v \in Workers, NEW t \in Turns,
                 PlanStarts(v, t) \/ PlanExists(v, t)
          PROVE  Goal
      BY <1>1, <1>2, <2>1 DEF PlanStarts, PlanExists
    <2>2. ASSUME NEW v \in Workers, NEW r \in Runs, RunStarts(v, r) \/ RunSkipped(v, r)
          PROVE  Goal
      BY <1>1, <1>2, <2>2 DEF RunStarts, RunSkipped
    <2>3. ASSUME NEW v \in Workers, NEW r \in Runs, ExtStarts(v, r) \/ ExtSkipped(v, r)
          PROVE  Goal
      BY <1>1, <1>2, <2>3 DEF ExtStarts, ExtSkipped
    <2> HIDE DEF Goal
    <2> QED
      BY <1>3, <2>1, <2>2, <2>3 DEF Receives
  <1>4. ASSUME NEW v \in Workers, Works(v) \/ Crash(v) \/ TaskDies(v) PROVE Goal
    <2>1. CASE v = w
      BY <1>4, <2>1
    <2>2. CASE v # w
      <3>1. ASSUME PlanGenerated(v) PROVE work'[w] = work[w]
        BY <1>0, <2>2, <3>1 DEF PlanGenerated
      <3>2. ASSUME NEW s, Stage(v, s) PROVE work'[w] = work[w]
        BY <1>0, <2>2, <3>2 DEF Stage
      <3>3. ASSUME Acknowledge(v) PROVE work'[w] = work[w]
        BY <1>0, <2>2, <3>3 DEF Acknowledge
      <3> QED
        BY <1>4, <3>1, <3>2, <3>3
           DEF Works, PlanRefused, PlanBinds, PlanFails, Analysed, AnalysisFails,
               CompleteReads, CompleteWrites, CompleteFails, FailWrites, Extracted,
               ExtractFails, ExtSettles, Crash, TaskDies
    <2> QED
      BY <2>1, <2>2
  <1> HIDE DEF Goal
  <1>5. Goal
    BY <1>1, <1>3, <1>4, WorkSteps
  <1> QED
    BY <1>5 DEF Goal

\* A crash gives the message back; it and a cut-off task are counted.
LEMMA CrashGives ==
    ASSUME IInv, NEW m \in Tasks, NEW w \in Workers, Crash(w), MessageOf(work[w]) = m
    PROVE  Underway(m)' /\ used'["crash"] > 0
  <1>1. msgs \in [Tasks -> Nat] /\ "crash" \in FaultKinds
    BY DEF IInv, TypeOK, FaultKinds
  <1>2. msgs'[m] > 0
    BY <1>1 DEF Crash
  <1> QED
    BY <1>1, <1>2, Spent DEF Crash, Underway

-----------------------------------------------------------------------------
(* Turns that are being planned.                                           *)

\* The steps that touch the status of a turn.
LEMMA TurnSteps ==
    ASSUME Next
    PROVE  \/ turn' = turn
           \/ \E t \in Turns : StartPlanning(t) \/ ConfirmPlan(t)
           \/ \E c \in Clients : SubmitWrites(c)
           \/ \E m \in Tasks : Receives(m)
           \/ \E w \in Workers : Works(w)
  <1>1. ASSUME NEW c \in Clients, NEW t \in Turns, SubmitReads(c, t)
        PROVE  turn' = turn
    BY <1>1 DEF SubmitReads, data
  <1>2. ASSUME NEW c \in Clients, NEW r \in Runs, CancelReads(c, r) PROVE turn' = turn
    BY <1>2 DEF CancelReads, data
  <1>3. ASSUME NEW c \in Clients, CancelWrites(c) \/ RequestFails(c)
        PROVE  turn' = turn
    BY <1>3 DEF CancelWrites, RequestFails, data
  <1>4. ASSUME NEW m \in Tasks, Dispatch(m) \/ DispatchTwice(m) \/ LoseMessage(m)
        PROVE  turn' = turn
    BY <1>4 DEF Dispatch, DispatchTwice, LoseMessage, data
  <1>5. ASSUME NEW w \in Workers, Crash(w) \/ TaskDies(w) PROVE turn' = turn
    BY <1>5 DEF Crash, TaskDies, data
  <1>6. ASSUME NEW r \in Runs, Reconciles(r) PROVE turn' = turn
    BY <1>6 DEF Reconciles, ReconcileRunning, ReconcileExtracting, ReconcileQueued, data
  <1> QED
    BY <1>1, <1>2, <1>3, <1>4, <1>5, <1>6 DEF Next, Answers

\* A turn is being planned, or queued, only by the request for it.
LEMMA TurnBegins ==
    ASSUME IInv, Next, NEW t \in Turns, turn'[t] # turn[t]
    PROVE  /\ turn'[t] = "planning" => StartPlanning(t)
           /\ turn'[t] = "queued" => \E c \in Clients : SubmitWrites(c) /\ client[c].t = t
  <1>0. turn \in [Turns -> TurnStatus]
    BY DEF IInv, TypeOK
  <1> DEFINE Goal == \/ turn'[t] \notin {"planning", "queued"}
                     \/ turn'[t] = "planning" /\ StartPlanning(t)
                     \/ turn'[t] = "queued"
                           /\ \E c \in Clients : SubmitWrites(c) /\ client[c].t = t
  <1>1. UNCHANGED turn => Goal
    OBVIOUS
  <1>2. ASSUME NEW u \in Turns, StartPlanning(u) \/ ConfirmPlan(u) PROVE Goal
    BY <1>0, <1>2 DEF StartPlanning, ConfirmPlan
  <1>3. ASSUME NEW c \in Clients, SubmitWrites(c) PROVE Goal
    <2>1. client[c].t = t /\ turn'[t] = "queued"
      BY <1>0, <1>3 DEF SubmitWrites
    <2> QED
      BY <1>3, <2>1
  <1>4. ASSUME NEW u, NEW s, s \notin {"planning", "queued"},
               turn' = [turn EXCEPT ![u] = s]
        PROVE  Goal
    BY <1>0, <1>4
  <1>5. ASSUME NEW m \in Tasks, Receives(m) PROVE Goal
    <2>1. ASSUME NEW w \in Workers, NEW u \in Turns, PlanStarts(w, u) \/ PlanExists(w, u)
          PROVE  Goal
      <3>1. turn' = turn \/ turn' = [turn EXCEPT ![u] = "plan_review"]
        BY <2>1 DEF PlanStarts, PlanExists, data
      <3> HIDE DEF Goal
      <3> QED
        BY <1>1, <1>4, <3>1
    <2>2. ASSUME NEW w \in Workers, NEW r \in Runs,
                 RunStarts(w, r) \/ RunSkipped(w, r) \/ ExtStarts(w, r) \/ ExtSkipped(w, r)
          PROVE  Goal
      BY <1>1, <2>2 DEF RunStarts, RunSkipped, ExtStarts, ExtSkipped, data
    <2> HIDE DEF Goal
    <2> QED
      BY <1>5, <2>1, <2>2 DEF Receives
  <1>6. ASSUME NEW w \in Workers, Works(w) PROVE Goal
    <2>1. ASSUME PlanBinds(w) \/ PlanFails(w) PROVE Goal
      <3>1. \/ turn' = turn
            \/ \E s \in {"plan_review", "planning_failed"} :
                  turn' = [turn EXCEPT ![work[w].t] = s]
        BY <2>1 DEF PlanBinds, PlanFails
      <3> HIDE DEF Goal
      <3> QED
        BY <1>1, <1>4, <3>1
    <2>2. ASSUME CompleteWrites(w) \/ FailWrites(w) PROVE Goal
      <3>1. \/ turn' = turn
            \/ \E s \in {"succeeded", "run_failed"} :
                  turn' = [turn EXCEPT ![work[w].t] = s]
        BY <2>2 DEF CompleteWrites, FailWrites
      <3> HIDE DEF Goal
      <3> QED
        BY <1>1, <1>4, <3>1
    <2>3. ASSUME ~(PlanBinds(w) \/ PlanFails(w) \/ CompleteWrites(w) \/ FailWrites(w))
          PROVE  turn' = turn
      BY <1>6, <2>3
         DEF Works, PlanGenerated, PlanRefused, Analysed, AnalysisFails, CompleteReads,
             CompleteFails, Extracted, ExtractFails, ExtSettles, data
    <2> HIDE DEF Goal
    <2> QED
      BY <1>1, <2>1, <2>2, <2>3
  <1>7. turn' = turn \/ Goal
    <2> HIDE DEF Goal
    <2> QED
      BY <1>2, <1>3, <1>5, <1>6, TurnSteps
  <1> QED
    BY <1>7

\* A worker that plans goes on, or the turn is not being planned any more, or
\* the message is back, or the task was cut off.
LEMMA PlannerStays ==
    ASSUME IInv, Next, NEW t \in Turns, NEW w \in Workers,
           work[w].pc \in PlanStages, work[w].t = t
    PROVE  \/ work'[w].pc \in PlanStages /\ work'[w].t = t
           \/ turn'[t] # "planning"
           \/ Underway(PlanTask(t))'
           \/ used'["timeout"] > 0
  <1> USE StageFacts
  <1>0. TypeOK /\ work \in [Workers -> Execution] /\ turn \in [Turns -> TurnStatus]
    BY DEF IInv, TypeOK
  <1> DEFINE Goal == \/ work'[w].pc \in PlanStages /\ work'[w].t = t
                     \/ turn'[t] # "planning"
                     \/ Underway(PlanTask(t))'
                     \/ used'["timeout"] > 0
  <1>1. CASE work'[w] = work[w]
    BY <1>1
  <1>2. CASE Works(w)
    <2>1. CASE PlanGenerated(w)
      <3>1. PICK p : work' = [work EXCEPT ![w].pc = "binding", ![w].p = p]
        BY <2>1 DEF PlanGenerated
      <3>2. work'[w].pc = "binding" /\ work'[w].t = work[w].t
        BY <1>0, <3>1 DEF Execution
      <3> QED
        BY <3>2
    <2>2. CASE PlanRefused(w)
      <3>1. work'[w].pc = "plan_failing" /\ work'[w].t = work[w].t
        BY <1>0, <2>2 DEF PlanRefused, Stage, Execution
      <3> QED
        BY <3>1
    <2>3. CASE PlanBinds(w)
      BY <1>0, <2>3 DEF PlanBinds
    <2>4. CASE PlanFails(w)
      BY <1>0, <2>4 DEF PlanFails
    <2> QED
      BY <1>2, <2>1, <2>2, <2>3, <2>4
         DEF Works, Analysed, AnalysisFails, CompleteReads, CompleteWrites,
             CompleteFails, FailWrites, Extracted, ExtractFails, ExtSettles, PlanStages
  <1>3. CASE Crash(w)
    <2>1. MessageOf(work[w]) = PlanTask(t) /\ PlanTask(t) \in Tasks
      BY TaskTypes DEF MessageOf
    <2> QED
      BY <1>3, <2>1, CrashGives
  <1>4. CASE TaskDies(w)
    BY <1>4, Spent DEF TaskDies, FaultKinds
  <1> QED
    BY <1>1, <1>2, <1>3, <1>4, WorkerMoves

\* A planning message that is received has a worker, or no planning turn.
LEMMA PlanReceived ==
    ASSUME IInv, NEW t \in Turns, Receives(PlanTask(t))
    PROVE  \/ turn'[t] # "planning"
           \/ \E w \in Workers : work'[w].pc \in PlanStages /\ work'[w].t = t
  <1>0. TypeOK /\ turn \in [Turns -> TurnStatus]
    BY DEF IInv, TypeOK
  <1> DEFINE Goal == \/ turn'[t] # "planning"
                     \/ \E w \in Workers : work'[w].pc \in PlanStages /\ work'[w].t = t
  <1>1. ASSUME NEW w \in Workers, PlanStarts(w, t) PROVE Goal
    <2>1. work'[w] = [IdleWorker EXCEPT !.pc = "generating", !.t = t]
      BY <1>0, <1>1 DEF PlanStarts, TypeOK
    <2>2. work'[w].pc = "generating" /\ work'[w].t = t
      BY <2>1 DEF IdleWorker
    <2> QED
      BY <2>2, StageFacts
  <1>2. ASSUME NEW w \in Workers, PlanExists(w, t) PROVE Goal
    BY <1>0, <1>2 DEF PlanExists
  <1> HIDE DEF Goal
  <1>3. Goal
    BY <1>1, <1>2, PlanTasksDiffer DEF Receives
  <1> QED
    BY <1>3 DEF Goal

-----------------------------------------------------------------------------
(* Runs and extractions that wait.                                         *)
LEMMA RunReceived ==
    ASSUME IInv, NEW r \in Runs, Receives(RunTask(r))
    PROVE  run'[r].st # "queued"
  <1>0. run \in [Runs -> RunRow]
    BY DEF IInv, TypeOK
  <1>1. ASSUME NEW w \in Workers, RunStarts(w, r) PROVE run'[r].st = "running"
    BY <1>0, <1>1 DEF RunStarts, RunRow
  <1>2. ASSUME NEW w \in Workers, RunSkipped(w, r) PROVE run'[r].st # "queued"
    BY <1>2 DEF RunSkipped, Claimable, data
  <1>3. \E w \in Workers : RunStarts(w, r) \/ RunSkipped(w, r)
    BY TasksDiffer, PlanTasksDiffer DEF Receives
  <1> QED
    BY <1>1, <1>2, <1>3

LEMMA ExtReceived ==
    ASSUME IInv, NEW r \in Runs, Receives(ExtTask(r))
    PROVE  ext'[r] # "queued"
  <1>0. ext \in [Runs -> ExtStatus]
    BY DEF IInv, TypeOK
  <1>1. ASSUME NEW w \in Workers, ExtStarts(w, r) PROVE ext'[r] = "running"
    BY <1>0, <1>1 DEF ExtStarts
  <1>2. ASSUME NEW w \in Workers, ExtSkipped(w, r) PROVE ext'[r] # "queued"
    BY <1>2 DEF ExtSkipped, ExtClaimable, data
  <1>3. \A q : ExtTask(q) = ExtTask(r) => q = r
    BY DEF ExtTask
  <1>4. \E w \in Workers : ExtStarts(w, r) \/ ExtSkipped(w, r)
    BY <1>3, TasksDiffer, PlanTasksDiffer DEF Receives
  <1> QED
    BY <1>1, <1>2, <1>4

\* A run or an extraction comes to wait together with its event.
LEMMA RunBegins ==
    ASSUME IInv, Next, NEW r \in Runs, run'[r].st = "queued", run'[r] # run[r]
    PROVE  Underway(RunTask(r))'
  <1>0. run \in [Runs -> RunRow]
    BY DEF IInv, TypeOK
  <1>1. ASSUME NEW w \in Workers, RunStarts(w, r) PROVE run'[r].st = "running"
    BY <1>0, <1>1 DEF RunStarts, RunRow
  <1>2. run[r].st = "absent" /\ \E c \in Clients : SubmitWrites(c)
    BY <1>1, StatusWriters
  <1>3. PICK c \in Clients : SubmitWrites(c)
    BY <1>2
  <1>4. PICK q \in NextRun :
           /\ run' = [run EXCEPT ![q] = [st |-> "queued", t |-> client[c].t,
                                         p |-> client[c].p]]
           /\ Enqueue(RunTask(q))
    BY <1>3 DEF SubmitWrites
  <1>5. q = r
    BY <1>0, <1>4 DEF NextRun
  <1> QED
    BY <1>4, <1>5, Enqueued, TaskTypes

LEMMA ExtSteps ==
    ASSUME Next
    PROVE  \/ ext' = ext
           \/ \E m \in Tasks : Receives(m)
           \/ \E w \in Workers : Works(w)
           \/ \E r \in Runs : Reconciles(r)
  <1>1. ASSUME NEW t \in Turns, StartPlanning(t) \/ ConfirmPlan(t) PROVE ext' = ext
    BY <1>1 DEF StartPlanning, ConfirmPlan
  <1>2. ASSUME NEW c \in Clients, NEW t \in Turns, SubmitReads(c, t) PROVE ext' = ext
    BY <1>2 DEF SubmitReads, data
  <1>3. ASSUME NEW c \in Clients, NEW r \in Runs, CancelReads(c, r) PROVE ext' = ext
    BY <1>3 DEF CancelReads, data
  <1>4. ASSUME NEW c \in Clients, Answers(c) PROVE ext' = ext
    BY <1>4 DEF Answers, SubmitWrites, CancelWrites, RequestFails, data
  <1>5. ASSUME NEW m \in Tasks, Dispatch(m) \/ DispatchTwice(m) \/ LoseMessage(m)
        PROVE  ext' = ext
    BY <1>5 DEF Dispatch, DispatchTwice, LoseMessage, data
  <1>6. ASSUME NEW w \in Workers, Crash(w) \/ TaskDies(w) PROVE ext' = ext
    BY <1>6 DEF Crash, TaskDies, data
  <1> QED
    BY <1>1, <1>2, <1>3, <1>4, <1>5, <1>6 DEF Next

LEMMA ExtBegins ==
    ASSUME IInv, Next, NEW r \in Runs, ext'[r] = "queued", ext'[r] # ext[r]
    PROVE  Underway(ExtTask(r))'
  <1>0. ext \in [Runs -> ExtStatus]
    BY DEF IInv, TypeOK
  <1> DEFINE Goal == ext'[r] # "queued" \/ ext'[r] = ext[r] \/ Underway(ExtTask(r))'
  <1>1. ASSUME NEW q, NEW s, s # "queued", ext' = [ext EXCEPT ![q] = s] PROVE Goal
    BY <1>0, <1>1
  <1>2. UNCHANGED ext => Goal
    OBVIOUS
  <1>3. ASSUME NEW w \in Workers, CompleteWrites(w) PROVE Goal
    <2>1. /\ ext' = [ext EXCEPT ![work[w].r] = "queued"] /\ Enqueue(ExtTask(work[w].r))
      BY <1>3 DEF CompleteWrites
    <2>2. work[w].r # r => ext'[r] = ext[r]
      BY <1>0, <2>1
    <2>3. work[w].r = r => Underway(ExtTask(r))'
      BY <2>1, Enqueued, TaskTypes
    <2> QED
      BY <2>2, <2>3
  <1>4. ASSUME NEW w \in Workers, Works(w) PROVE Goal
    <2>1. ASSUME ExtSettles(w) PROVE Goal
      <3>1. \/ ext' = ext
            \/ \E s \in {"succeeded", "failed"} : ext' = [ext EXCEPT ![work[w].r] = s]
        BY <2>1 DEF ExtSettles
      <3> HIDE DEF Goal
      <3> QED
        BY <1>1, <1>2, <3>1
    <2>2. ASSUME ~CompleteWrites(w), ~ExtSettles(w) PROVE ext' = ext
      BY <1>4, <2>2
         DEF Works, PlanGenerated, PlanRefused, PlanBinds, PlanFails, Analysed,
             AnalysisFails, CompleteReads, CompleteFails, FailWrites, Extracted,
             ExtractFails, data
    <2> HIDE DEF Goal
    <2> QED
      BY <1>2, <1>3, <2>1, <2>2
  <1>5. ASSUME NEW m \in Tasks, Receives(m) PROVE Goal
    <2>1. ASSUME NEW w \in Workers, NEW q \in Runs, ExtStarts(w, q) PROVE Goal
      <3>1. ext' = [ext EXCEPT ![q] = "running"]
        BY <2>1 DEF ExtStarts
      <3> QED
        BY <1>1, <3>1
    <2>2. ASSUME NEW w \in Workers, NEW q \in Runs,
                 RunStarts(w, q) \/ RunSkipped(w, q) \/ ExtSkipped(w, q)
          PROVE  Goal
      BY <1>2, <2>2 DEF RunStarts, RunSkipped, ExtSkipped, data
    <2>3. ASSUME NEW w \in Workers, NEW t \in Turns, PlanStarts(w, t) \/ PlanExists(w, t)
          PROVE  Goal
      BY <1>2, <2>3 DEF PlanStarts, PlanExists, data
    <2> HIDE DEF Goal
    <2> QED
      BY <1>5, <2>1, <2>2, <2>3 DEF Receives
  <1>6. ASSUME NEW q \in Runs, Reconciles(q) PROVE Goal
    <2>1. ext' = ext \/ ext' = [ext EXCEPT ![q] = "failed"]
      BY <1>6 DEF Reconciles, ReconcileRunning, ReconcileExtracting, ReconcileQueued, data
    <2> HIDE DEF Goal
    <2> QED
      BY <1>1, <1>2, <2>1
  <1> HIDE DEF Goal
  <1>7. Goal
    BY <1>2, <1>4, <1>5, <1>6, ExtSteps
  <1> QED
    BY <1>7 DEF Goal

-----------------------------------------------------------------------------
(* Turns that are queued.                                                  *)

\* A run of t waits or is executed.
Serves(r, t) == /\ run[r].t = t
                /\ \/ run[r].st = "queued"
                   \/ \E w \in Workers : WorksOn(w, RunStages, r)

\* A request about to cancel a run was counted when it was made.
CancelsCounted == (\E c \in Clients : client[c].pc = "cancelling") => used["cancel"] > 0

LEMMA RunTaken ==
    ASSUME IInv, NEW w \in Workers, NEW r \in Runs, RunStarts(w, r)
    PROVE  WorksOn(w, RunStages, r)'
  <1>1. work \in [Workers -> Execution]
    BY DEF IInv, TypeOK
  <1>2. work'[w] = [IdleWorker EXCEPT !.pc = "analysing", !.r = r, !.t = run[r].t,
                                      !.p = run[r].p]
    BY <1>1 DEF RunStarts
  <1>3. work'[w].pc = "analysing" /\ work'[w].r = r
    BY <1>2 DEF IdleWorker
  <1> QED
    BY <1>3, StageFacts DEF WorksOn

\* Executing a run ends with its turn answered or failed.
LEMMA ExecutionStays ==
    ASSUME IInv, Next, NEW w \in Workers, NEW r \in Runs, WorksOn(w, RunStages, r)
    PROVE  \/ WorksOn(w, RunStages, r)'
           \/ turn'[run[r].t] # "queued"
           \/ used'["crash"] > 0 \/ used'["timeout"] > 0
  <1> USE StageFacts
  <1>0. /\ work \in [Workers -> Execution] /\ turn \in [Turns -> TurnStatus]
        /\ work[w].pc \in RunStages /\ work[w].r = r
    BY DEF IInv, TypeOK, WorksOn
  <1>1. Executes(w)
    BY <1>0 DEF IInv, ExecutionsInv
  <1>2. run[r].t \in Turns /\ work[w].t = run[r].t /\ run[r].st # "succeeded"
    BY <1>0, <1>1 DEF Executes, IInv, RowsInv, ResultInv
  <1>3. CASE work'[w] = work[w]
    BY <1>0, <1>3 DEF WorksOn
  <1>4. ASSUME NEW s \in RunStages, Stage(w, s) PROVE WorksOn(w, RunStages, r)'
    <2>1. work'[w].pc = s /\ work'[w].r = work[w].r
      BY <1>0, <1>4 DEF Stage, Execution
    <2> QED
      BY <1>0, <2>1 DEF WorksOn
  <1>5. CASE Works(w)
    <2>1. ASSUME CompleteReads(w) PROVE WorksOn(w, RunStages, r)'
      BY <1>0, <1>2, <1>4, <2>1 DEF CompleteReads
    <2>2. ASSUME Analysed(w) \/ AnalysisFails(w) \/ CompleteFails(w)
          PROVE  WorksOn(w, RunStages, r)'
      BY <1>4, <2>2 DEF Analysed, AnalysisFails, CompleteFails
    <2>3. ASSUME CompleteWrites(w) PROVE turn'[run[r].t] # "queued"
      BY <1>0, <1>2, <2>3 DEF CompleteWrites
    <2>4. ASSUME FailWrites(w) PROVE turn'[run[r].t] # "queued"
      BY <1>0, <1>2, <2>4 DEF FailWrites
    <2> QED
      BY <1>0, <1>5, <2>1, <2>2, <2>3, <2>4
         DEF Works, PlanGenerated, PlanRefused, PlanBinds, PlanFails, Extracted,
             ExtractFails, ExtSettles, RunStages
  <1>6. CASE Crash(w)
    BY <1>6, Spent DEF Crash, FaultKinds
  <1>7. CASE TaskDies(w)
    BY <1>7, Spent DEF TaskDies, FaultKinds
  <1> QED
    BY <1>0, <1>3, <1>5, <1>6, <1>7, WorkerMoves

LEMMA ServesStays ==
    ASSUME IInv, Next, CancelsCounted, NEW t \in Turns, NEW r \in Runs, Serves(r, t),
           turn'[t] = "queued",
           used'["crash"] = 0, used'["timeout"] = 0, used["cancel"] = 0
    PROVE  Serves(r, t)'
  <1>0. run \in [Runs -> RunRow]
    BY DEF IInv, TypeOK
  <1>1. run[r].t = t /\ run[r].st # "absent"
    BY DEF Serves, IInv, ExecutionsInv, Executes, WorksOn
  <1>2. \A c \in Clients : client[c].pc # "cancelling"
    BY DEF CancelsCounted
  <1>3. run'[r].t = t
    <2>1. CASE run'[r] = run[r]
      BY <1>1, <2>1
    <2>2. CASE run'[r] # run[r]
      BY <1>1, <2>2, StatusWriters
    <2> QED
      BY <2>1, <2>2
  <1>4. CASE run[r].st = "queued"
    <2>1. CASE run'[r] = run[r]
      BY <1>3, <1>4, <2>1 DEF Serves
    <2>2. CASE run'[r] # run[r]
      <3>1. \E w \in Workers : RunStarts(w, r)
        BY <1>2, <1>4, <2>2, StatusWriters
      <3>2. \E w \in Workers : WorksOn(w, RunStages, r)'
        BY <3>1, RunTaken
      <3> QED
        BY <1>3, <3>2 DEF Serves
    <2> QED
      BY <2>1, <2>2
  <1>5. ASSUME NEW w \in Workers, WorksOn(w, RunStages, r) PROVE Serves(r, t)'
    <2>1. WorksOn(w, RunStages, r)'
      BY <1>1, <1>5, ExecutionStays
    <2> QED
      BY <1>3, <2>1 DEF Serves
  <1> QED
    BY <1>4, <1>5 DEF Serves

\* A request that queues a turn gives it a run.
LEMMA ServesBegins ==
    ASSUME IInv, NEW c \in Clients, SubmitWrites(c), NEW t, client[c].t = t
    PROVE  \E r \in Runs : Serves(r, t)'
  <1>0. run \in [Runs -> RunRow]
    BY DEF IInv, TypeOK
  <1>1. PICK r \in NextRun :
           run' = [run EXCEPT ![r] = [st |-> "queued", t |-> client[c].t,
                                      p |-> client[c].p]]
    BY DEF SubmitWrites
  <1>2. r \in Runs /\ run'[r].st = "queued" /\ run'[r].t = t
    BY <1>0, <1>1 DEF NextRun
  <1> QED
    BY <1>2 DEF Serves

LEMMA ClientSteps ==
    ASSUME Next
    PROVE  \/ client' = client
           \/ \E c \in Clients :
                \/ \E t \in Turns : SubmitReads(c, t)
                \/ \E r \in Runs : CancelReads(c, r)
                \/ Answers(c)
  <1>1. ASSUME NEW t \in Turns, StartPlanning(t) \/ ConfirmPlan(t)
        PROVE  client' = client
    BY <1>1 DEF StartPlanning, ConfirmPlan
  <1>2. ASSUME NEW m \in Tasks, Dispatch(m) \/ DispatchTwice(m) \/ LoseMessage(m)
        PROVE  client' = client
    BY <1>2 DEF Dispatch, DispatchTwice, LoseMessage
  <1>3. ASSUME NEW w \in Workers, Works(w) \/ Crash(w) \/ TaskDies(w)
        PROVE  client' = client
    BY <1>3 DEF Works, PlanGenerated, PlanRefused, PlanBinds, PlanFails, Analysed,
                AnalysisFails, CompleteReads, CompleteWrites, CompleteFails, FailWrites,
                Extracted, ExtractFails, ExtSettles, Crash, TaskDies
  <1>4. ASSUME NEW r \in Runs, Reconciles(r) PROVE client' = client
    BY <1>4 DEF Reconciles, ReconcileRunning, ReconcileExtracting, ReconcileQueued
  <1> QED
    BY <1>1, <1>2, <1>3, <1>4, ReceivesTook DEF Next

LEMMA CancelsNext ==
    ASSUME IInv, Next, CancelsCounted
    PROVE  CancelsCounted'
  <1> SUFFICES ASSUME NEW c \in Clients, client'[c].pc = "cancelling"
               PROVE  used'["cancel"] > 0
    BY DEF CancelsCounted
  <1>0. client \in [Clients -> Request] /\ "cancel" \in FaultKinds
    BY DEF IInv, TypeOK, FaultKinds
  <1>1. ASSUME NEW b \in Clients, NEW r \in Runs, CancelReads(b, r)
        PROVE  used'["cancel"] > 0
    BY <1>0, <1>1, Spent DEF CancelReads
  <1>2. CASE client[c].pc = "cancelling"
    BY <1>0, <1>2, FaultsGrow DEF CancelsCounted
  <1>3. ASSUME NEW b \in Clients, NEW e, client' = [client EXCEPT ![b] = e],
               e.pc # "cancelling"
        PROVE  client[c].pc = "cancelling"
    BY <1>0, <1>3
  <1>4. ASSUME NEW b \in Clients, Answers(b) PROVE client[c].pc = "cancelling"
    <2>1. client' = [client EXCEPT ![b] = IdleClient] /\ IdleClient.pc = "idle"
      BY <1>4 DEF Answers, SubmitWrites, CancelWrites, RequestFails, IdleClient
    <2> QED
      BY <1>3, <2>1
  <1>5. ASSUME NEW b \in Clients, NEW t \in Turns, SubmitReads(b, t)
        PROVE  client[c].pc = "cancelling"
    <2> DEFINE e == [IdleClient EXCEPT !.pc = "submitting", !.t = t,
                                       !.p = Latest(ConfirmedPlansOf(t))]
    <2>1. client' = [client EXCEPT ![b] = e] /\ e.pc = "submitting"
      BY <1>5 DEF SubmitReads, IdleClient
    <2> HIDE DEF e
    <2> QED
      BY <1>3, <2>1
  <1> QED
    BY <1>1, <1>2, <1>4, <1>5, ClientSteps

-----------------------------------------------------------------------------
(* The three promises, and what the third needs.                           *)
PlannedFor ==
    used["drop"] + used["timeout"] = 0 =>
       \A t \in Turns : turn[t] = "planning" =>
          \/ Underway(PlanTask(t))
          \/ \E w \in Workers : work[w].pc \in PlanStages /\ work[w].t = t

Delivered ==
    used["drop"] = 0 =>
       \A r \in Runs : /\ run[r].st = "queued" => Underway(RunTask(r))
                       /\ ext[r] = "queued" => Underway(ExtTask(r))

Served ==
    used["crash"] + used["timeout"] + used["cancel"] = 0 =>
       \A t \in Turns : turn[t] = "queued" => \E r \in Runs : Serves(r, t)

CarriedInv == PlannedFor /\ Delivered /\ CancelsCounted /\ Served

LEMMA FaultFree ==
    ASSUME IInv, Next
    PROVE  /\ used'["drop"] + used'["timeout"] = 0 =>
                /\ used["drop"] + used["timeout"] = 0
                /\ used'["drop"] = 0 /\ used'["timeout"] = 0
           /\ used'["drop"] = 0 => used["drop"] = 0
           /\ used'["crash"] + used'["timeout"] + used'["cancel"] = 0 =>
                /\ used["crash"] + used["timeout"] + used["cancel"] = 0
                /\ used'["crash"] = 0 /\ used'["timeout"] = 0 /\ used["cancel"] = 0
  <1> DEFINE G(k) == used[k] \in Nat /\ used'[k] \in Nat /\ used[k] <= used'[k]
  <1>1. \A k \in FaultKinds : G(k)
    BY FaultsGrow
  <1> HIDE DEF G
  <1>2. G("drop") /\ G("timeout") /\ G("crash") /\ G("cancel")
    BY <1>1 DEF FaultKinds
  <1>3. /\ used'["drop"] + used'["timeout"] = 0 =>
             /\ used["drop"] + used["timeout"] = 0
             /\ used'["drop"] = 0 /\ used'["timeout"] = 0
        /\ used'["drop"] = 0 => used["drop"] = 0
    BY <1>2 DEF G
  <1>4. ASSUME used'["crash"] + used'["timeout"] + used'["cancel"] = 0
        PROVE  /\ used["crash"] + used["timeout"] + used["cancel"] = 0
               /\ used'["crash"] = 0 /\ used'["timeout"] = 0 /\ used["cancel"] = 0
    <2>0. \A x, y, z \in Nat : x + y + z = 0 => x = 0 /\ y = 0 /\ z = 0
      OBVIOUS
    <2>1. used'["crash"] = 0 /\ used'["timeout"] = 0 /\ used'["cancel"] = 0
      <3>1. used'["crash"] \in Nat /\ used'["timeout"] \in Nat /\ used'["cancel"] \in Nat
        BY <1>2 DEF G
      <3> QED
        BY <1>4, <2>0, <3>1
    <2>2. used["crash"] = 0 /\ used["timeout"] = 0 /\ used["cancel"] = 0
      BY <1>2, <2>1 DEF G
    <2> QED
      BY <2>1, <2>2
  <1> QED
    BY <1>3, <1>4

LEMMA NotLost ==
    ASSUME IInv, used'["drop"] = 0, NEW m PROVE ~LoseMessage(m)
  BY Spent DEF LoseMessage, FaultKinds

LEMMA PlannedForNext ==
    ASSUME IInv, Next, PlannedFor PROVE PlannedFor'
  <1> SUFFICES ASSUME used'["drop"] + used'["timeout"] = 0,
                      NEW t \in Turns, turn'[t] = "planning"
               PROVE  \/ Underway(PlanTask(t))'
                      \/ \E w \in Workers : work'[w].pc \in PlanStages /\ work'[w].t = t
    BY DEF PlannedFor
  <1>0. /\ used["drop"] + used["timeout"] = 0
        /\ used'["drop"] = 0 /\ used'["timeout"] = 0 /\ PlanTask(t) \in Tasks
    BY FaultFree, TaskTypes
  <1>1. CASE turn[t] # "planning"
    BY <1>0, <1>1, TurnBegins, Enqueued DEF StartPlanning
  <1>2. CASE Underway(PlanTask(t))
    BY <1>0, <1>2, UnderwayStays, NotLost, PlanReceived
  <1>3. ASSUME NEW w \in Workers, work[w].pc \in PlanStages, work[w].t = t
        PROVE  \/ Underway(PlanTask(t))'
               \/ work'[w].pc \in PlanStages /\ work'[w].t = t
    BY <1>0, <1>3, PlannerStays
  <1> QED
    BY <1>0, <1>1, <1>2, <1>3 DEF PlannedFor

LEMMA DeliveredNext ==
    ASSUME IInv, Next, Delivered PROVE Delivered'
  <1> SUFFICES ASSUME used'["drop"] = 0, NEW r \in Runs
               PROVE  /\ run'[r].st = "queued" => Underway(RunTask(r))'
                      /\ ext'[r] = "queued" => Underway(ExtTask(r))'
    BY DEF Delivered
  <1>0. used["drop"] = 0 /\ RunTask(r) \in Tasks /\ ExtTask(r) \in Tasks
    BY FaultFree, TaskTypes
  <1>1. ASSUME run'[r].st = "queued" PROVE Underway(RunTask(r))'
    <2>1. CASE run'[r] # run[r]
      BY <1>1, <2>1, RunBegins
    <2>2. CASE run'[r] = run[r]
      <3>1. Underway(RunTask(r))
        BY <1>0, <1>1, <2>2 DEF Delivered
      <3> QED
        BY <1>0, <1>1, <3>1, UnderwayStays, NotLost, RunReceived
    <2> QED
      BY <2>1, <2>2
  <1>2. ASSUME ext'[r] = "queued" PROVE Underway(ExtTask(r))'
    <2>1. CASE ext'[r] # ext[r]
      BY <1>2, <2>1, ExtBegins
    <2>2. CASE ext'[r] = ext[r]
      <3>1. Underway(ExtTask(r))
        BY <1>0, <1>2, <2>2 DEF Delivered
      <3> QED
        BY <1>0, <1>2, <3>1, UnderwayStays, NotLost, ExtReceived
    <2> QED
      BY <2>1, <2>2
  <1> QED
    BY <1>1, <1>2

LEMMA ServedNext ==
    ASSUME IInv, Next, CancelsCounted, Served PROVE Served'
  <1> SUFFICES ASSUME used'["crash"] + used'["timeout"] + used'["cancel"] = 0,
                      NEW t \in Turns, turn'[t] = "queued"
               PROVE  \E r \in Runs : Serves(r, t)'
    BY DEF Served
  <1>0. /\ used["crash"] + used["timeout"] + used["cancel"] = 0
        /\ used'["crash"] = 0 /\ used'["timeout"] = 0 /\ used["cancel"] = 0
    BY FaultFree
  <1>1. CASE turn[t] # "queued"
    BY <1>1, TurnBegins, ServesBegins
  <1>2. CASE turn[t] = "queued"
    <2>1. PICK r \in Runs : Serves(r, t)
      BY <1>0, <1>2 DEF Served
    <2> QED
      BY <1>0, <2>1, ServesStays
  <1> QED
    BY <1>1, <1>2

LEMMA CarriedInit == Init => CarriedInv
  <1> SUFFICES ASSUME Init PROVE CarriedInv
    OBVIOUS
  <1>1. PlannedFor /\ Delivered
    BY DEF Init, PlannedFor, Delivered
  <1>2. CancelsCounted
    BY DEF Init, CancelsCounted, IdleClient
  <1>3. Served
    BY DEF Init, Served
  <1> QED
    BY <1>1, <1>2, <1>3 DEF CarriedInv

\* A run that waits has not ended; one that is executed has a worker.
LEMMA ServedNotStuck ==
    ASSUME IInv, NEW t \in Turns, NEW r \in Runs, Serves(r, t) PROVE ~Stuck(t)
  <1>1. CASE run[r].st = "queued"
    BY <1>1 DEF Serves, Stuck, Ended
  <1>2. ASSUME NEW w \in Workers, WorksOn(w, RunStages, r) PROVE ~Stuck(t)
    <2>1. work[w].pc \in RunStages /\ work[w].t = t
      BY <1>2 DEF IInv, ExecutionsInv, Executes, WorksOn, Serves
    <2> QED
      BY <2>1 DEF Stuck
  <1> QED
    BY <1>1, <1>2 DEF Serves

(* Nothing that was asked for is forgotten unless a fault explains it: the *)
(* outbox and late acknowledgement carry a plan, a run and an extraction,  *)
(* and complete and fail leave no turn queued (reconcile_timeline may fail *)
(* the run of a live execution, which still ends its turn).                *)
THEOREM NothingIsForgotten == Spec => []NothingForgotten
  <1>1. IInv /\ CarriedInv /\ [Next]_vars => CarriedInv'
    <2> SUFFICES ASSUME IInv, CarriedInv, [Next]_vars PROVE CarriedInv'
      OBVIOUS
    <2>1. CASE Next
      BY <2>1, PlannedForNext, DeliveredNext, CancelsNext, ServedNext DEF CarriedInv
    <2>2. CASE UNCHANGED vars
      BY <2>2 DEF vars, CarriedInv, PlannedFor, Delivered, CancelsCounted, Served,
                  Serves, WorksOn, Underway
    <2> QED
      BY <2>1, <2>2
  <1>2. IInv /\ CarriedInv => NothingForgotten
    <2> SUFFICES ASSUME IInv, CarriedInv PROVE NothingForgotten
      OBVIOUS
    <2>1. PlannedFor /\ Delivered
      BY DEF CarriedInv
    <2>2. ASSUME used["crash"] + used["timeout"] + used["cancel"] = 0, NEW t \in Turns
          PROVE  ~Stuck(t)
      <3>1. CASE turn[t] # "queued"
        BY <3>1 DEF Stuck
      <3>2. CASE turn[t] = "queued"
        BY <2>2, <3>2, ServedNotStuck DEF CarriedInv, Served
      <3> QED
        BY <3>1, <3>2
    <2> QED
      BY <2>1, <2>2 DEF NothingForgotten, PlannedFor, Delivered
  <1> QED
    BY <1>1, <1>2, Invariance, CarriedInit, PTL DEF Spec
================================================================================
