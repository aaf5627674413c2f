------------------------------ MODULE Timeline ------------------------------
(***************************************************************************)
(* The research timeline of one workspace (packages/research/timeline,     *)
(* packages/research/planning and apps/worker/research_timeline_tasks.py): *)
(* turns that are planned, confirmed, run and answered; the plan versions, *)
(* runs and candidate extractions they own; the outbox and the worker      *)
(* tasks that carry them; and the reconciler.                              *)
(*                                                                         *)
(* Every action is one database transaction, or the part of one between    *)
(* two reads that other transactions can come in between.  What a model    *)
(* answers is a choice between success and failure.  The reconciler's 10   *)
(* minutes may pass between any two steps: it counts them from submission, *)
(* not from the start of the work.  Two rows that are born succeeded are   *)
(* left out, as no operation here reads them: the run that analyze_data    *)
(* adds beside the submitted one, and the extraction job that              *)
(* extract_insight adds beside the claimed one.                            *)
(* A definition Slip_X is a plausible mistake in the definition after it.  *)
(***************************************************************************)
EXTENDS Naturals, Sequences, FiniteSets, SequencesExt

CONSTANTS
    Turns,      \* turns of the workspace, already created
    Clients,    \* API requests that may be under way at the same time
    Workers,    \* worker processes, one message at a time each
    MaxPlans,   \* plan versions that may be generated
    MaxRuns,    \* runs that may be submitted
    MaxDead,    \* events the dispatcher refuses that may pile up
    Batch,      \* how many undelivered events the dispatcher looks at
    NoTurn,     \* a plan version not bound to a turn, an idle worker
    Budget      \* combinations of faults that may happen, counted by kind

FaultKinds == {"crash", "timeout", "drop", "cancel"}

ASSUME TimelineAssumption ==
    /\ NoTurn \notin Turns
    /\ MaxPlans \in Nat /\ MaxRuns \in Nat /\ MaxDead \in Nat
    /\ Batch \in Nat \ {0}
    /\ Budget \subseteq [FaultKinds -> Nat]

VARIABLES
    turn,      \* research_turn.status
    plan,      \* rows of research_analysis_plan_version by version_number
    analysed,  \* plan versions whose dag_structure holds an analysis_result
    run,       \* rows of research_analysis_run by run_number
    result,    \* research_turn_result: the run that answered the turn, or 0
    ext,       \* status of research_candidate_extraction_job by run
    outbox,    \* undelivered outbox events, oldest first
    msgs,      \* messages waiting in the broker
    client,    \* API requests between their reads and their writes
    work,      \* what each worker process is doing
    used       \* faults spent, by kind

data == <<turn, plan, analysed, run, result, ext>>
vars == <<turn, plan, analysed, run, result, ext, outbox, msgs, client, work,
          used>>

-----------------------------------------------------------------------------
Plans == 1 .. MaxPlans
Runs == 1 .. MaxRuns

TurnStatus == {"question_draft", "planning", "planning_failed", "plan_review",
               "plan_confirmed", "queued", "succeeded", "run_failed"}
\* Taken from ACTIVE_TURN_STATUSES too.
Slip_QueuedIsRunnable == {"plan_confirmed", "run_failed", "queued"}
RUNNABLE_TURN_STATUSES == {"plan_confirmed", "run_failed"}
Slip_PlanningCanPlan == {"question_draft", "planning_failed", "planning"}
CAN_PLAN == {"question_draft", "planning_failed"}

PlanRow == [st: {"absent", "draft", "confirmed", "superseded"},
            t: Turns \cup {NoTurn}]
RunRow == [st: {"absent", "queued", "running", "succeeded", "failed",
                "cancelled"},
           t: Turns \cup {NoTurn}, p: Plans \cup {0}]
ExtStatus == {"absent", "queued", "running", "succeeded", "failed"}

\* An event and the message it becomes: the task and the row it is about.
PlanTask(t) == <<"plan", t>>
RunTask(r) == <<"run", r>>
ExtTask(r) == <<"ext", r>>
Tasks == {PlanTask(t) : t \in Turns} \cup {RunTask(r) : r \in Runs}
            \cup {ExtTask(r) : r \in Runs}
\* An event without a valid ResearchTaskPrincipal: never sent, never deleted.
DeadEvent == <<"dead", 0>>

Stages == {"idle", "generating", "binding", "plan_failing", "analysing",
           "completing", "finishing", "failing", "extracting", "extracted",
           "ext_failing"}
PlanStages == {"generating", "binding", "plan_failing"}
RunStages == {"analysing", "completing", "finishing", "failing"}
ExtStages == {"extracting", "extracted", "ext_failing"}
Execution == [pc: Stages, t: Turns \cup {NoTurn}, p: Plans \cup {0},
              r: Runs \cup {0}]
IdleWorker == [pc |-> "idle", t |-> NoTurn, p |-> 0, r |-> 0]

Request == [pc: {"idle", "submitting", "cancelling"}, t: Turns \cup {NoTurn},
            p: Plans \cup {0}, r: Runs \cup {0}]
IdleClient == [pc |-> "idle", t |-> NoTurn, p |-> 0, r |-> 0]

\* The message a worker has taken and not acknowledged.
MessageOf(e) == CASE e.pc \in PlanStages -> PlanTask(e.t)
                  [] e.pc \in RunStages -> RunTask(e.r)
                  [] OTHER -> ExtTask(e.r)

PlansOf(t) == {p \in Plans : plan[p].t = t}
\* ORDER BY version_number DESC LIMIT 1
Latest(S) == CHOOSE p \in S : \A q \in S : q <= p
ConfirmedPlansOf(t) == {p \in PlansOf(t) : plan[p].st = "confirmed"}

ActiveRun(r) == run[r].st \in {"queued", "running"}
\* get_active_run_for_workspace, and the partial unique index behind it.
Busy == \E r \in Runs : ActiveRun(r)
NextPlan == {p \in Plans : /\ plan[p].st = "absent"
                           /\ \A q \in Plans : q < p => plan[q].st # "absent"}
NextRun == {r \in Runs : /\ run[r].st = "absent"
                         /\ \A q \in Runs : q < r => run[q].st # "absent"}

Enqueue(m) == outbox' = Append(outbox, m)
Took(m) == msgs[m] > 0 /\ msgs' = [msgs EXCEPT ![m] = @ - 1]
Stage(w, s) == work' = [work EXCEPT ![w].pc = s]
Acknowledge(w) == work' = [work EXCEPT ![w] = IdleWorker]
Spend(k) ==
    /\ used' = [used EXCEPT ![k] = @ + 1]
    /\ used' \in Budget

Init ==
    /\ turn = [t \in Turns |-> "question_draft"]
    /\ plan = [p \in Plans |-> [st |-> "absent", t |-> NoTurn]]
    /\ analysed = {}
    /\ run = [r \in Runs |-> [st |-> "absent", t |-> NoTurn, p |-> 0]]
    /\ result = [t \in Turns |-> 0]
    /\ ext = [r \in Runs |-> "absent"]
    /\ outbox = <<>>
    /\ msgs = [m \in Tasks |-> 0]
    /\ client = [c \in Clients |-> IdleClient]
    /\ work = [w \in Workers |-> IdleWorker]
    /\ used = [k \in FaultKinds |-> 0]

-----------------------------------------------------------------------------
(* The API process.                                                        *)

\* TurnService.start_planning: lock_turn_inputs is a compare-and-set.
StartPlanning(t) ==
    /\ turn[t] \in CAN_PLAN
    /\ turn' = [turn EXCEPT ![t] = "planning"]
    /\ Enqueue(PlanTask(t))
    /\ UNCHANGED <<plan, analysed, run, result, ext, msgs, client, work, used>>

\* TurnService.confirm_plan: the turn's compare-and-set decides; the plan must
\* still be a draft bound to the turn.
ConfirmPlan(t) ==
    /\ turn[t] = "plan_review"
    /\ \E p \in PlansOf(t) :
         /\ plan[p].st = "draft"
         /\ plan' = [plan EXCEPT ![p].st = "confirmed"]
    /\ turn' = [turn EXCEPT ![t] = "plan_confirmed"]
    /\ UNCHANGED <<analysed, run, result, ext, outbox, msgs, client, work, used>>

\* AnalysisService.submit_run reads the turn, its confirmed plan and the active
\* run without a lock ...
SubmitReads(c, t) ==
    /\ client[c].pc = "idle"
    /\ turn[t] \in RUNNABLE_TURN_STATUSES
    /\ ConfirmedPlansOf(t) # {}
    /\ ~Busy
    /\ client' = [client EXCEPT ![c] =
                    [IdleClient EXCEPT !.pc = "submitting", !.t = t,
                                       !.p = Latest(ConfirmedPlansOf(t))]]
    /\ UNCHANGED <<data, outbox, msgs, work, used>>

\* ... and inserts the run and its event.  The turn is updated by id only; the
\* partial unique index is what refuses a second active run.
SubmitWrites(c) ==
    /\ client[c].pc = "submitting"
    /\ ~Busy
    /\ \E r \in NextRun :
         /\ run' = [run EXCEPT ![r] = [st |-> "queued", t |-> client[c].t,
                                       p |-> client[c].p]]
         /\ Enqueue(RunTask(r))
    /\ turn' = [turn EXCEPT ![client[c].t] = "queued"]
    /\ client' = [client EXCEPT ![c] = IdleClient]
    /\ UNCHANGED <<plan, analysed, result, ext, msgs, work, used>>

\* AnalysisRunService.cancel_run looks at the status ...
CancelReads(c, r) ==
    /\ client[c].pc = "idle"
    /\ ActiveRun(r)
    /\ client' = [client EXCEPT ![c] =
                    [IdleClient EXCEPT !.pc = "cancelling", !.r = r]]
    /\ Spend("cancel")
    /\ UNCHANGED <<data, outbox, msgs, work>>

\* ... and updates by id; the turn of the run is not touched.
CancelWrites(c) ==
    /\ client[c].pc = "cancelling"
    /\ run' = [run EXCEPT ![client[c].r].st = "cancelled"]
    /\ client' = [client EXCEPT ![c] = IdleClient]
    /\ UNCHANGED <<turn, plan, analysed, result, ext, outbox, msgs, work, used>>

\* The index refuses the run, or the request fails and is rolled back.
RequestFails(c) ==
    /\ client[c].pc # "idle"
    /\ client' = [client EXCEPT ![c] = IdleClient]
    /\ UNCHANGED <<data, outbox, msgs, work, used>>

-----------------------------------------------------------------------------
(* The dispatcher and the broker.                                          *)

\* Positions of the batch whose principal is valid; the others are skipped and
\* stay at the head of the queue.
Sendable == {i \in DOMAIN outbox : i <= Batch /\ outbox[i] # DeadEvent}

Dispatch(m) ==
    /\ \E i \in Sendable : /\ outbox[i] = m
                           /\ outbox' = RemoveAt(outbox, i)
    /\ msgs' = [msgs EXCEPT ![m] = @ + 1]
    /\ UNCHANGED <<data, client, work, used>>

\* The dispatcher dies between send_task and its commit.
DispatchTwice(m) ==
    /\ \E i \in Sendable : outbox[i] = m
    /\ msgs' = [msgs EXCEPT ![m] = @ + 1]
    /\ Spend("crash")
    /\ UNCHANGED <<data, outbox, client, work>>

LoseMessage(m) ==
    /\ Took(m)
    /\ Spend("drop")
    /\ UNCHANGED <<data, outbox, client, work>>

-----------------------------------------------------------------------------
(* research.plans.generate.                                                *)

\* No plan is bound to the turn yet and it is still planning: call the model.
PlanStarts(w, t) ==
    /\ work[w].pc = "idle"
    /\ PlansOf(t) = {} /\ turn[t] = "planning"
    /\ Took(PlanTask(t))
    /\ work' = [work EXCEPT ![w] = [IdleWorker EXCEPT !.pc = "generating", !.t = t]]
    /\ UNCHANGED <<data, outbox, client, used>>

\* A redelivery: at most the turn is moved forward.
PlanExists(w, t) ==
    /\ work[w].pc = "idle"
    /\ PlansOf(t) # {} \/ turn[t] # "planning"
    /\ Took(PlanTask(t))
    /\ turn' = IF turn[t] = "planning" THEN [turn EXCEPT ![t] = "plan_review"]
                                       ELSE turn
    /\ UNCHANGED <<plan, analysed, run, result, ext, outbox, client, work, used>>

\* PlanService.generate_plan inserts the next version and supersedes every
\* confirmed plan of the workspace, whatever turn it belongs to.
Superseded(row) == IF row.st = "confirmed" THEN [row EXCEPT !.st = "superseded"]
                                           ELSE row

PlanGenerated(w) ==
    /\ work[w].pc = "generating"
    /\ \E p \in NextPlan :
         /\ plan' = [q \in Plans |-> IF q = p THEN [st |-> "draft", t |-> NoTurn]
                                              ELSE Superseded(plan[q])]
         /\ work' = [work EXCEPT ![w].pc = "binding", ![w].p = p]
    /\ UNCHANGED <<turn, analysed, run, result, ext, outbox, msgs, client, used>>

\* No configuration, the model failed, another version took the number, or the
\* soft time limit.
PlanRefused(w) ==
    /\ work[w].pc = "generating"
    /\ Stage(w, "plan_failing")
    /\ UNCHANGED <<data, outbox, msgs, client, used>>

PlanBinds(w) ==
    /\ work[w].pc = "binding"
    /\ plan' = [plan EXCEPT ![work[w].p].t = work[w].t]
    /\ turn' = IF turn[work[w].t] = "planning"
               THEN [turn EXCEPT ![work[w].t] = "plan_review"] ELSE turn
    /\ Acknowledge(w)
    /\ UNCHANGED <<analysed, run, result, ext, outbox, msgs, client, used>>

\* An early return that forgets the turn.
Slip_RefusedSilently(w) ==
    /\ work[w].pc = "plan_failing"
    /\ Acknowledge(w)
    /\ UNCHANGED <<data, outbox, msgs, client, used>>

PlanFails(w) ==
    /\ work[w].pc = "plan_failing"
    /\ turn' = IF turn[work[w].t] = "planning"
               THEN [turn EXCEPT ![work[w].t] = "planning_failed"] ELSE turn
    /\ Acknowledge(w)
    /\ UNCHANGED <<plan, analysed, run, result, ext, outbox, msgs, client, used>>

-----------------------------------------------------------------------------
(* research.run.execute and TimelineRunFinalizer.                          *)

Slip_NotEnded(r) == ActiveRun(r)

\* The claim is a compare-and-set: queued -> running.
Claimable(r) == run[r].st = "queued"

RunStarts(w, r) ==
    /\ work[w].pc = "idle"
    /\ Claimable(r)
    /\ Took(RunTask(r))
    /\ run' = [run EXCEPT ![r].st = "running"]
    /\ work' = [work EXCEPT ![w] = [IdleWorker EXCEPT !.pc = "analysing", !.r = r,
                                      !.t = run[r].t, !.p = run[r].p]]
    /\ UNCHANGED <<turn, plan, analysed, result, ext, outbox, client, used>>

RunSkipped(w, r) ==
    /\ work[w].pc = "idle"
    /\ ~Claimable(r)
    /\ Took(RunTask(r))
    /\ UNCHANGED <<data, outbox, client, work, used>>

\* analyze_data keeps the analysis in the plan version.  An UPDATE that fails
\* is only logged, but it aborts the transaction: the next statement fails the
\* analysis (AnalysisFails).
Analysed(w) ==
    /\ work[w].pc = "analysing"
    /\ analysed' = analysed \cup {work[w].p}
    /\ Stage(w, "completing")
    /\ UNCHANGED <<turn, plan, run, result, ext, outbox, msgs, client, used>>

AnalysisFails(w) ==
    /\ work[w].pc = "analysing"
    /\ Stage(w, "failing")
    /\ UNCHANGED <<data, outbox, msgs, client, used>>

\* complete: session.get and a look at the status.  Already succeeded is an
\* idempotent skip, any other inactive status a ValueError that leads to fail.
CompleteReads(w) ==
    /\ work[w].pc = "completing"
    /\ IF run[work[w].r].st = "succeeded" THEN Acknowledge(w)
       ELSE Stage(w, IF ActiveRun(work[w].r) THEN "finishing" ELSE "failing")
    /\ UNCHANGED <<data, outbox, msgs, client, used>>

\* Without the unique index on turn_id.
Slip_LastResultWins(w) ==
    LET r == work[w].r
        t == work[w].t
    IN /\ work[w].pc = "finishing"
       /\ run' = [run EXCEPT ![r].st = "succeeded"]
       /\ result' = [result EXCEPT ![t] = r]
       /\ turn' = [turn EXCEPT ![t] = "succeeded"]
       /\ ext' = [ext EXCEPT ![r] = "queued"]
       /\ Enqueue(ExtTask(r))
       /\ Acknowledge(w)
       /\ UNCHANGED <<plan, analysed, msgs, client, used>>

\* The rest of complete's transaction: run (by id), result, turn, extraction
\* job and event.  A turn has one result: a second run's is refused.
CompleteWrites(w) ==
    LET r == work[w].r
        t == work[w].t
    IN /\ work[w].pc = "finishing"
       /\ result[t] = 0
       /\ run' = [run EXCEPT ![r].st = "succeeded"]
       /\ result' = [result EXCEPT ![t] = r]
       /\ turn' = IF turn[t] # "run_failed" THEN [turn EXCEPT ![t] = "succeeded"]
                                            ELSE turn
       /\ ext' = [ext EXCEPT ![r] = "queued"]
       /\ Enqueue(ExtTask(r))
       /\ Acknowledge(w)
       /\ UNCHANGED <<plan, analysed, msgs, client, used>>

\* The unique result of the turn, a database error or the soft time limit.
CompleteFails(w) ==
    /\ work[w].pc \in {"completing", "finishing"}
    /\ Stage(w, "failing")
    /\ UNCHANGED <<data, outbox, msgs, client, used>>

\* The run alone is failed.
Slip_TurnForgotten(w) ==
    /\ work[w].pc = "failing"
    /\ run' = [run EXCEPT ![work[w].r].st = "failed"]
    /\ Acknowledge(w)
    /\ UNCHANGED <<turn, plan, analysed, result, ext, outbox, msgs, client, used>>

\* fail: also over a run that was cancelled meanwhile.
FailWrites(w) ==
    LET r == work[w].r
        t == work[w].t
    IN /\ work[w].pc = "failing"
       /\ run' = IF run[r].st # "succeeded" THEN [run EXCEPT ![r].st = "failed"]
                                            ELSE run
       /\ turn' = IF turn[t] # "succeeded" THEN [turn EXCEPT ![t] = "run_failed"]
                                           ELSE turn
       /\ Acknowledge(w)
       /\ UNCHANGED <<plan, analysed, result, ext, outbox, msgs, client, used>>

-----------------------------------------------------------------------------
(* research.candidates.extract.                                            *)

ExtClaimable(r) == ext[r] = "queued"

\* Claimed by compare-and-set; the plan is the turn's newest, whatever its status.
ExtStarts(w, r) ==
    /\ work[w].pc = "idle"
    /\ ExtClaimable(r)
    /\ Took(ExtTask(r))
    /\ ext' = [ext EXCEPT ![r] = "running"]
    /\ work' = [work EXCEPT ![w] = [IdleWorker EXCEPT !.pc = "extracting", !.r = r,
                                      !.t = run[r].t, !.p = Latest(PlansOf(run[r].t))]]
    /\ UNCHANGED <<turn, plan, analysed, run, result, outbox, client, used>>

ExtSkipped(w, r) ==
    /\ work[w].pc = "idle"
    /\ ~ExtClaimable(r)
    /\ Took(ExtTask(r))
    /\ UNCHANGED <<data, outbox, client, work, used>>

\* extract_insight works on the analysis kept in that plan version.
Extracted(w) ==
    /\ work[w].pc = "extracting"
    /\ work[w].p \in analysed
    /\ Stage(w, "extracted")
    /\ UNCHANGED <<data, outbox, msgs, client, used>>

ExtractFails(w) ==
    /\ work[w].pc = "extracting"
    /\ Stage(w, "ext_failing")
    /\ UNCHANGED <<data, outbox, msgs, client, used>>

\* The outcome is a compare-and-set from running; a lost one is ignored.
ExtSettles(w) ==
    LET r == work[w].r
        verdict == IF work[w].pc = "extracted" THEN "succeeded" ELSE "failed"
    IN /\ work[w].pc \in {"extracted", "ext_failing"}
       /\ ext' = IF ext[r] = "running" THEN [ext EXCEPT ![r] = verdict] ELSE ext
       /\ Acknowledge(w)
       /\ UNCHANGED <<turn, plan, analysed, run, result, outbox, msgs, client, used>>

-----------------------------------------------------------------------------
(* Faults of a worker, and research.timeline.reconcile.                    *)

\* Messages acknowledged when they are taken.
Slip_AcksEarly(w) ==
    /\ work[w].pc # "idle"
    /\ Acknowledge(w)
    /\ Spend("crash")
    /\ UNCHANGED <<data, outbox, msgs, client>>

\* The process dies; acks_late gives its message back.
Crash(w) ==
    /\ work[w].pc # "idle"
    /\ msgs' = [msgs EXCEPT ![MessageOf(work[w])] = @ + 1]
    /\ Acknowledge(w)
    /\ Spend("crash")
    /\ UNCHANGED <<data, outbox, client>>

\* The hard time limit, or an error that escapes the task: acknowledged.
TaskDies(w) ==
    /\ work[w].pc # "idle"
    /\ Acknowledge(w)
    /\ Spend("timeout")
    /\ UNCHANGED <<data, outbox, msgs, client>>

\* The runbook's status, which the table does not know.
Slip_TaskLost(r) ==
    /\ run[r].st = "running"
    /\ run' = [run EXCEPT ![r].st = "task_lost"]
    /\ UNCHANGED <<turn, plan, analysed, result, ext, outbox, msgs, client, work, used>>

\* Whatever is not queued, by a selection made before.
Slip_NotQueuedFails(r) ==
    /\ run[r].st \notin {"absent", "queued"}
    /\ run' = [run EXCEPT ![r].st = "failed"]
    /\ UNCHANGED <<turn, plan, analysed, result, ext, outbox, msgs, client, work, used>>

\* A running row is given another chance, as the job engine gives it.
Slip_RunRequeued(r) ==
    /\ run[r].st = "running"
    /\ run' = [run EXCEPT ![r].st = "queued"]
    /\ Enqueue(RunTask(r))
    /\ UNCHANGED <<turn, plan, analysed, result, ext, msgs, client, work, used>>

\* A running row becomes failed.  The turn is not touched.
ReconcileRunning(r) ==
    /\ run[r].st = "running"
    /\ run' = [run EXCEPT ![r].st = "failed"]
    /\ UNCHANGED <<turn, plan, analysed, result, ext, outbox, msgs, client, work, used>>

ReconcileExtracting(r) ==
    /\ ext[r] = "running"
    /\ ext' = [ext EXCEPT ![r] = "failed"]
    /\ UNCHANGED <<turn, plan, analysed, run, result, outbox, msgs, client, work, used>>

\* A queued row gets an event whose principal has no department, or no actor.
DeadEvents == {i \in DOMAIN outbox : outbox[i] = DeadEvent}

ReconcileQueued(r) ==
    /\ run[r].st = "queued" \/ ext[r] = "queued"
    /\ Cardinality(DeadEvents) < MaxDead
    /\ Enqueue(DeadEvent)
    /\ UNCHANGED <<data, msgs, client, work, used>>

-----------------------------------------------------------------------------
Receives(m) ==
    \E w \in Workers :
        \/ \E t \in Turns : m = PlanTask(t) /\ (PlanStarts(w, t) \/ PlanExists(w, t))
        \/ \E r \in Runs : m = RunTask(r) /\ (RunStarts(w, r) \/ RunSkipped(w, r))
        \/ \E r \in Runs : m = ExtTask(r) /\ (ExtStarts(w, r) \/ ExtSkipped(w, r))

Works(w) ==
    \/ PlanGenerated(w) \/ PlanRefused(w) \/ PlanBinds(w) \/ PlanFails(w)
    \/ Analysed(w) \/ AnalysisFails(w)
    \/ CompleteReads(w) \/ CompleteWrites(w) \/ CompleteFails(w) \/ FailWrites(w)
    \/ Extracted(w) \/ ExtractFails(w) \/ ExtSettles(w)

Answers(c) == SubmitWrites(c) \/ CancelWrites(c) \/ RequestFails(c)

Reconciles(r) == ReconcileRunning(r) \/ ReconcileExtracting(r) \/ ReconcileQueued(r)

Next ==
    \/ \E t \in Turns : StartPlanning(t) \/ ConfirmPlan(t)
    \/ \E c \in Clients :
          \/ \E t \in Turns : SubmitReads(c, t)
          \/ \E r \in Runs : CancelReads(c, r)
          \/ Answers(c)
    \/ \E m \in Tasks :
          Dispatch(m) \/ DispatchTwice(m) \/ LoseMessage(m) \/ Receives(m)
    \/ \E w \in Workers : Works(w) \/ Crash(w) \/ TaskDies(w)
    \/ \E r \in Runs : Reconciles(r)

Spec == Init /\ [][Next]_vars

\* Beat runs the dispatcher every second and the reconciler every 30 s, workers
\* take messages and have time limits, requests end.  Nothing is assumed of users.
Fairness ==
    /\ \A m \in Tasks : WF_vars(Dispatch(m)) /\ WF_vars(Receives(m))
    /\ \A w \in Workers : WF_vars(Works(w))
    /\ \A c \in Clients : WF_vars(Answers(c))
    /\ \A r \in Runs : /\ WF_vars(ReconcileRunning(r))
                       /\ WF_vars(ReconcileExtracting(r))
                       /\ WF_vars(ReconcileQueued(r))

FairSpec == Spec /\ Fairness

-----------------------------------------------------------------------------
(* What the timeline promises.                                             *)

\* Rows, events and executions have the shape of their tables.
TypeOK ==
    /\ turn \in [Turns -> TurnStatus]
    /\ plan \in [Plans -> PlanRow]
    /\ analysed \subseteq Plans
    /\ run \in [Runs -> RunRow]
    /\ result \in [Turns -> Runs \cup {0}]
    /\ ext \in [Runs -> ExtStatus]
    /\ outbox \in Seq(Tasks \cup {DeadEvent})
    /\ msgs \in [Tasks -> Nat]
    /\ client \in [Clients -> Request]
    /\ work \in [Workers -> Execution]
    /\ used \in [FaultKinds -> Nat]

\* A turn has one result, of a run of its own that analysed a plan;
\* that run succeeded, though a cancel that read it earlier may overwrite the
\* status; a run that succeeded is the result of its turn, only such a run has
\* an extraction, and an answered turn has a result (TimelineRunFinalizer).
ResultInv ==
    /\ \A t \in Turns : result[t] # 0 =>
          /\ run[result[t]].t = t
          /\ run[result[t]].st \in {"succeeded", "cancelled"}
          /\ run[result[t]].p \in analysed
    /\ \A r \in Runs :
          /\ run[r].st = "succeeded" => result[run[r].t] = r
          /\ ext[r] # "absent" => result[run[r].t] = r
    /\ \A t \in Turns : turn[t] = "succeeded" => result[t] # 0

\* A run is analysed, and an extraction made, by one worker only and at most
\* once, however often its message is delivered: while somebody works on it or
\* after anybody did, it is not queued again (the claims of execute_analysis_run
\* and extract_candidates, which keep the model from being paid twice).
WorksOn(w, S, r) == work[w].pc \in S /\ work[w].r = r

PaidOnce ==
    \A r \in Runs :
      /\ \A w \in Workers :
           /\ WorksOn(w, RunStages, r) => ~Claimable(r) /\ ext[r] = "absent"
           /\ WorksOn(w, ExtStages, r) => ~ExtClaimable(r)
      /\ \A v, w \in Workers : v # w =>
           /\ ~(WorksOn(v, RunStages, r) /\ WorksOn(w, RunStages, r))
           /\ ~(WorksOn(v, ExtStages, r) /\ WorksOn(w, ExtStages, r))

\* A turn gets one plan version unless its message was delivered twice: the
\* task looks for a plan when it starts and binds one when the model has
\* answered (generate_plan).
OnePlanUnlessRedelivered ==
    used["crash"] = 0 => \A t \in Turns : Cardinality(PlansOf(t)) <= 1

\* The status of a run that ended is left in three ways only: the executor
\* writes over a cancel or the reconciler's verdict, or a stale cancel writes
\* over anything (cancel_run, complete and fail update by id).
Ended(r) == run[r].st \in {"succeeded", "failed", "cancelled"}

RunStatusOverwritten ==
    [][\A r \in Runs : Ended(r) /\ run'[r].st # run[r].st =>
         \/ \E w \in Workers : /\ WorksOn(w, {"finishing", "failing"}, r)
                               /\ run[r].st # "succeeded"
         \/ \E c \in Clients : /\ client[c].pc = "cancelling" /\ client[c].r = r
                               /\ run'[r].st = "cancelled"]_vars

\* The rows and the workers' executions are a ledger: whatever the statuses of
\* runs and turns go through, no redelivery, crash, late cancel or reconciler
\* has a run executed or extracted twice, a turn answered twice, or answered by
\* a run whose own plan was not analysed.
OnDesk(e) == CASE e.pc \in RunStages -> [job |-> "run", r |-> e.r]
               [] e.pc \in ExtStages -> [job |-> "ext", r |-> e.r]
               [] OTHER -> [job |-> "none", r |-> 0]

Orders == [r \in Runs |-> IF run[r].st = "absent" THEN [t |-> NoTurn, p |-> 0]
                          ELSE [t |-> run[r].t, p |-> run[r].p]]
Waiting == {r \in Runs : run[r].st = "queued"}
Offered == {r \in Runs : ext[r] = "queued"}
Desk == [w \in Workers |-> OnDesk(work[w])]

Ledger == INSTANCE TurnLedger WITH
    order <- Orders, waiting <- Waiting, offered <- Offered, desk <- Desk,
    studied <- analysed, answer <- result

ImplementsLedger == Ledger!Spec

\* What was handed out is never offered again: a run or extraction that left
\* "queued" is never queued a second time, a run keeps its turn and its plan,
\* and the result of a turn is final (execute_analysis_run and
\* extract_candidates claim by status, complete never replaces a result).
HandedOutOnce ==
    [][/\ \A r \in Runs : run[r].st # "absent" =>
            /\ run'[r].t = run[r].t /\ run'[r].p = run[r].p
            /\ run'[r].st = "queued" => run[r].st = "queued"
            /\ ext[r] # "absent" /\ ext'[r] = "queued" => ext[r] = "queued"
       /\ \A t \in Turns : result[t] # 0 => result'[t] = result[t]]_vars

\* Nothing sendable is within the dispatcher's reach, now or ever: the events
\* it refuses fill its batch.
Clogged == /\ Len(outbox) >= Batch
           /\ Sendable = {}

\* The run waits for a message that does not exist.
Lost(r) == /\ run[r].st = "queued"
           /\ msgs[RunTask(r)] = 0
           /\ RunTask(r) \notin ToSet(outbox)

\* The turn waits for a run, and no run, worker or request is there to end that.
Stuck(t) == /\ turn[t] = "queued"
            /\ \A r \in Runs : run[r].t = t => Ended(r)
            /\ \A w \in Workers : work[w].pc \in RunStages => work[w].t # t
            /\ \A c \in Clients : client[c].pc = "submitting" => client[c].t # t

\* Nothing that was asked for is forgotten unless a fault explains it.  A turn
\* that is being planned has an event, a message or a worker, unless a message
\* was lost or a task was cut off; a queued run or extraction has an event or a
\* message, unless one was lost; and no turn is Stuck, whatever the reconciler
\* has failed, unless a worker died, a task was cut off or a run was cancelled.
Underway(m) == msgs[m] > 0 \/ m \in ToSet(outbox)

NothingForgotten ==
    /\ used["drop"] + used["timeout"] = 0 =>
         \A t \in Turns : turn[t] = "planning" =>
            \/ Underway(PlanTask(t))
            \/ \E w \in Workers : work[w].pc \in PlanStages /\ work[w].t = t
    /\ used["drop"] = 0 =>
         \A r \in Runs : /\ run[r].st = "queued" => Underway(RunTask(r))
                         /\ ext[r] = "queued" => Underway(ExtTask(r))
    /\ used["crash"] + used["timeout"] + used["cancel"] = 0 =>
         \A t \in Turns : ~Stuck(t)

\* What reconcile_timeline does not repair.  A run whose message was lost is
\* left by a cancel alone, because the events it adds cannot be sent; a turn
\* whose run it failed stays queued and accepts neither a plan nor a run; a
\* clogged outbox stays so.
NotReconciled ==
    [][/\ \A r \in Runs : Lost(r) => Lost(r)' \/ run'[r].st = "cancelled"
       /\ \A t \in Turns : Stuck(t) => Stuck(t)'
       /\ Clogged => Clogged']_vars

\* Everything that was asked for ends.  A plan is generated or refused, unless
\* its message was lost or its task cut off; a run ends, unless it is Lost; an
\* extraction ends, unless its message was lost; nothing is waited for behind a
\* clogged outbox.
Unplanned(t) == /\ used["drop"] + used["timeout"] > 0
                /\ msgs[PlanTask(t)] = 0 /\ PlanTask(t) \notin ToSet(outbox)
                /\ \A w \in Workers : work[w].pc \in PlanStages => work[w].t # t

EverythingEnds ==
    /\ \A t \in Turns :
         turn[t] = "planning" ~> turn[t] # "planning" \/ Unplanned(t) \/ Clogged
    /\ \A r \in Runs :
         /\ ActiveRun(r) ~> Ended(r) \/ Lost(r) \/ Clogged
         /\ ext[r] = "queued" ~> \/ ext[r] \in {"succeeded", "failed"}
                                 \/ used["drop"] > 0 \/ Clogged

\* A queued turn is answered or its run fails for the user to see; after a
\* fault it may instead be Stuck, or wait for a Lost run.
TurnsAnswered ==
    \A t \in Turns :
       turn[t] = "queued" ~>
          \/ turn[t] \in {"succeeded", "run_failed"}
          \/ Clogged
          \/ /\ \E k \in FaultKinds : used[k] > 0
             /\ Stuck(t) \/ \E r \in Runs : run[r].t = t /\ Lost(r)

-----------------------------------------------------------------------------
(* What the repository says and the code does not keep.                    *)

\* state_machine.py, above RUNNABLE_TURN_STATUSES: "Statuses where the Turn has
\* a confirmed plan and can be submitted to run".
RunnableTurnHasPlan ==
    \A t \in Turns : turn[t] \in RUNNABLE_TURN_STATUSES => ConfirmedPlansOf(t) # {}

\* The research timeline runbook: a queued run without a delivery gets its event again.
LostRunRequeued ==
    \A r \in Runs : Lost(r) ~> ~Lost(r)

=============================================================================
