-------------------------------- MODULE Jobs --------------------------------
(***************************************************************************)
(* The job engine of packages/jobs and apps/worker: rows of the job table, *)
(* the transactional outbox, the Celery broker, worker executions with a   *)
(* lease and a fencing token (lock_version), the beat tasks that reap      *)
(* expired leases and requeue jobs after their backoff, and cancellation.  *)
(*                                                                         *)
(* Every action is one database transaction (or one broker call), so every *)
(* await between two transactions is a point where other actors step in.   *)
(* Time is abstracted: a lease is "live" until it "lapsed" (30 s without a *)
(* heartbeat) and a backoff is due or not.  Faults are bounded by Budget.  *)
(* A definition Slip_X is a plausible mistake in the definition after it,  *)
(* kept to show that a run would notice; nothing here uses it.             *)
(***************************************************************************)
EXTENDS Naturals, FiniteSets

CONSTANTS
    JobIds,        \* jobs; one per (department, idempotency key)
    FlowJobs,      \* jobs of kind flow_execute / flow_resume
    Workers,       \* Celery worker processes, one message at a time each
    Owners,        \* worker ids written to lease_owner
    OwnerOf,       \* [Workers -> Owners]: IRIP_WORKER_ID or celery-worker-<pid>
    NoOwner,       \* lease_owner IS NULL
    NoJob,         \* a worker without a message
    MaxAttempts,   \* job.max_attempts
    Budget         \* combinations of faults that may happen, counted by kind

FaultKinds == {"crash", "stall", "drop", "error", "cancel"}

ASSUME JobsAssumption ==
    /\ FlowJobs \subseteq JobIds
    /\ OwnerOf \in [Workers -> Owners]
    /\ NoOwner \notin Owners
    /\ NoJob \notin JobIds
    /\ MaxAttempts \in Nat \ {0}
    /\ Budget \subseteq [FaultKinds -> Nat]

VARIABLES
    job,       \* rows of the job table
    outbox,    \* undelivered outbox events per job
    msgs,      \* jobs.execute messages per job waiting in the broker
    work,      \* what each worker process is doing
    reaping,   \* ids a reap transaction has selected and not yet updated
    waking,    \* ids a retry_wait transaction has selected and not yet updated
    used       \* faults spent, by kind

vars == <<job, outbox, msgs, work, reaping, waking, used>>

-----------------------------------------------------------------------------
JobStatus == {"accepted", "queued", "running", "retry_wait", "succeeded",
              "failed", "cancel_requested", "cancelled"}
TERMINAL_STATUSES == {"succeeded", "failed", "cancelled"}
LEASEABLE_STATUSES == {"accepted", "queued", "retry_wait"}

JobRow == [st: JobStatus \cup {"absent"}, attempt: Nat, lock: Nat,
           owner: Owners \cup {NoOwner}, lease: {"none", "live", "lapsed"},
           backoff: {"none", "waiting", "over"}, cancel: {"none", "read"}]

Outcomes == {"succeeded", "failed", "retry_wait"}
Stages == {"idle", "acquired", "running", "marking", "committing", "releasing"}
Execution == [pc: Stages, j: JobIds \cup {NoJob}, token: Nat, att: Nat,
              hb: {"on", "off", "failed"}, out: Outcomes]

Idle == [pc |-> "idle", j |-> NoJob, token |-> 0, att |-> 0,
         hb |-> "off", out |-> "failed"]

\* An execution that has just been granted version t of j.
Started(j, t) == [Idle EXCEPT !.pc = "acquired", !.j = j, !.token = t,
                              !.hb = "on"]

Leased(row) == row.owner # NoOwner
Slip_StatusOnly(row) == row.st \in LEASEABLE_STATUSES
\* The WHERE clause of acquire_lease_with_fencing; run_after is not part of it.
Acquirable(row) ==
    /\ row.st \in LEASEABLE_STATUSES
    /\ ~Leased(row) \/ row.lease = "lapsed"
Slip_NullIsExpired(row) == row.st = "running" /\ row.lease # "live"
\* The WHERE clause of reap_and_redeliver's SELECT: a NULL expiry never matches.
Expired(row) == row.st = "running" /\ row.lease = "lapsed"

Unleased(row) == [row EXCEPT !.owner = NoOwner, !.lease = "none"]
\* Every status write of packages/jobs adds one to lock_version, and thereby
\* refuses the cancel requests that have read the version before it.
Moved(row, s) == [row EXCEPT !.st = s, !.lock = @ + 1, !.cancel = "none"]

\* Workers between taking a message for j and acknowledging it.
On(j) == {w \in Workers : work[w].j = j}
Slip_AnyOwner(w) == TRUE
\* The lease of w on its job, as renew_lease and release_lease see it.
HoldsLease(w) == job[work[w].j].owner = OwnerOf[w]

Slip_OneMore(att) == att < MaxAttempts
\* execute: a retryable error is retried as long as attempts are left.
RetryAllowed(att) == att + 1 < MaxAttempts

Spend(k) ==
    /\ used' = [used EXCEPT ![k] = @ + 1]
    /\ used' \in Budget

Init ==
    /\ job = [j \in JobIds |-> [st |-> "absent", attempt |-> 0, lock |-> 0,
                                owner |-> NoOwner, lease |-> "none",
                                backoff |-> "none", cancel |-> "none"]]
    /\ outbox = [j \in JobIds |-> 0]
    /\ msgs = [j \in JobIds |-> 0]
    /\ work = [w \in Workers |-> Idle]
    /\ reaping = {}
    /\ waking = {}
    /\ used = [k \in FaultKinds |-> 0]

-----------------------------------------------------------------------------
(* The API process: JobService.                                            *)

\* accept: the row and its job.accepted event in one transaction; a second call
\* with the same idempotency key finds the row and changes nothing.
Accept(j) ==
    /\ job[j].st = "absent"
    /\ job' = [job EXCEPT ![j].st = "accepted"]
    /\ outbox' = [outbox EXCEPT ![j] = @ + 1]
    /\ UNCHANGED <<msgs, work, reaping, waking, used>>

\* request_cancel reads the row and refuses a terminal job; cancel = "read"
\* says that a request has read the version the row still has.
CancelReads(j) ==
    /\ job[j].st \notin TERMINAL_STATUSES \cup {"absent"}
    /\ job[j].cancel = "none"
    /\ job' = [job EXCEPT ![j].cancel = "read"]
    /\ Spend("cancel")
    /\ UNCHANGED <<outbox, msgs, work, reaping, waking>>

Slip_CancelsAnyVersion(j) ==
    /\ job[j].st # "absent"
    /\ used["cancel"] > 0
    /\ job' = [job EXCEPT ![j] = Moved(@, "cancel_requested")]
    /\ outbox' = [outbox EXCEPT ![j] = @ + 1]
    /\ UNCHANGED <<msgs, work, reaping, waking, used>>
\* ... and its UPDATE compares that version only, so it also takes a job whose
\* status the flow engine has settled since; a moved version is a conflict.
RequestCancel(j) ==
    /\ job[j].cancel = "read"
    /\ job' = [job EXCEPT ![j] = Moved(@, "cancel_requested")]
    /\ outbox' = [outbox EXCEPT ![j] = @ + 1]
    /\ UNCHANGED <<msgs, work, reaping, waking, used>>

\* _update_job_status of the flow engine, in an execution of the job or in a
\* request that resumes or retries the run: by id, over any status, and without
\* a new lock_version.  Module FlowRun says when the engine does that.
EngineSettles(j) ==
    /\ j \in FlowJobs
    /\ job[j].st # "absent"
    /\ \E s \in TERMINAL_STATUSES : job' = [job EXCEPT ![j].st = s]
    /\ UNCHANGED <<outbox, msgs, work, reaping, waking, used>>

-----------------------------------------------------------------------------
(* The outbox dispatcher and the broker.                                   *)

\* dispatch: send_task, then delivered_at; every job.* event becomes a
\* jobs.execute message.
Dispatch(j) ==
    /\ outbox[j] > 0
    /\ outbox' = [outbox EXCEPT ![j] = @ - 1]
    /\ msgs' = [msgs EXCEPT ![j] = @ + 1]
    /\ UNCHANGED <<job, work, reaping, waking, used>>

\* The dispatcher dies after send_task and before its commit: the event stays
\* undelivered and will be sent again.
DispatchTwice(j) ==
    /\ outbox[j] > 0
    /\ msgs' = [msgs EXCEPT ![j] = @ + 1]
    /\ Spend("crash")
    /\ UNCHANGED <<job, outbox, work, reaping, waking>>

\* A message is gone without an execution: Redis lost it, the department
\* limiter refused it (rate_limited), or the task failed before the lease.
LoseDelivery(j) ==
    /\ msgs[j] > 0
    /\ msgs' = [msgs EXCEPT ![j] = @ - 1]
    /\ Spend("drop")
    /\ UNCHANGED <<job, outbox, work, reaping, waking>>

-----------------------------------------------------------------------------
(* A worker process: JobExecutor.execute.                                  *)

\* Step 1 and 2: conditional UPDATE ... RETURNING lock_version, heartbeat task.
Acquire(w, j) ==
    /\ work[w].pc = "idle"
    /\ msgs[j] > 0
    /\ Acquirable(job[j])
    /\ msgs' = [msgs EXCEPT ![j] = @ - 1]
    /\ job' = [job EXCEPT ![j] = [Moved(@, "running") EXCEPT
                                    !.owner = OwnerOf[w], !.lease = "live"]]
    /\ work' = [work EXCEPT ![w] = Started(j, job[j].lock + 1)]
    /\ UNCHANGED <<outbox, reaping, waking, used>>

\* The lease is not available: execute returns None and the message is acked.
Skip(w, j) ==
    /\ work[w].pc = "idle"
    /\ msgs[j] > 0
    /\ ~Acquirable(job[j])
    /\ msgs' = [msgs EXCEPT ![j] = @ - 1]
    /\ UNCHANGED <<job, outbox, work, reaping, waking, used>>

\* Step 3: read the row; a terminal job is left alone.
Load(w) ==
    /\ work[w].pc = "acquired"
    /\ LET row == job[work[w].j] IN
       work' = [work EXCEPT ![w] =
                  IF row.st \in TERMINAL_STATUSES
                  THEN [@ EXCEPT !.pc = "releasing"]
                  ELSE [@ EXCEPT !.pc = "running", !.att = row.attempt]]
    /\ UNCHANGED <<job, outbox, msgs, reaping, waking, used>>

\* Step 4: the handler returned, raised an AppError (also: no handler for the
\* kind), or raised anything else.  A flow adapter that catches the exception
\* marks the job failed by itself first.
HandlerEnds(w) ==
    /\ work[w].pc = "running"
    /\ \E out \in Outcomes, marks \in BOOLEAN :
         /\ out = "retry_wait" => RetryAllowed(work[w].att)
         /\ marks => work[w].j \in FlowJobs /\ out # "succeeded"
         /\ work[w].j \in FlowJobs /\ out = "retry_wait" => marks
         /\ work' = [work EXCEPT ![w].out = out,
                       ![w].pc = IF marks THEN "marking" ELSE "committing"]
    /\ UNCHANGED <<job, outbox, msgs, reaping, waking, used>>

\* _mark_job_failed: neither the token nor the status is in its WHERE clause.
MarkJobFailed(w) ==
    /\ work[w].pc = "marking"
    /\ job' = [job EXCEPT ![work[w].j] = Moved(@, "failed")]
    /\ work' = [work EXCEPT ![w].pc = "committing"]
    /\ UNCHANGED <<outbox, msgs, reaping, waking, used>>

\* ... and a database error in it is swallowed by the adapter.
MarkJobFailedErrs(w) ==
    /\ work[w].pc = "marking"
    /\ work' = [work EXCEPT ![w].pc = "committing"]
    /\ Spend("error")
    /\ UNCHANGED <<job, outbox, msgs, reaping, waking>>

Slip_NoFence(w) == TRUE
\* What the fencing token protects: the row is still at the version acquired.
Fenced(w) == job[work[w].j].lock = work[w].token

\* Step 5: _commit_success, _commit_failure, _commit_retry.  A stale token
\* changes no row, but _commit_retry inserts its outbox event all the same.
Commit(w) ==
    LET j == work[w].j
        out == work[w].out
        done == Moved(job[j], out)
    IN /\ work[w].pc = "committing"
       /\ job' = IF Fenced(w) /\ (out \in TERMINAL_STATUSES =>
                                    job[j].st \notin TERMINAL_STATUSES)
                 THEN [job EXCEPT ![j] =
                         IF out = "retry_wait"
                         THEN [done EXCEPT !.attempt = work[w].att + 1,
                                           !.backoff = "waiting"]
                         ELSE done]
                 ELSE job
       /\ outbox' = IF out = "retry_wait"
                    THEN [outbox EXCEPT ![j] = @ + 1] ELSE outbox
       /\ work' = [work EXCEPT ![w].pc = "releasing"]
       /\ UNCHANGED <<msgs, reaping, waking, used>>

\* Reading the row or committing raises (connection lost, result that JSONB
\* refuses): finally still runs and the task ends in an acknowledged failure.
StepErrs(w) ==
    /\ work[w].pc \in {"acquired", "committing"}
    /\ work' = [work EXCEPT ![w].pc = "releasing"]
    /\ Spend("error")
    /\ UNCHANGED <<job, outbox, msgs, reaping, waking>>

Slip_KeepsJob(w) ==
    /\ work[w].pc = "releasing"
    /\ work' = [work EXCEPT ![w].pc = "idle"]
    /\ UNCHANGED <<job, outbox, msgs, reaping, waking, used>>

\* Step 6: stop the heartbeat, release the lease if the owner still matches.
Release(w) ==
    /\ work[w].pc = "releasing"
    /\ work[w].hb # "failed"
    /\ job' = IF HoldsLease(w) THEN [job EXCEPT ![work[w].j] = Unleased(@)]
                               ELSE job
    /\ work' = [work EXCEPT ![w] = Idle]
    /\ UNCHANGED <<outbox, msgs, reaping, waking, used>>

\* finally awaits the heartbeat task first; if that died of an exception, the
\* exception surfaces there and the lease is not released.
ReleaseSkipped(w) ==
    /\ work[w].pc = "releasing"
    /\ work[w].hb = "failed"
    /\ work' = [work EXCEPT ![w] = Idle]
    /\ UNCHANGED <<job, outbox, msgs, reaping, waking, used>>

ReleaseErrs(w) ==
    /\ work[w].pc = "releasing"
    /\ work' = [work EXCEPT ![w] = Idle]
    /\ Spend("error")
    /\ UNCHANGED <<job, outbox, msgs, reaping, waking>>

Slip_TokenFollows(w) ==
    /\ work[w].pc # "idle"
    /\ work[w].hb = "on"
    /\ IF HoldsLease(w)
       THEN /\ job' = [job EXCEPT ![work[w].j].lease = "live"]
            /\ work' = [work EXCEPT ![w].token = job[work[w].j].lock]
       ELSE /\ work' = [work EXCEPT ![w].hb = "off"]
            /\ UNCHANGED job
    /\ UNCHANGED <<outbox, msgs, reaping, waking, used>>

\* _heartbeat_loop: renew_lease looks at the owner only; the loop ends at the
\* first refusal.
Heartbeat(w) ==
    /\ work[w].pc # "idle"
    /\ work[w].hb = "on"
    /\ IF HoldsLease(w)
       THEN /\ job' = [job EXCEPT ![work[w].j].lease = "live"]
            /\ UNCHANGED work
       ELSE /\ work' = [work EXCEPT ![w].hb = "off"]
            /\ UNCHANGED job
    /\ UNCHANGED <<outbox, msgs, reaping, waking, used>>

\* Nothing in the loop catches a database error: the heartbeat task is over.
HeartbeatErrs(w) ==
    /\ work[w].pc # "idle"
    /\ work[w].hb = "on"
    /\ work' = [work EXCEPT ![w].hb = "failed"]
    /\ Spend("error")
    /\ UNCHANGED <<job, outbox, msgs, reaping, waking>>

\* The process dies; the unacknowledged message goes back to the broker
\* (task_acks_late, task_reject_on_worker_lost).
Crash(w) ==
    /\ work[w].pc # "idle"
    /\ msgs' = [msgs EXCEPT ![work[w].j] = @ + 1]
    /\ work' = [work EXCEPT ![w] = Idle]
    /\ Spend("crash")
    /\ UNCHANGED <<job, outbox, reaping, waking>>

-----------------------------------------------------------------------------
(* Time and the beat tasks.                                                *)

\* Somebody is renewing the lease of j.
Renewed(j) == \E w \in On(j) : work[w].hb = "on" /\ HoldsLease(w)

\* A beat transaction that has selected j is still open.
Swept(j) == j \in waking \cup reaping

\* 30 s pass and nobody renews; beat tasks are over by then (soft limit 30 s).
LeaseLapses(j) ==
    /\ job[j].lease = "live"
    /\ ~Renewed(j) /\ ~Swept(j)
    /\ job' = [job EXCEPT ![j].lease = "lapsed"]
    /\ UNCHANGED <<outbox, msgs, work, reaping, waking, used>>

\* 30 s pass although a heartbeat task or a beat task is alive: a synchronous
\* handler blocks the event loop of the heartbeat, or the database stalls.
HeartbeatStalls(j) ==
    /\ job[j].lease = "live"
    /\ Renewed(j) \/ Swept(j)
    /\ job' = [job EXCEPT ![j].lease = "lapsed"]
    /\ Spend("stall")
    /\ UNCHANGED <<outbox, msgs, work, reaping, waking>>

BackoffElapses(j) ==
    /\ job[j].st = "retry_wait"
    /\ job[j].backoff = "waiting"
    /\ job' = [job EXCEPT ![j].backoff = "over"]
    /\ UNCHANGED <<outbox, msgs, work, reaping, waking, used>>

\* reap_and_redeliver: the SELECT ...
ReapSelects ==
    /\ reaping = {}
    /\ reaping' = {j \in JobIds : Expired(job[j])}
    /\ reaping' # {}
    /\ UNCHANGED <<job, outbox, msgs, work, waking, used>>

Slip_ReapKeepsVersion ==
    /\ reaping # {}
    /\ job' = [j \in JobIds |->
                 IF j \in reaping /\ job[j].st = "running"
                 THEN [Unleased(job[j]) EXCEPT !.st = "queued"] ELSE job[j]]
    /\ outbox' = [j \in JobIds |-> IF j \in reaping THEN outbox[j] + 1
                                                    ELSE outbox[j]]
    /\ reaping' = {}
    /\ UNCHANGED <<msgs, work, waking, used>>

Slip_ReapSilently ==
    /\ reaping # {}
    /\ job' = [j \in JobIds |->
                 IF j \in reaping /\ job[j].st = "running"
                 THEN Moved(Unleased(job[j]), "queued") ELSE job[j]]
    /\ reaping' = {}
    /\ UNCHANGED <<outbox, msgs, work, waking, used>>

\* ... and the UPDATE, which asks again for the status but not for the expiry,
\* with an event for every selected id whether or not its row was updated.
Reap ==
    /\ reaping # {}
    /\ job' = [j \in JobIds |->
                 IF j \in reaping /\ job[j].st = "running"
                 THEN Moved(Unleased(job[j]), "queued") ELSE job[j]]
    /\ outbox' = [j \in JobIds |-> IF j \in reaping THEN outbox[j] + 1
                                                    ELSE outbox[j]]
    /\ reaping' = {}
    /\ UNCHANGED <<msgs, work, waking, used>>

\* retry_wait_jobs: the SELECT ...
WakeSelects ==
    /\ waking = {}
    /\ waking' = {j \in JobIds : job[j].st = "retry_wait" /\ job[j].backoff = "over"}
    /\ waking' # {}
    /\ UNCHANGED <<job, outbox, msgs, work, reaping, used>>

\* ... and the UPDATEs, by id only: the status may have changed in between.
Wake ==
    /\ waking # {}
    /\ job' = [j \in JobIds |-> IF j \in waking THEN Moved(job[j], "queued")
                                                ELSE job[j]]
    /\ outbox' = [j \in JobIds |-> IF j \in waking THEN outbox[j] + 1
                                                   ELSE outbox[j]]
    /\ waking' = {}
    /\ UNCHANGED <<msgs, work, reaping, used>>

\* A beat task dies between its SELECT and its commit: the transaction is gone.
SweepDies ==
    /\ \/ reaping # {} /\ reaping' = {} /\ UNCHANGED waking
       \/ waking # {} /\ waking' = {} /\ UNCHANGED reaping
    /\ Spend("crash")
    /\ UNCHANGED <<job, outbox, msgs, work>>

-----------------------------------------------------------------------------
ClientStep(j) ==
    Accept(j) \/ CancelReads(j) \/ RequestCancel(j) \/ EngineSettles(j)

BrokerStep(j) == Dispatch(j) \/ DispatchTwice(j) \/ LoseDelivery(j)

Receive(w, j) == Acquire(w, j) \/ Skip(w, j)

\* What a worker process does by itself, without a fault.
Proceed(w) ==
    \/ Load(w) \/ HandlerEnds(w) \/ MarkJobFailed(w) \/ Commit(w)
    \/ Release(w) \/ ReleaseSkipped(w)

WorkerFault(w) ==
    \/ MarkJobFailedErrs(w) \/ StepErrs(w) \/ ReleaseErrs(w)
    \/ HeartbeatErrs(w) \/ Crash(w)

TimeStep(j) == LeaseLapses(j) \/ HeartbeatStalls(j) \/ BackoffElapses(j)

BeatStep == ReapSelects \/ Reap \/ WakeSelects \/ Wake \/ SweepDies

Next ==
    \/ \E j \in JobIds : ClientStep(j) \/ BrokerStep(j) \/ TimeStep(j)
    \/ \E w \in Workers, j \in JobIds : Receive(w, j)
    \/ \E w \in Workers : Proceed(w) \/ Heartbeat(w) \/ WorkerFault(w)
    \/ BeatStep

Spec == Init /\ [][Next]_vars

(* Beat runs its tasks again and again, Celery consumes its queues, a      *)
(* worker that lives goes on (handlers have a soft time limit of 3000 s)   *)
(* and time passes.  Nothing is fair about clients and faults.             *)
Fairness ==
    /\ \A j \in JobIds :
         /\ WF_vars(Dispatch(j))
         /\ WF_vars(\E w \in Workers : Receive(w, j))
         /\ WF_vars(LeaseLapses(j))
         /\ WF_vars(BackoffElapses(j))
    /\ \A w \in Workers : WF_vars(Proceed(w))
    /\ WF_vars(ReapSelects) /\ WF_vars(Reap)
    /\ WF_vars(WakeSelects) /\ WF_vars(Wake)

FairSpec == Spec /\ Fairness

-----------------------------------------------------------------------------
(* Type invariant.                                                         *)
TypeOK ==
    /\ job \in [JobIds -> JobRow]
    /\ outbox \in [JobIds -> Nat]
    /\ msgs \in [JobIds -> Nat]
    /\ work \in [Workers -> Execution]
    /\ \A w \in Workers : work[w].pc # "idle" <=> work[w].j \in JobIds
    /\ reaping \subseteq JobIds
    /\ waking \subseteq JobIds
    /\ used \in [FaultKinds -> Nat]

(* Safety of the fencing token.  An execution never holds a version the    *)
(* row has not reached, no two executions of a job hold the same version,  *)
(* and the job of the one that holds the current version is still running: *)
(* cancel, reap, requeue and every commit have taken it from the others.   *)
(* The flow engine's own status write is the exception.                    *)
TokensNotAhead ==
    \A w \in Workers : work[w].pc # "idle" =>
        work[w].token <= job[work[w].j].lock

TokensDistinct ==
    \A v, w \in Workers :
        (v # w /\ work[v].pc # "idle" /\ work[w].pc # "idle"
               /\ work[v].j = work[w].j) => work[v].token # work[w].token

CurrentTokenRuns ==
    \A w \in Workers : (work[w].pc # "idle" /\ Fenced(w)) =>
        \/ job[work[w].j].st = "running"
        \/ work[w].j \in FlowJobs /\ job[work[w].j].st \in TERMINAL_STATUSES

FencingInv == TokensNotAhead /\ TokensDistinct /\ CurrentTokenRuns

(* An execution that can still commit counts from the attempt the row      *)
(* holds, so a retry never repeats or skips an attempt number and the      *)
(* number stays below max_attempts.                                        *)
AttemptsExact ==
    /\ \A j \in JobIds : job[j].attempt < MaxAttempts
    /\ \A w \in Workers :
         (work[w].pc \in {"running", "marking", "committing"} /\ Fenced(w))
             => work[w].att = job[work[w].j].attempt

(* A retry was only decided below the bound, and only the handlers of      *)
(* flows mark a job by themselves; with the type invariant and the two     *)
(* properties above this is the inductive invariant.                       *)
RetryWithinBound ==
    \A w \in Workers :
        (work[w].pc \in {"marking", "committing"} /\ work[w].out = "retry_wait")
            => work[w].att + 1 < MaxAttempts

OnlyFlowsMark ==
    \A w \in Workers : work[w].pc = "marking" => work[w].j \in FlowJobs

(* A cancel request that can still write has seen a job that had not ended *)
(* and has not ended since, except by the flow engine's own write.         *)
CancelsFit ==
    \A j \in JobIds : job[j].cancel = "read" =>
        /\ job[j].st # "absent"
        /\ job[j].st \in TERMINAL_STATUSES => j \in FlowJobs

IInv == /\ TypeOK /\ FencingInv
        /\ AttemptsExact /\ RetryWithinBound /\ OnlyFlowsMark
        /\ CancelsFit

Undelivered(j) == outbox[j] + msgs[j] = 0

(* Nothing in the system will start this job again: it waits without an    *)
(* event or a message, or it runs without a lease that could lapse.        *)
Stranded(j) ==
    /\ On(j) = {} /\ ~Swept(j)
    /\ \/ job[j].st \in {"accepted", "queued"} /\ Undelivered(j)
       \/ job[j].st = "running" /\ job[j].lease = "none"

(* As long as no message is lost, a job that waits to be started for the   *)
(* first time always has an undelivered event or a message.  After a retry *)
(* this is false: retry_wait_jobs requeues a job under a lease that is     *)
(* still held, and its message may be consumed before the lease is free.   *)
FreshJobsCovered ==
    used["drop"] = 0 =>
        \A j \in JobIds :
            (job[j].st \in {"accepted", "queued"} /\ job[j].attempt = 0)
                => ~Undelivered(j)

(* The claim of docs/architecture/domain-invariants.md, section 12, holds  *)
(* as long as heartbeats neither stall nor die: at most one execution runs *)
(* a handler, through crashes, lost messages, cancels and stale requeues.  *)
InHandler(j) == {w \in On(j) : work[w].pc = "running"}

ExclusiveUnlessStalled ==
    used["stall"] + used["error"] = 0 =>
        \A j \in JobIds : Cardinality(InHandler(j)) <= 1

(* A running job can be reaped: it has a lease to lapse.  This needs owner *)
(* ids that are distinct and a release that never follows a failed commit. *)
OwnersDistinct ==
    \A v, w \in Workers : v # w => OwnerOf[v] # OwnerOf[w]

RunningJobReapable ==
    (OwnersDistinct /\ used["error"] = 0) =>
        \A j \in JobIds : job[j].st = "running" => Leased(job[j])

\* The flow engine has written an outcome and left the version as it was.
SettledByEngine(j) ==
    /\ j \in FlowJobs
    /\ job'[j].st \in TERMINAL_STATUSES
    /\ job'[j].lock = job[j].lock

(* Only the holder of the current token makes a job succeed, and only from *)
(* running, unless the flow engine does it (_update_job_status).           *)
SuccessFenced(j) ==
    (job[j].st # "succeeded" /\ job'[j].st = "succeeded") =>
        \/ SettledByEngine(j)
        \/ \E w \in On(j) : /\ work[w].pc = "committing"
                            /\ work[w].token = job[j].lock
                            /\ job[j].st = "running"

SuccessIsFenced == [][\A j \in JobIds : SuccessFenced(j)]_vars

(* A terminal status is left through an unfenced update only: a stale      *)
(* selection of retry_wait_jobs, or for a flow _mark_job_failed and the    *)
(* engine's own write.  That write leaves the version as it was, so that   *)
(* the execution's retry and a cancel request that has read the running    *)
(* job, both conditional on the version, take a flow out of a final        *)
(* status.  Nothing takes any other job out of it but the stale selection. *)
TerminalLeftUnfenced(j) ==
    (job[j].st \in TERMINAL_STATUSES /\ job'[j].st # job[j].st) =>
        \/ j \in waking /\ job'[j].st = "queued"
        \/ SettledByEngine(j)
        \/ /\ j \in FlowJobs
           /\ \E w \in On(j) :
                \/ work[w].pc = "marking" /\ job'[j].st = "failed"
                \/ /\ work[w].pc = "committing" /\ work[w].out = "retry_wait"
                   /\ work[w].token = job[j].lock
                   /\ job'[j].st = "retry_wait"
        \/ /\ j \in FlowJobs /\ job[j].cancel = "read"
           /\ job'[j].st = "cancel_requested"

TerminalLeftOnlyUnfenced == [][\A j \in JobIds : TerminalLeftUnfenced(j)]_vars

(* There is no way back: a stranded job stays so until someone cancels it, *)
(* which neither the reaper nor retry_wait_jobs ever looks at again, or    *)
(* resumes or retries its flow run in a request.                           *)
StrandedForGood ==
    [][\A j \in JobIds : Stranded(j) =>
         \/ Stranded(j)' \/ job'[j].st = "cancel_requested"
         \/ SettledByEngine(j)]_vars

(* An execution that has lost its job, to a cancel, the reaper, a requeue  *)
(* or its own commit, never gets it back: it stays fenced off until it     *)
(* ends, and only acquiring the row anew (with another token) starts one.  *)
FencedOffForGood ==
    [][\A w \in Workers :
         work[w].pc # "idle" /\ ~Fenced(w) /\ work'[w].pc # "idle" =>
            /\ work'[w].j = work[w].j /\ work'[w].token = work[w].token
            /\ ~Fenced(w)']_vars

(* Liveness under fairness and finitely many crashes and stalls: every     *)
(* accepted job ends or is left in cancel_requested, unless it has been    *)
(* retried and is stranded then (see FreshJobsCovered).                    *)
EveryJobSettles ==
    \A j \in JobIds :
        (job[j].st = "accepted") ~>
            \/ job[j].st \in TERMINAL_STATUSES \cup {"cancel_requested"}
            \/ Stranded(j) /\ job[j].attempt > 0

-----------------------------------------------------------------------------
(* The engine implements JobFence: an execution is what a worker holds     *)
(* between Acquire and Release, every other status is still open, and only *)
(* the jobs of flows may get their verdict from elsewhere.                 *)
VerdictOf(s) == IF s \in {"succeeded", "failed"} THEN s ELSE "open"

Fence == INSTANCE JobFence WITH
    Unfenced <- FlowJobs,
    version <- [j \in JobIds |-> job[j].lock],
    granted <- [j \in JobIds |-> {work[w].token : w \in On(j)}],
    verdict <- [j \in JobIds |-> VerdictOf(job[j].st)]

ImplementsFence == Fence!Spec
=============================================================================
