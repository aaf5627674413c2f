# TLA+ models of IRIP

IRIP is a FastAPI monolith (`apps/api`), a Celery worker with a beat scheduler
(`apps/worker`) and a React client over one PostgreSQL database. PostgreSQL is
the only authority; Redis carries Celery messages and may lose them; MinIO
holds blobs. What is hard in this system is what happens between transactions:
a row is written together with an outbox event, the event becomes a message,
the message an execution in some worker, and the execution writes the row
again, while beat tasks look for rows that were left behind. These models are
about that.

Paths below are relative to the repository.

## 1. Inventory

### Job engine (`packages/jobs`, `apps/worker/celery_app.py`, `apps/worker/tasks`)

State: rows of `job` (status, `attempt`, `lock_version`, `lease_owner`,
`lease_expires_at`, `run_after`), rows of `outbox_event`, messages in Redis, an
executor per worker process with a heartbeat task. Operations: `accept`,
`request_cancel`; `outbox.dispatch` (beat, 1 s); `jobs.execute` = acquire a
lease with a fencing token, run the handler under a heartbeat, commit a
success, failure or retry only if `lock_version` is still the token, release;
`reap_expired_leases` (beat, 30 s); `retry_wait_jobs` (beat, 15 s); the flow
adapters' `_mark_job_failed` and the flow engine's `_update_job_status`.

Hard: an execution that outlives its lease; a sweep that selects rows and
updates them later; messages that are delivered early, twice or never; a crash
at any point; release and commit failing separately. Correct when: only the
holder of the current token makes a job succeed, attempts are counted once
each, at most one handler runs as long as heartbeats work, and no accepted job
is forgotten.

### Research timeline (`packages/research/timeline`, `packages/research/planning`, `apps/worker/research_timeline_tasks.py`)

State: a workspace's turns, plan versions, runs, the one result of a turn, the
candidate extraction of a run; events and messages as above. Operations:
`start_planning`, `confirm_plan`, `submit_run`, `cancel_run`; the tasks
`research.plans.generate`, `research.run.execute`, `research.candidates.extract`,
`research.timeline.reconcile`; `TimelineRunFinalizer.complete` and `fail`.
Not modelled: creating and deleting turns, recommendation batches, drafting
conclusions, the synthesis turn, the older plan endpoints that know no turn.

Hard: five tables that must agree are written by id in different transactions;
most status changes are reads followed by an update without a condition; the
reconciler acts on rows whose worker is still busy. Correct when: the tables
agree on what answered a turn, the model is called once per run and
extraction, and every turn that was asked something is answered, failed, or
can be tried again.

### Flow engine (`packages/components/flow`)

State: a flow run and its node executions, the run's job, the loop of whatever
process executes it, a dictionary of cancel events per service object.
Operations: `create_run` (job, then run, in two transactions), `execute` (the
worker, started and restarted by the job engine), `resume` and `retry_node` (in
API processes), `cancel`, `delete_run`, `delete_flow`; before that,
`validate_dag` and `topological_sort`.

Hard: a run may be executed by several processes at once, since nothing in
`resume`, `retry_node` or a redelivered `execute` asks whether somebody does it
already; run, node rows and job are written by id in transactions of their own;
any of them may be the last before a crash. Correct when: a run is reported
succeeded only if each of its nodes has succeeded, a node finds the outputs it
is bound to, no path of the engine leaves the run running with nobody on it, and
a published graph can be sorted.

### Department limiter (`packages/jobs/dept_concurrency.py`)

State: a Redis counter with an expiry per department. Operations: `acquire`
(INCR, then DECR or EXPIRE) and `release` (DECR, then perhaps SET 0), around the
execution of a job or of a legacy research run. Hard: a worker's death between
any two commands, an expiry between any two commands. Correct when: no more than
the limit are at work, and no slot is lost for good.

### Publication (`packages/research/publication`, `timeline/conclusion_bar_service.py`)

State: a result, its immutable versions with a status, its sharing revisions.
Operations: publishing a result, from products or from a conclusion; a new
version; withdrawal of one version or of all; the conclusion bar's own withdraw,
republish and delete; sharing; deletion of the workspace. Hard: all of them read
rows and write by id at READ COMMITTED, without locks (`lock_version` of
`research_result` is never used), so two requests of the owner overlap; only the
unique numbers of versions and revisions refuse anything. Correct when: the
result's row agrees with its histories, a withdrawn version stays withdrawn, and
a workspace with published results is not deleted.

### How they interact

A flow run is executed under a lease of the job engine: `FlowRun` keeps of `Jobs`
the lease, its holder and the final status of the run's job, and every way in
which `Jobs` lets a second execution start (a dead worker, a live one whose
lease lapsed, a retry commit) is an action of it. What `FlowRun` assumes of
`Rank` is `IsOrder` of `FlowOrder`; `FlowDag` proves it of every list that
`topological_sort` returns. The limiter stands before
`jobs.execute`: its refusal consumes a message, which is `LoseDelivery` of
`Jobs`. The timeline ends where publication begins: a turn's result may be
published as a result package.

### Other components

| Component | Why it is left out |
|---|---|
| Authentication sessions (`packages/auth`) | transactions of one row under row locks |
| Models, parameters | single-row transactions decided by the row's status; training and evaluation run as jobs of the job engine |
| Facts, evidence, provenance | insert only; immutability is enforced by triggers in the database |
| Backups (`packages/backups`, `deployments/compose`) | jobs of the job engine around shell tools that copy files |
| Legacy research run orchestration | no entry point of the worker fills its scheduler's slots |
| Audit, departments, equipment, standards, projects, governance | one transaction each, no control of their own |
| Connectors, plugins, AI numerics, artifacts, API routers, web client | I/O, parsing, computation, presentation |

`PROJECT.json` lists all of them with their sources, and under "hazards" the
places in the code the properties are aimed at.

## 2. Plan

Written in this order, each checked before it was proved about:

1. `JobFence`, `Jobs`: who may execute a job and who may end it.
2. `Timeline`: planning, running, extraction and reconciliation.
3. `FlowVerdict`, `FlowRun`: what a flow run promises, and its executions.
4. `FlowDag`: validation and order of a flow, as the two algorithms of the code.
5. `DeptLimiter`: the limit in front of the executions.
6. `Publication`: the life of a published result.
7. The proofs of each: types, the central invariants, the action properties and
   the three refinements.

What would come next: recommendation batches and conclusions in `Timeline`; the
approval of parameters and the lifecycle of models.

## 3. Modules

| Module | What it is |
|---|---|
| `Jobs` | the job engine, one action per transaction |
| `JobFence` | what a job row promises, whatever workers and sweeps do |
| `MCJobs` | budgets and owners for the runs of `Jobs` |
| `JobsProofs`, `JobsLeaseProofs` | theorems about `Jobs`: fencing and refinement; leases and messages |
| `Timeline` | the research timeline of one workspace |
| `TurnLedger` | what the timeline promises to who pays for the model and who reads the answers |
| `MCTimeline` | budgets for the runs of `Timeline` |
| `TimelineProofs`, `TimelinePlanProofs` | theorems about `Timeline`: rows, executions, what is left behind, the refinement; plan versions, what is not forgotten |
| `FlowVerdict` | what the row of a flow run promises |
| `FlowRun`, `MCFlowRun`, `FlowRunProofs` | the executions of one flow run, its instances and theorems |
| `FlowOrder` | what the order of a flow's nodes owes to the loop that follows it |
| `FlowDag`, `MCFlowDag`, `FlowDagProofs` | `validate_dag` and `topological_sort`, small graphs, theorems |
| `DeptLimiter`, `MCDeptLimiter`, `DeptLimiterProofs` | the limiter of one department |
| `Publication`, `MCPublication`, `PublicationProofs` | one published result of a workspace |

A definition `Slip_X` is a plausible mistake in the definition that follows it.
Nothing uses it; substituting it shows that a property notices the mistake.

### Jobs

`job[j]` is the row, reduced to what decides: status, attempt, `lock_version`
(`lock`), owner, whether the lease is live or lapsed, whether the backoff is
over, and whether a cancel request has read this version (`cancel`).
`outbox[j]` and `msgs[j]` count undelivered events and waiting messages.
`work[w]` is an execution between taking its message and acknowledging it: its
stage, the token it was granted, the attempt it read, whether its heartbeat
works and the outcome it is about to commit. `reaping` and `waking` are the ids
the two sweeps have selected and not yet updated.

| Code | Action |
|---|---|
| `JobService.accept`; `request_cancel`: read, then compare-and-set | `Accept`; `CancelReads`, `RequestCancel` |
| `OutboxDispatcherService.dispatch`, dying before its commit | `Dispatch`, `DispatchTwice` |
| `_execute_job_async` refusing a message (limiter, row not visible), broker loss | `LoseDelivery` |
| `acquire_lease_with_fencing`, or nothing to acquire | `Acquire`, `Skip` |
| reading the row and starting the handler | `Load` |
| `_update_job_status` of the flow engine, in a handler or a request | `EngineSettles` |
| the handler's outcome; `_mark_job_failed` of flows | `HandlerEnds`, `MarkJobFailed`, `MarkJobFailedErrs` |
| `_commit_success`, `_commit_failure`, `_commit_retry` | `Commit`, `StepErrs` |
| `WorkerLeaseManager.release` in `finally` | `Release`, `ReleaseSkipped`, `ReleaseErrs` |
| `_heartbeat_loop` | `Heartbeat`, `HeartbeatErrs`, `HeartbeatStalls` |
| time | `LeaseLapses`, `BackoffElapses` |
| `reap_and_redeliver`: SELECT, then UPDATE and events | `ReapSelects`, `Reap` |
| `retry_wait_jobs`: SELECT, then UPDATE and events | `WakeSelects`, `Wake` |
| a worker or a sweep dying | `Crash`, `SweepDies` |

`request_cancel` looks at the status and compares `lock_version` when it writes.
Every status write of `packages/jobs` raises the version and so refuses it; the
flow engine's `_update_job_status` does not, and the request then turns the final
status into `cancel_requested`.

Time. A lease is renewed every 10 s and lives for 30 s. It may lapse
(`LeaseLapses`) only when its execution is gone or its heartbeat no longer
works. The backoff is `2 ** attempt` seconds, shorter than a lease, so it may be
over before or after anything else.

### Timeline

`turn`, `plan`, `run`, `result`, `ext` are the tables (plans and runs by version
and run number), `analysed` the plan versions that hold an analysis. `outbox` is
a sequence, because the dispatcher takes the oldest events of a batch; an event
it always refuses is a `DeadEvent`. `client[c]` is a request between the reads
and the writes of `submit_run` or `cancel_run`, and `work[w]` a task of a worker
by stage. Operations decided by a conditional update (`lock_turn_inputs`,
`confirm_plan`, the claims) are one action; operations that read a status and
write by id are two.

| Code | Action |
|---|---|
| `start_planning`, `confirm_plan` | `StartPlanning`, `ConfirmPlan` |
| `submit_run` | `SubmitReads`, `SubmitWrites`, `RequestFails` |
| `cancel_run` | `CancelReads`, `CancelWrites`, `RequestFails` |
| dispatcher and broker | `Dispatch`, `DispatchTwice`, `LoseMessage` |
| `generate_plan` task and service | `PlanStarts`, `PlanExists`, `PlanGenerated`, `PlanRefused`, `PlanBinds`, `PlanFails` |
| `execute_analysis_run` | `RunStarts`, `RunSkipped`, `Analysed`, `AnalysisFails` |
| `TimelineRunFinalizer` | `CompleteReads`, `CompleteWrites`, `CompleteFails`, `FailWrites` |
| `extract_candidates` | `ExtStarts`, `ExtSkipped`, `Extracted`, `ExtractFails`, `ExtSettles` |
| `reconcile_timeline` | `ReconcileRunning`, `ReconcileExtracting`, `ReconcileQueued` |
| a worker dying; the hard time limit | `Crash`, `TaskDies` |

The reconciler's ten minutes count from submission (`submitted_at`,
`created_at`), not from the start of the work, so they may be over at any point:
its actions have no guard on time.

Two simplifications. `fail` reads the run and the turn and then writes them; the
model does both in one step, which loses no status a run or a turn can have: the
reconciler's updates by id leave the same ones over the same rows. The UPDATE
with which `analyze_data` keeps the analysis logs its own failure; in PostgreSQL
that failure aborts the transaction, so the next statement fails the analysis
(`AnalysisFails`) and there is no analysis that succeeds without being kept.

Left out: the row `analyze_data` inserts beside the submitted run and the row
`extract_insight` inserts beside the claimed extraction. Both are born succeeded
and no operation of the model reads them; `ResultInv` speaks of submitted runs.

One assumption about the schema: the entity declares
`research_analysis_plan_version.turn_id` nullable, and `generate_plan` inserts a
version before it is bound to its turn; the model follows the entity. Migration
0084 adds the column NOT NULL. In a database that has it so, the insert fails
and every planning ends as the model's `PlanRefused` does.

### FlowRun

`run` is the status of the run, `rows[n]` the statuses of node `n`'s closed
execution rows ("lost" for one whose process went away), `job` status and lease
holder of the run's job, `proc[p]` what a worker or a request is doing: its
stage, whether it executes, resumes or retries, the nodes its loop has not
passed, those it skips, its verdict, its own cancel event. `listener` is the
process whose event the dictionary holds. `SharedEvents` says whether canceller
and executor share that dictionary; in the deployed system they do not
(`apps/api/composition/flows.py:85` and `apps/worker/tasks/flows.py:100` build
their own), in a single process they do. The runs that judge a cancel use
the deployed wiring; `flow_fair` uses the shared one, the only one under which
`LoopCancelled` is ever taken.

| Code | Action |
|---|---|
| `create_run`: job, then run | `AcceptJob`, `InsertRun` |
| lease, reaper, lapsed lease of a live worker, job cancel | `Take`, `Requeue`, `RequeueLive`, `CancelJobReads`, `CancelJob` |
| `execute`, `resume`: first transaction | `ResumeCall`, `Load` |
| `_run_node_loop` | `LoopCancelled`, `LoopNext`, `LoopDone` |
| `_execute_single_node` | `NodeSucceeds`, `NodeFails` |
| `_finalize_run`, `_update_job_status` | `Finalize`, `Settle` |
| `retry_node` | `RetryCall`, `Gather`, `Insert`, `Check` |
| `cancel`, `delete_run` and `delete_flow` | `Cancel`, `Delete` |
| the flow adapter's except clause | `MarkJobFailed`, `MarkJobFailedErrs` |
| a database error, a dead process | `StepErrs`, `Crash` |

What the code does and the model keeps: a redelivered `execute` begins at the
first node whatever has succeeded; `retry_node` lets through a node that was
never executed; `_finalize_run` overwrites by id and on a deleted run affects no
row; `cancel` decides on a status it has read before; a component that saw the
cancel event ends "failed"; `delete_flow` leaves the job.

Left out as data: the outputs themselves. `resume` and `retry_node` bind
`output_summary` where `execute` binds the full outputs, so a resumed node may
be given less than an executed one; `InputsResolved` says only that there is
something to bind. The `flow_resume` job kind fails before it does anything: its
adapter passes one argument to `_resume_flow_async(run_id, payload)`.

### FlowDag

`nodes` and `edges` are the lists as given, with repeated ids, unknown ends,
loops and parallel edges. One step takes a node off the queue (`Pop`), one
counts down one edge (`Relax`). Kahn's algorithm exists twice:
`FlowValidationService.validate_dag` filters edges first and only counts
(`phase` "validating", ended by `Verdict`, where `publish_version` accepts or
rejects), `topological_sort` takes the stored edges as they are and returns the
order or raises (`Sort`, `Return`). Bindings are not checked against edges by
`validate_dag`: a node bound to one that no edge puts before it may find nothing,
and `InputsResolved` excludes it.

### DeptLimiter

`count` and `ttl` are the Redis key, `pc` and `seen` the tasks; `leaked` (slots
of dead tasks) and `torn` (the key lapsed between two commands of a task) are
history. `Ask`, `Refuse`, `Admit`, `Release`, `Reset` are one command each,
`Die` and `Cut` the deaths at work and between two commands, `Lapse` the expiry.
The expiry is two hours and a task is killed after one, so a key cannot lapse
under a task at work.

The properties name what the code does not exclude. A key that lapses between a
task's commands lets one more task in than the limit. A task cut off between INCR
and EXPIRE leaves a key that may never expire; enough of them block the
department for ever. Every admission renews the expiry, so slots of dead tasks
below the limit stay as long as there is traffic. The docstring speaks of a
check by the dispatcher and of tasks that are queued; in the code the worker
raises, and the message is consumed.

### Publication

`status`, `current`, `acl` are the result's row, `versions` and `revisions` its
histories by number, `req[r]` a request of the owner between its reads and its
writes. `firm` (versions withdrawn while no new version was about to supersede
them) is history.

| Code | Action |
|---|---|
| `publish_result`, `publish_conclusion` | `PublishResult`, `PublishConclusion` |
| `publish_new_version`: result, newest version, inserts | `NewVersionReads`, `NewVersionLooks`, `NewVersionWrites` |
| `withdraw_result`: one version, or all | `WithdrawVersion`, `WithdrawReads`, `WithdrawWrites` |
| the conclusion bar | `HideResult`, `RepublishResult`, `DeleteResult` |
| `delete_workspace`: count, then delete | `DeletionCounts`, `DeletionWrites` |
| `update_acl` | `ShareReads`, `ShareWrites` |
| a unique index or foreign key, an error, a lost client | `RollsBack` |

Kept as the code has it: `publish_new_version` checks the owner and not the
status its docstring mentions, so a withdrawn result gets an active version and
stays unlisted; the result's own status is withdrawn only together with all
versions; the conclusion bar withdraws the result and leaves its versions active,
and republishes it whatever their status.

## 4. Runs

| Run | Instance | States | What it shows |
|---|---|---|---|
| `jobs_flow` | 1 flow job, 2 workers, 2 attempts, any three of the five kinds of fault, or two database errors | 1.1 million | types; the fencing invariant; a job waiting for its first start has an event or a message; a running job can be reaped; attempts exact; success only through the current token or the flow engine; terminal statuses left by the named updates only; a stranded job stays so |
| `jobs_plain` | 1 other job, 2 workers, 2 attempts, any two of a crash, a stall and a cancel; fairness | 0.2 million | one handler at a time unless a heartbeat stalls; an execution that lost its job stays fenced off; every job settles; `JobFence` is implemented |
| `timeline_flow` | 2 turns, 2 requests, 2 workers, 2 plans, 2 runs, any one of the four kinds of fault | 0.3 million | types; result, run, extraction and turn agree; each run and extraction worked on once; one plan per turn without redelivery; how a finished run is overwritten; `TurnLedger` is implemented |
| `timeline_fair` | 1 turn, 1 request, 2 workers, 2 plans, 2 runs, one fault of each kind, batch of 2; fairness | 35 thousand | nothing is forgotten without a fault that explains it; what the reconciler never repairs; everything else ends |
| `timeline_superseded` | 2 turns, no fault | - | refutes "statuses where the turn has a confirmed plan" |
| `timeline_lost` | 1 turn, one lost message | - | refutes the runbook's redelivery of a queued run |
| `flow_run` | flow a -> b, 2 workers, 1 request, any one of the five kinds of fault | 0.9 million | success means every node has succeeded; inputs are there; no path leaves a run running; `FlowVerdict` is implemented |
| `flow_fair` | flow of one node, 1 worker, 1 request, shared events, one death, one job cancel; fairness | 0.2 million | a running run ends or is deserted by that death; a pending run is executed |
| `flow_cancel` | flow a -> b -> c with a bound twice, 1 worker, 2 requests, no fault | - | refutes "the loop leaves before its next node" |
| `flow_dag` | all lists of up to 3 ids and 3 edges over 3 ids; 4 nodes with 4 edges | 0.4 million | published graphs and returned orders are complete; an order is what `FlowRun` assumes; only cycles are rejected; both copies agree |
| `dept_limiter` | 3 tasks, limit 2, one death, one cut; fairness | 0.26 million | no slot lost but by a death; the limit; the expiry; a full department gets a slot back |
| `publication` | 3 requests, 2 sharing modes, 3 versions, 2 revisions | 0.3 million | row and histories agree; withdrawals hold |

Bounds. Jobs meet only in the workers and in the sweeps, which treat every row
by itself, so one job and two workers show every conflict on a row; a second
worker is what a stale execution needs. Two attempts give one retry, the last
attempt and a stale execution of the first. `Budget` is a set: the combinations
of faults that may happen, by kind. A run allows any one, two or three kinds or
all of them, each once, anywhere and in any order, and `jobs_flow` two database
errors besides: each of the two attempts of a flow job is then retried because
`_mark_job_failed` failed, and the bound on attempts is reached; the theorems
hold for every `Budget`. In the timeline two turns are what a workspace-wide
update needs, two requests a stale submit, two plans and two runs a redelivery
and a retry. The bounds are `MaxAttempts`, `Budget` in `Jobs`; `MaxPlans`,
`MaxRuns`, `MaxDead`, `Batch` (100 in the code) and `Budget` in `Timeline`.
`timeline_flow` has `MaxDead` 0, so the reconciler's refused events appear in
`timeline_fair` only, where two of them fill the batch, and where the faults are
combined. A flow of two nodes has a first and a last node and one binding
between them; two workers and a request are three executions of it, more than
any path of the code relates. `flow_fair` has one node, one worker and both
faults of its property: without a stall a job is requeued only when its holder
is gone, so a second worker would repeat what the first does; a second node
repeats the loop's steps, and that it finds its inputs is `flow_run`'s question.
Four nodes are the least on which an order can be right about the sources of one
node and wrong about another's. Three tasks exceed a limit of two. Three
requests are a stale new version, a withdrawal and a deletion at once;
`MaxVersions` and `MaxRevisions` bound the histories. Except for `dept_limiter`
the runs do not report deadlock: a system that has done its work, or has lost
it, stops.

Symmetry is used in `jobs_flow`, `timeline_flow`, `flow_run` and `publication` on
turns, workers and requests, which are never compared; these runs have no
liveness property.

Fairness. Beat starts the dispatcher, the reaper, the requeue sweep and the
reconciler for ever; worker processes take waiting messages, and their handlers
end because every task has a soft and a hard time limit; a request ends. Each of
these is weakly fair. A process that executes a flow goes on, or its component
times out; the lease of a dead one lapses and the reaper queues its job. A task
that has asked the limiter goes on to its next command, and two hours pass. A
user's action and a fault never are. Finitely many
faults are assumed for liveness: the reaper counts no attempt, so a job that
kills its worker every time is requeued for ever.

## 5. Findings

- `timeline_superseded`: generating a plan for one turn supersedes the confirmed
  plans of all turns. The other turn can then neither run nor be planned again.
- `timeline_lost`: the reconciler's events carry no department, so they are
  refused, never removed, and after a hundred of them the dispatcher sees nothing
  else: the outbox of the whole system stops.
- `flow_cancel`: cancelling is cooperative only within one service object. The
  request marks the row cancelled; the worker, which has another object, sets it
  running or goes through all its nodes and overwrites it with its verdict.

Exceptions the passing properties name, each reached in a run:

- One stalled heartbeat is enough for two workers to run the handler of the same
  job (`ExclusiveUnlessStalled`): the heartbeat shares the handler's event loop,
  and nothing stops a handler whose lease has lapsed. Only the commit is fenced.
- `retry_wait_jobs` requeues a job under a lease that is still held; its messages
  are consumed by executions that cannot acquire it, and then neither sweep
  selects it again (`EveryJobSettles`, `StrandedForGood`).
- `_mark_job_failed` and a stale `retry_wait_jobs` leave terminal statuses
  (`TerminalLeftOnlyUnfenced`). So does the flow engine, which settles the job by
  id in the middle of its handler although the adapter's comment
  (`apps/worker/tasks/flows.py:114`) says that `JobExecutor` manages the status:
  the token stays current, and if the handler then raises and `_mark_job_failed`
  fails, `_commit_retry` takes a succeeded flow to `retry_wait`. And a cancel that
  read the status before the engine settled it finds its `lock_version` unchanged
  and overwrites the final status, although `request_cancel`
  (`packages/jobs/service.py:173`) promises a conflict for a finished job.
- When the reconciler fails a run, or a run is cancelled, its turn stays queued
  and accepts neither a run nor a plan (`NotReconciled`, `TurnsAnswered`).
- A worker that dies after its run's job was settled by another execution, or
  cancelled, leaves the run running for good (`RunsProgress`, `RunningIsAttended`).
- A new version that is about to supersede a version overwrites its withdrawal
  (`WithdrawalHolds`).

Met on the way and not the subject of a run: `delete_workspace` counts the
published results and deletes some statements later, so a result republished in
between is deleted with its versions, although its docstring
(`packages/research/service.py:446`) says that such a workspace can only be
archived (`DeletionCounts`, `RepublishResult`, `DeletionWrites` of `Publication`
take these steps; nothing in the code restricts them, so no property is stated);
`cancel_requested` is never turned
into `cancelled`; the owner id defaults to `celery-worker-<pid>`, which two
containers can share; `run_after` is not part of the acquire; a turn goes from
queued to succeeded without the status running that the transition table of
`state_machine.py` requires; `generate_plan` reads the question of the newest
turn of the snapshot instead of its own turn's; overlapping executions may leave
a flow run and its job with different verdicts; the withdrawal of a single
version leaves the result published even if it was the last active one.

## 6. Proofs

`JobsProofs` proves for any jobs, workers, owners, attempts and budget:

- `TypeCorrect`: `TypeOK`.
- `Fencing`, `AttemptsCounted`: `FencingInv` and `AttemptsExact`. Neither is
  inductive. That a token is current says nothing about the status unless no
  token is ahead of its row and tokens differ; that a commit counts one attempt
  needs that the retry was decided below the bound. `IInv` is the conjunction of
  `TypeOK`, `FencingInv`, `AttemptsExact`, `RetryWithinBound`, `OnlyFlowsMark` and
  `CancelsFit`: a cancel request whose version still stands is for
  a job that is not over, unless a flow engine has settled it since.
  The step is proved once for the row (`RowStep`), once for the acting execution
  (`ProceedKeeps`) and once for all others (`OthersKeep`): whoever changes the
  status of a row raises its version, but for the flow engine, which writes
  final statuses only.
- `SuccessOnlyFenced`, `TerminalOnlyLeftUnfenced`: the two action properties,
  from the same invariant and a lemma that names the actions that write a status.
- `FenceRefined`: every step is a step of `JobFence` or leaves it unchanged. A
  commit that is fenced is `Report`, acquiring is `Grant`, releasing and crashing
  are `Forget`, cancel, sweeps and `_mark_job_failed` are `Revoke`, and the flow
  engine's write is `Overwrite`, which only the jobs of flows allow.

`JobsLeaseProofs` continues it, from a description of what any step does to a row,
an execution, the sweeps and the messages of a job (`RowCase`, `WorkCase`,
`SweepCase`, `MessageCase`):

- `Exclusive`: `ExclusiveUnlessStalled`, for any assignment of owner ids, shared
  ones included. `CalmInv`: every busy worker beats and holds a live lease
  (`Beating`), nobody else is on its job (`Alone`), a job selected by the reaper has
  no worker and cannot be acquired before it is updated (`ReapingIdle`), and the
  lease of a running job has not lapsed under an open requeue (`WakingLive`).
- `RunningReapable`: `RunningJobReapable`. The holder of a running job's lease has
  its current version (`HolderFenced`), an execution that releases has not, or
  its job is settled (`ReleasesStale`), so a release never frees a running job.
- `FreshCovered`: `FreshJobsCovered`. A job that was never started has no owner, so
  no message for it is skipped, and `retry_wait_jobs` only selects retried jobs.
- `StrandedStays`: `StrandedForGood`, from the descriptions and `IInv` alone.
- `OnceFencedOff`: `FencedOffForGood`. An execution whose token is behind its row
  never gets the job back, however the row is requeued and leased again: its
  token is never renewed, versions only grow (`LockGrows`) and no token is ahead.

`TimelineProofs` proves for any turns, workers, requests, batch, numbers of
plans and runs, and budget:

- `TimelineTypes`, `AnswersAgree`, `PaidOnceAlways`: `TypeOK`, `ResultInv` and
  `PaidOnce`. Even the types are not inductive: that extraction finds a plan
  version needs that the run it extracts from has one. `IInv` adds three facts.
  `RowsInv`: a run refers to a turn and to a plan bound to it. `ReadersInv`: so
  do the requests between their reads and their writes, and two workers never
  bind the same version. `ExecutionsInv`: the run somebody executes was claimed,
  has answered nothing and has no extraction. Most steps only move an execution
  forward, drop it, or end a run or extraction (`CalmKeeps`); submission,
  planning, the two claims and the answer of a turn have a lemma each.
- `OverwritesNamed`: `RunStatusOverwritten`, from the same invariant and
  `StatusWriters`, which names the steps that write a run.
- `LeftBehind`: `NotReconciled`. An event about a run is only added when the run
  is; a message only when the event is sent or when the executor of the run dies,
  whose run is not queued; sending takes nothing else out of the outbox
  (`SendShape`, `OutboxSteps`, `NoNewMessage`, `NoNewEvent`).
- `TimelineIsLedger`: `ImplementsLedger`. A run's row is its order, the queued runs
  are those waiting, a worker's stage is what lies on its desk. Submitting is
  `Order`, which needs that nothing else waits, the claims are `TakeRun` and
  `TakeExtraction`, the analysis is `Study`, the answer is `Answer`, a late cancel
  is `Withdraw`; acknowledging, a crash and a task cut off are `Drop`. Planning,
  dispatching, redelivery and the reconciler's verdicts are stutters: nothing they
  do hands a run out again. That an executing worker still has the order's turn
  and plan, and has analysed that plan, is `ExecutionsInv`.
- `HandedOutOnceAlways`: `HandedOutOnce`, what the ledger is good for. A run or an
  extraction that was claimed is never queued a second time, a run keeps its turn
  and plan, and a turn's result is final. `PaidOnce` speaks of the executions
  there are; this speaks of all later ones. It is read off the steps of
  `TurnLedger` alone (`LedgerKeeps`), proved only and no run's property.

`TimelinePlanProofs` continues it:

- `OnePlan`: `OnePlanUnlessRedelivered`. The order to plan a turn is in one place
  only, an event, a message or a worker that plans; a turn that can be planned has
  none and no plan, and while a worker plans there is none yet (`OneTurn`). Five
  steps move the order on; for each place a lemma shows that all others only
  shrink it.
- `NothingIsForgotten`: `NothingForgotten`. An event or a message is there until it
  is lost or received (`UnderwayStays`), whoever receives it claims the row or
  finds that it needs nothing any more (`PlanReceived`, `RunReceived`,
  `ExtReceived`), and a worker goes on, gives its message back or is cut off
  (`PlannerStays`, `ExecutionStays`). That no turn is stuck is not inductive:
  `Served` says that a queued turn has a run which waits or is executed. Such a
  run the reconciler may fail while it is executed, and its worker still ends the
  turn; only a cancel takes a waiting run away, and a request that is about to
  write one has been counted (`CancelsCounted`).

`FlowRunProofs` proves for any flow whose order respects its edges, any workers,
requests and budget:

- `FlowTypes`, `FlowSuccess`: `TypeOK` and `SuccessIsComplete`. That a loop may
  decide on success needs that everything it has passed or skips has succeeded
  (`Passed`), whoever did it; that nothing is taken back but by a deletion makes
  it stable; `CreatedOnce` keeps executions away before the run is inserted.
- `FlowInputs`: `InputsResolved`, from `OrderInv`: the loop is at the first node it
  has not passed, so a source that an edge puts before it has been passed.
- `FlowAttended`: `RunningIsAttended`, from `AttendedInv`: while a run is running
  some call that has not finalized it is engaged, or a fault has happened.
- `FlowImplementsVerdict`: every action is a step of `FlowVerdict` or a stutter,
  with the run's status and the nodes that have succeeded as the mapping.

`FlowDagProofs` proves for any identifiers and any graphs that what is emitted is
in order (`DagOrder`), that what is published or returned is complete and is an
order in the sense of `FlowOrder` (`DagComplete`), that a well-formed graph is
rejected only for a cycle and that what was published can be sorted. `IsOrder` is
also what `FlowAssumption` asks of `Rank`, so the theorems of `FlowRunProofs` hold
for every graph whose order the engine obtains. The
invariant is the accounting of Kahn's algorithm (`Counted`, `Queued`): a node's
degree is the number of its edges that are not counted down yet, and a node is in
the queue or in the order exactly when its degree is zero. What was published has
a rank that every edge goes up (`Ranked`), taken from the order of the
validation; that the second algorithm leaves no node over follows from the node
of least rank among those left.

`DeptLimiterProofs` proves for any tasks, limit and deaths that no slot is lost,
that the limit holds and that the expiry is armed. The invariant counts (`Exact`):
until a lapse tears a task's commands the counter is exactly the slots held by
live and dead tasks, and those that are or will be at work are within the limit;
afterwards it is at most that.

`PublicationProofs` proves `TypeOK`, `RowsAgree` and `WithdrawalHolds` for any
requests, sharing modes and bounds. `PubInv` adds what a request that has read
may rely on: its number is not above the next one (`VersionsHold`,
`RevisionsHold`, `ReadsHold`), so that an insert that succeeds was made from the
newest row.

The only assumptions are those named in the modules (`JobsAssumption`,
`TimelineAssumption`, `FlowAssumption`, `LimiterAssumption` and their like); TLC
evaluates them in every run.

Model-checked only: liveness (`EveryJobSettles`, `EverythingEnds`,
`TurnsAnswered`, `RunsProgress`, `Unblocks`), which needs fairness and is out of
the prover's reach. Every other property of the passing runs is
stated by a theorem.

## 7. Not modelled

Within the modelled parts: `job` queries; recommendation batches, conclusions
before publication and turn creation; component code, artifacts and facts of a
flow; versions of a flow definition; titles, favourites, reuse and knowledge
references of a result. They are single transactions that no property above
depends on. The parts left out altogether are listed in section 1 with the
reason. Departments do not meet in these models: every query is restricted to one
by row-level security.
