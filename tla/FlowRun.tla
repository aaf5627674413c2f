------------------------------- MODULE FlowRun -------------------------------
(***************************************************************************)
(* The execution of one flow run (packages/components/flow): the worker    *)
(* executions the job engine starts and repeats, the resume, retry and     *)
(* create calls that run inside API processes, cancellation and deletion.  *)
(*                                                                         *)
(* A process is at one await at a time; every action is one transaction    *)
(* or the end of a component.  The job engine is reduced to what the flow  *)
(* engine can tell: a job that may be leased ("open": accepted, queued or  *)
(* retry_wait), its lease holder, its final status; module Jobs has the    *)
(* details.  The pending and running rows of a node execution are one      *)
(* "open" row: it belongs to the process at that node, or it is "lost".    *)
(* A definition Slip_X is a plausible mistake in the definition after it,  *)
(* kept to show that a run would notice; nothing here uses it.             *)
(***************************************************************************)
EXTENDS Naturals, FiniteSets, FlowOrder

CONSTANTS
    Nodes,         \* node ids of the flow version
    Rank,          \* position in topological_sort's order
    Edges,         \* <<source, target>> pairs of the flow version
    Binds,         \* [Nodes -> SUBSET Nodes]: sources named in input_bindings
    Workers,       \* Celery worker processes
    Callers,       \* API requests: create, resume, retry
    NoProc,
    SharedEvents,  \* TRUE: canceller and executor share one FlowRuntimeService
    Budget         \* combinations of faults that may happen, counted by kind

Procs == Workers \cup Callers
FaultKinds == {"kill", "drop", "error", "stall", "revoke"}

ASSUME FlowAssumption ==
    /\ IsOrder(Rank, Nodes, Edges)
    /\ Binds \in [Nodes -> SUBSET Nodes]
    /\ Workers \cap Callers = {}
    /\ NoProc \notin Procs
    /\ SharedEvents \in BOOLEAN
    /\ Budget \subseteq [FaultKinds -> Nat]

VARIABLES
    run,       \* flow_run.status
    rows,      \* statuses of the closed or lost execution rows of each node
    job,       \* status, lease holder and pending cancel of the run's job
    proc,      \* what each process is doing
    listener,  \* the process whose event _cancel_events holds
    used       \* faults spent, by kind

vars == <<run, rows, job, proc, listener, used>>

-----------------------------------------------------------------------------
Verdicts == {"succeeded", "failed", "cancelled"}
RunStatus == {"absent", "pending", "running", "deleted"} \cup Verdicts
JobStatus == {"absent", "open", "running", "cancel_requested", "deleted"}
             \cup Verdicts
JobRow == [st: JobStatus, holder: Workers \cup {NoProc}, cancel: {"none", "read"}]
Stages == {"idle", "creating", "load", "loop", "gather", "insert", "node",
           "check", "final", "settle", "raising"}

\* sig is the process's own cancel_event; left are the nodes its loop has not
\* passed; skip those whose outputs it took from the database.
Activity == [pc: Stages, kind: {"none", "execute", "resume", "retry"},
             node: Nodes \cup {NoProc}, left: SUBSET Nodes,
             skip: SUBSET Nodes, verdict: Verdicts, sig: {"clear", "set"}]

Idle == [pc |-> "idle", kind |-> "none", node |-> NoProc, left |-> {},
         skip |-> {}, verdict |-> "failed", sig |-> "clear"]

AtNode(act) == act.pc \in {"gather", "insert", "node"}
\* The activity belongs to an engine call that has not finalized the run.
Engaged(act) ==
    \/ act.pc \in {"loop", "gather", "insert", "node", "check", "final"}
    \/ act.pc = "load" /\ act.kind = "resume"

Began(k) == [Idle EXCEPT !.pc = "load", !.kind = k]

RunExists == run \in {"pending", "running"} \cup Verdicts
\* Nodes with a succeeded execution row.
Achieved == {n \in Nodes : "succeeded" \in rows[n]}
InFlight(n) == {p \in Procs : proc[p].pc = "node" /\ proc[p].node = n}
\* node_outputs of p: what its loop has executed and what it loaded.
Outputs(p) == (Nodes \ proc[p].left) \cup proc[p].skip
Slip_AnyOrder(S, n) == n \in S
\* The next node of topological_sort's order among those in S.
IsFirst(S, n) == n \in S /\ \A m \in S : Rank[n] <= Rank[m]

\* Writing s with a new lock_version, which refuses the cancel requests that
\* have read the version before.
Moved(s, h) == [st |-> s, holder |-> h, cancel |-> "none"]

Spend(k) ==
    /\ used' = [used EXCEPT ![k] = @ + 1]
    /\ used' \in Budget

Step(p, a) == proc' = [proc EXCEPT ![p] = a]
Goto(p, stage) == Step(p, [proc[p] EXCEPT !.pc = stage])
Decide(p, v) == Step(p, [proc[p] EXCEPT !.pc = "final", !.verdict = v])
\* An exception leaves the engine: a worker goes on in the job handler's
\* except clause, a request ends in an error response.
Raise(p) == IF p \in Workers THEN Goto(p, "raising") ELSE Step(p, Idle)

Init ==
    /\ run = "absent"
    /\ rows = [n \in Nodes |-> {}]
    /\ job = Moved("absent", NoProc)
    /\ proc = [p \in Procs |-> Idle]
    /\ listener = NoProc
    /\ used = [k \in FaultKinds |-> 0]

-----------------------------------------------------------------------------
(* Creation, and what the job engine does to the run's job.                *)

\* create_run: job_service.accept commits the job and its outbox event ...
AcceptJob(c) ==
    /\ proc[c].pc = "idle"
    /\ job.st = "absent"
    /\ job' = [job EXCEPT !.st = "open"]
    /\ Step(c, [Idle EXCEPT !.pc = "creating"])
    /\ UNCHANGED <<run, rows, listener, used>>

\* ... and a second transaction inserts the run it is about.
InsertRun(c) ==
    /\ proc[c].pc = "creating"
    /\ run' = "pending"
    /\ Step(c, Idle)
    /\ UNCHANGED <<rows, job, listener, used>>

\* A delivered jobs.execute message gets the lease.
Take(w) ==
    /\ proc[w].pc = "idle"
    /\ job.st = "open"
    /\ job' = Moved("running", w)
    /\ Step(w, Began("execute"))
    /\ UNCHANGED <<run, rows, listener, used>>

Slip_ReapsUnowned ==
    /\ job.st = "running"
    /\ job.holder = NoProc
    /\ job' = Moved("open", NoProc)
    /\ UNCHANGED <<run, rows, proc, listener, used>>

\* The lease of a dead worker lapses and the reaper queues the job again ...
Requeue ==
    /\ job.st = "running"
    /\ proc[job.holder].pc = "idle"
    /\ job' = Moved("open", NoProc)
    /\ UNCHANGED <<run, rows, proc, listener, used>>

\* ... or that of a worker that lives, when its heartbeat was held up.
RequeueLive ==
    /\ job.st = "running"
    /\ job' = Moved("open", NoProc)
    /\ Spend("stall")
    /\ UNCHANGED <<run, rows, proc, listener>>

\* JobService.request_cancel on the run's job refuses a final status ...
CancelJobReads ==
    /\ job.st \notin Verdicts \cup {"absent", "deleted"}
    /\ job' = [job EXCEPT !.cancel = "read"]
    /\ Spend("revoke")
    /\ UNCHANGED <<run, rows, proc, listener>>

\* ... and updates the version it has read, over a status that Settle has
\* written since: lock_version moves, the lease holder can commit nothing any
\* more, the run is not told.
CancelJob ==
    /\ job.cancel = "read"
    /\ job' = Moved("cancel_requested", NoProc)
    /\ UNCHANGED <<run, rows, proc, listener, used>>

-----------------------------------------------------------------------------
(* FlowExecutionEngine: execute and resume.                                *)

ResumeCall(c) ==
    /\ proc[c].pc = "idle"
    /\ RunExists
    /\ Step(c, Began("resume"))
    /\ UNCHANGED <<run, rows, job, listener, used>>

\* The first transaction sets the run running whatever its status is; resume
\* skips the nodes that have succeeded, execute begins with none.
Load(p) ==
    /\ proc[p].pc = "load"
    /\ IF RunExists
       THEN /\ run' = "running"
            /\ Step(p, [proc[p] EXCEPT !.pc = "loop", !.left = Nodes,
                          !.sig = "clear",
                          !.skip = IF proc[p].kind = "resume"
                                   THEN Achieved ELSE {}])
            /\ listener' = p
       ELSE Raise(p) /\ UNCHANGED <<run, listener>>
    /\ UNCHANGED <<rows, job, used>>

\* _run_node_loop, at the head: the event, the skip, then the insert of the
\* execution row, which fails when the run is gone.
LoopCancelled(p) ==
    /\ proc[p].pc = "loop"
    /\ proc[p].left # {}
    /\ proc[p].sig = "set"
    /\ Decide(p, "cancelled")
    /\ UNCHANGED <<run, rows, job, listener, used>>

LoopNext(p) ==
    /\ proc[p].pc = "loop"
    /\ proc[p].sig = "clear"
    /\ \E n \in Nodes :
         /\ IsFirst(proc[p].left, n)
         /\ IF n \in proc[p].skip
            THEN Step(p, [proc[p] EXCEPT !.left = @ \ {n}])
            ELSE IF RunExists
                 THEN Step(p, [proc[p] EXCEPT !.pc = "node", !.node = n])
                 ELSE Raise(p)
    /\ UNCHANGED <<run, rows, job, listener, used>>

LoopDone(p) ==
    /\ proc[p].pc = "loop"
    /\ proc[p].left = {}
    /\ Decide(p, "succeeded")
    /\ UNCHANGED <<run, rows, job, listener, used>>

\* Closing an execution row: the UPDATE finds nothing when the run is gone.
Record(p, s) ==
    rows' = IF RunExists THEN [rows EXCEPT ![proc[p].node] = @ \cup {s}]
                         ELSE rows

\* _execute_single_node: the component returned.
NodeSucceeds(p) ==
    /\ proc[p].pc = "node"
    /\ Record(p, "succeeded")
    /\ IF proc[p].kind = "retry"
       THEN Goto(p, "check")
       ELSE Step(p, [proc[p] EXCEPT !.pc = "loop", !.node = NoProc,
                                    !.left = @ \ {proc[p].node}])
    /\ UNCHANGED <<run, job, listener, used>>

Slip_FailureGoesOn(p) ==
    /\ proc[p].pc = "node"
    /\ Record(p, "failed")
    /\ Step(p, [proc[p] EXCEPT !.pc = "loop", !.node = NoProc,
                               !.left = @ \ {proc[p].node}])
    /\ UNCHANGED <<run, job, listener, used>>

Slip_FailureReturns(p) ==
    /\ proc[p].pc = "node"
    /\ Record(p, "failed")
    /\ Step(p, Idle)
    /\ UNCHANGED <<run, job, listener, used>>

\* The component raised, timed out, or saw the cancel event.
NodeFails(p) ==
    /\ proc[p].pc = "node"
    /\ Record(p, "failed")
    /\ Decide(p, "failed")
    /\ UNCHANGED <<run, job, listener, used>>

Slip_FinalizeUpserts(p) ==
    /\ proc[p].pc = "final"
    /\ run' = proc[p].verdict
    /\ Goto(p, "settle")
    /\ UNCHANGED <<rows, job, listener, used>>

Slip_Completed(p) ==
    /\ proc[p].pc = "final"
    /\ run' = IF RunExists
              THEN IF proc[p].verdict = "succeeded" THEN "completed"
                   ELSE proc[p].verdict
              ELSE run
    /\ Goto(p, "settle")
    /\ UNCHANGED <<rows, job, listener, used>>

\* _finalize_run: UPDATE by id, whatever the status is.
Finalize(p) ==
    /\ proc[p].pc = "final"
    /\ run' = IF RunExists THEN proc[p].verdict ELSE run
    /\ Goto(p, "settle")
    /\ UNCHANGED <<rows, job, listener, used>>

\* _update_job_status: UPDATE by id, no lock_version.  What the executor of a
\* worker commits after it changes nothing: the job's status is final.
Settle(p) ==
    /\ proc[p].pc = "settle"
    /\ job' = IF job.st = "deleted" THEN job
              ELSE [job EXCEPT !.st = proc[p].verdict,
                               !.holder = IF @ = p THEN NoProc ELSE @]
    /\ Step(p, Idle)
    /\ UNCHANGED <<run, rows, listener, used>>

-----------------------------------------------------------------------------
(* FlowExecutionEngine: retry_node and cancel; FlowRunService.delete_run.  *)

\* One of the node's rows, any of them, is looked at: none or a failed one
\* lets the retry through.
RetryCall(c, n) ==
    /\ proc[c].pc = "idle"
    /\ RunExists
    /\ \/ rows[n] = {} /\ InFlight(n) = {}
       \/ "failed" \in rows[n]
    /\ run' = "running"
    /\ Step(c, [Began("retry") EXCEPT !.pc = "gather", !.node = n])
    /\ UNCHANGED <<rows, job, listener, used>>

\* The second transaction loads the outputs; then a new cancel event.
Gather(c) ==
    /\ proc[c].pc = "gather"
    /\ Step(c, [proc[c] EXCEPT !.pc = "insert", !.left = Nodes,
                               !.skip = Achieved])
    /\ listener' = c
    /\ UNCHANGED <<run, rows, job, used>>

Insert(c) ==
    /\ proc[c].pc = "insert"
    /\ IF RunExists THEN Goto(c, "node") ELSE Raise(c)
    /\ UNCHANGED <<run, rows, job, listener, used>>

\* All nodes have succeeded, or resume continues with those that have not.
Check(c) ==
    /\ proc[c].pc = "check"
    /\ IF Achieved = Nodes
       THEN Decide(c, "succeeded")
       ELSE Step(c, Began("resume"))
    /\ UNCHANGED <<run, rows, job, listener, used>>

\* cancel: the event reaches the loop only through a shared service object.
\* The row is set if the run had not ended when it was read: an UPDATE by id,
\* which overwrites a verdict that was written after the SELECT.
Cancel ==
    /\ RunExists
    /\ run' \in IF run \in {"pending", "running"} THEN {"cancelled"}
                ELSE {run, "cancelled"}
    /\ proc' = IF SharedEvents /\ listener # NoProc
                  /\ proc[listener].pc \notin {"idle", "creating", "load", "gather", "raising"}
               THEN [proc EXCEPT ![listener].sig = "set"]
               ELSE proc
    /\ UNCHANGED <<rows, job, listener, used>>

\* delete_run takes the job along, delete_flow does not.
Delete ==
    /\ RunExists
    /\ run' = "deleted"
    /\ rows' = [n \in Nodes |-> {}]
    /\ \/ job' = Moved("deleted", NoProc)
       \/ UNCHANGED job
    /\ UNCHANGED <<proc, listener, used>>

-----------------------------------------------------------------------------
(* Errors and crashes.                                                     *)

\* _mark_job_failed in the adapter's except clause: neither status nor token
\* in its WHERE clause.  The executor's own commit finds the version moved.
MarkJobFailed(w) ==
    /\ proc[w].pc = "raising"
    /\ job' = IF job.st = "deleted" THEN job
              ELSE Moved("failed", NoProc)
    /\ Step(w, Idle)
    /\ UNCHANGED <<run, rows, listener, used>>

\* It fails too and is swallowed: _commit_failure respects a final status,
\* _commit_retry does not, and both the fencing token.
MarkJobFailedErrs(w) ==
    /\ proc[w].pc = "raising"
    /\ \/ job' = IF job.holder = w /\ job.st = "running"
                 THEN Moved("failed", NoProc) ELSE job
       \/ job' = IF job.holder = w
                 THEN Moved("open", NoProc) ELSE job
    /\ Step(w, Idle)
    /\ Spend("error")
    /\ UNCHANGED <<run, rows, listener>>

\* The open row of a process that goes away stays open for good.
Abandon(p) ==
    rows' = IF proc[p].pc = "node" /\ RunExists
            THEN [rows EXCEPT ![proc[p].node] = @ \cup {"lost"}] ELSE rows

\* A transaction of the engine raises.
StepErrs(p) ==
    /\ proc[p].pc \notin {"idle", "creating", "raising"}
    /\ Abandon(p)
    /\ Raise(p)
    /\ Spend("error")
    /\ UNCHANGED <<run, job, listener>>

Crash(p) ==
    /\ proc[p].pc # "idle"
    /\ Abandon(p)
    /\ Step(p, Idle)
    /\ Spend(IF p \in Workers THEN "kill" ELSE "drop")
    /\ UNCHANGED <<run, job, listener>>

-----------------------------------------------------------------------------
\* What a process does by itself once it has begun.
Proceed(p) ==
    \/ InsertRun(p) \/ Load(p) \/ LoopCancelled(p) \/ LoopNext(p) \/ LoopDone(p)
    \/ NodeSucceeds(p) \/ NodeFails(p) \/ Gather(p) \/ Insert(p) \/ Check(p)
    \/ Finalize(p) \/ Settle(p) \/ MarkJobFailed(p)

Call(c) == AcceptJob(c) \/ ResumeCall(c) \/ \E n \in Nodes : RetryCall(c, n)

Next ==
    \/ \E c \in Callers : Call(c)
    \/ \E w \in Workers : Take(w) \/ MarkJobFailedErrs(w)
    \/ \E p \in Procs : Proceed(p) \/ StepErrs(p) \/ Crash(p)
    \/ Requeue \/ RequeueLive \/ CancelJobReads \/ CancelJob
    \/ Cancel \/ Delete

Spec == Init /\ [][Next]_vars

(* A process that lives goes on, the reaper and the broker do their work.  *)
(* Nobody has to call the API and no fault has to happen.                  *)
Fairness ==
    /\ \A p \in Procs : WF_vars(Proceed(p))
    /\ WF_vars(\E w \in Workers : Take(w))
    /\ WF_vars(Requeue)

FairSpec == Spec /\ Fairness

-----------------------------------------------------------------------------
(* Properties.                                                             *)

\* Types; a process at a node knows which, a leased job knows its holder.
TypeOK ==
    /\ run \in RunStatus
    /\ rows \in [Nodes -> SUBSET {"succeeded", "failed", "lost"}]
    /\ job \in JobRow
    /\ proc \in [Procs -> Activity]
    /\ listener \in Procs \cup {NoProc}
    /\ used \in [FaultKinds -> Nat]
    /\ \A p \in Procs : AtNode(proc[p]) => proc[p].node \in Nodes
    /\ job.st = "running" => job.holder # NoProc

\* A run is reported succeeded only if each of its nodes has an execution that
\* succeeded, whatever crashes, redeliveries, retries and resumes came before
\* and however many of them overlap (execute, resume, retry_node).
SuccessIsComplete == run = "succeeded" => Achieved = Nodes

\* The run is inserted once, and nobody executes it before that.
CreatedOnce ==
    /\ job.st = "absent" =>
         run = "absent" /\ \A p \in Procs : proc[p].pc # "creating"
    /\ \A p, q \in Procs : proc[p].pc = "creating" =>
         run = "absent" /\ (proc[q].pc = "creating" => q = p)
    /\ run = "absent" => \A p \in Procs :
         proc[p].pc \in {"idle", "creating", "load", "raising"}

\* What an activity has passed or skips has succeeded, and it decides on
\* success only when everything has (A: the nodes that have succeeded).
Passed(act, A) ==
    /\ act.pc \in {"insert", "loop", "node"} =>
         Nodes \ act.left \subseteq A /\ act.skip \subseteq A
    /\ act.pc = "final" /\ act.verdict = "succeeded" => Nodes \subseteq A

\* Why SuccessIsComplete is inductive.
SuccessInv ==
    /\ CreatedOnce
    /\ RunExists => \A p \in Procs : Passed(proc[p], Achieved)
    /\ SuccessIsComplete

\* A node started by execute or resume finds the outputs of every node that it
\* is bound to and that an edge puts before it: nothing is resolved to None
\* (topological_sort, resolve_input).
InputsResolved ==
    \A p \in Procs :
       proc[p].pc = "node" /\ proc[p].kind \in {"execute", "resume"} =>
         \A m \in Binds[proc[p].node] :
            <<m, proc[p].node>> \in Edges => m \in Outputs(p)

\* Why InputsResolved is: the loop is at the first node it has not passed.
OrderInv == \A p \in Procs :
    /\ proc[p].pc = "node" /\ proc[p].kind # "retry" =>
         IsFirst(proc[p].left, proc[p].node)
    /\ proc[p].pc \in {"gather", "insert"} => proc[p].kind = "retry"

\* Nobody is executing the run and its job will start nobody.
Deserted ==
    /\ \A p \in Procs : proc[p].pc \in {"idle", "creating"}
    /\ job.st \notin {"open", "running"}

\* A run stays "running" with nobody to finish it only after a database error,
\* a request that died, or a worker that died when its job was already final
\* (_run_node_loop and retry_node finalize on every path).
RunningIsAttended ==
    run = "running" /\ Deserted =>
      used["error"] + used["drop"] + used["kill"] > 0

\* Why RunningIsAttended is.
AttendedInv ==
    run = "running" => \/ \E p \in Procs : Engaged(proc[p])
                       \/ used["error"] + used["drop"] + used["kill"] > 0

\* A pending run with a job that can be leased is executed, unless somebody
\* cancels the job instead of the run; and a run that is running ends, or is
\* deserted by the faults that can do that: a worker's death alone is made good
\* by the lease and another execution.
RunsProgress ==
    /\ (run = "pending" /\ job.st = "open") ~>
          (run # "pending" \/ job.st = "cancel_requested")
    /\ run = "running" ~>
          (run \in Verdicts \cup {"deleted"} \/ (Deserted /\ used["kill"] > 0))

\* The engine keeps the promise of module FlowVerdict.
Verdict == INSTANCE FlowVerdict WITH st <- run, done <- Achieved
ImplementsVerdict == Verdict!Spec

\* What the docstrings of the engine and of cancel say: cancellation is
\* cooperative, the loop leaves before its next node and a run that nobody
\* executes is cancelled in the database.  So only an explicit resume or retry
\* takes a run out of "cancelled".
CancelledRunStays ==
    [][run = "cancelled" /\ run' # run =>
         \/ run' = "deleted"
         \/ \E c \in Callers : proc[c].pc \in {"load", "idle"}
                              /\ proc'[c].kind \in {"resume", "retry"}]_vars
=============================================================================
