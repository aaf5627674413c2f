---------------------------- MODULE FlowRunProofs ----------------------------
(***************************************************************************)
(* Proofs about FlowRun for any flow, any number of worker processes and   *)
(* requests, and any number of faults.                                     *)
(***************************************************************************)
EXTENDS FlowRun, TLAPS

-----------------------------------------------------------------------------
(* The forms an activity takes, and what a step of one process leaves.     *)

\* A process that has nothing to do, or has just begun.
LEMMA FreshForms ==
    /\ Idle \in Activity
    /\ [Idle EXCEPT !.pc = "creating"] \in Activity
    /\ \A k \in {"none", "execute", "resume", "retry"} : Began(k) \in Activity
    /\ \A n \in Nodes :
         [Began("retry") EXCEPT !.pc = "gather", !.node = n] \in Activity
  <1>1. /\ Idle \in Activity
        /\ [Idle EXCEPT !.pc = "creating"] \in Activity
    BY DEF Idle, Activity, Stages, Verdicts
  <1>2. ASSUME NEW k \in {"none", "execute", "resume", "retry"}
        PROVE  Began(k) \in Activity
    BY DEF Began, Idle, Activity, Stages, Verdicts
  <1>3. ASSUME NEW n \in Nodes
        PROVE  [Began("retry") EXCEPT !.pc = "gather", !.node = n] \in Activity
    BY DEF Began, Idle, Activity, Stages, Verdicts
  <1> QED BY <1>1, <1>2, <1>3

\* A process that goes on.
LEMMA Forms ==
    ASSUME NEW act \in Activity
    PROVE  /\ \A s \in Stages : [act EXCEPT !.pc = s] \in Activity
           /\ \A v \in Verdicts :
                [act EXCEPT !.pc = "final", !.verdict = v] \in Activity
           /\ \A S \in SUBSET Nodes :
                [act EXCEPT !.pc = "loop", !.left = Nodes, !.sig = "clear",
                            !.skip = S] \in Activity
           /\ \A S \in SUBSET Nodes :
                [act EXCEPT !.pc = "insert", !.left = Nodes, !.skip = S]
                  \in Activity
           /\ \A n \in Nodes : [act EXCEPT !.left = @ \ {n}] \in Activity
           /\ \A n \in Nodes :
                [act EXCEPT !.pc = "node", !.node = n] \in Activity
           /\ \A n \in Nodes :
                [act EXCEPT !.pc = "loop", !.node = NoProc, !.left = @ \ {n}]
                  \in Activity
           /\ [act EXCEPT !.sig = "set"] \in Activity
  <1>1. /\ \A s \in Stages : [act EXCEPT !.pc = s] \in Activity
        /\ \A v \in Verdicts :
             [act EXCEPT !.pc = "final", !.verdict = v] \in Activity
    BY DEF Activity, Stages
  <1>2. \A S \in SUBSET Nodes :
          [act EXCEPT !.pc = "loop", !.left = Nodes, !.sig = "clear",
                      !.skip = S] \in Activity
    BY DEF Activity, Stages
  <1>3. \A S \in SUBSET Nodes :
          [act EXCEPT !.pc = "insert", !.left = Nodes, !.skip = S] \in Activity
    BY DEF Activity, Stages
  <1>4. /\ \A n \in Nodes : [act EXCEPT !.left = @ \ {n}] \in Activity
        /\ \A n \in Nodes :
             [act EXCEPT !.pc = "node", !.node = n] \in Activity
    BY DEF Activity, Stages
  <1>5. \A n \in Nodes :
          [act EXCEPT !.pc = "loop", !.node = NoProc, !.left = @ \ {n}]
            \in Activity
    BY DEF Activity, Stages
  <1>6. [act EXCEPT !.sig = "set"] \in Activity
    BY DEF Activity
  <1> QED BY <1>1, <1>2, <1>3, <1>4, <1>5, <1>6

\* A step of p gives p its new activity and nobody else.
LEMMA Updated ==
    ASSUME proc \in [Procs -> Activity], NEW p \in Procs,
           NEW a \in Activity, Step(p, a)
    PROVE  /\ proc' \in [Procs -> Activity]
           /\ proc'[p] = a
           /\ \A q \in Procs \ {p} : proc'[q] = proc[q]
  BY DEF Step

\* A spent fault leaves a count per kind, and none smaller than before.
LEMMA Spent ==
    ASSUME used \in [FaultKinds -> Nat], NEW k \in FaultKinds, Spend(k)
    PROVE  /\ used' \in [FaultKinds -> Nat]
           /\ \A f \in FaultKinds : used'[f] >= used[f]
           /\ used'[k] > 0
  BY DEF Spend

\* The rows of a node grow by one status, if at all.
LEMMA Recorded ==
    ASSUME TypeOK, NEW n \in Nodes, NEW s \in {"succeeded", "failed", "lost"}
    PROVE  [rows EXCEPT ![n] = @ \cup {s}]
             \in [Nodes -> SUBSET {"succeeded", "failed", "lost"}]
  BY DEF TypeOK

\* What TypeOK says of one process.
LEMMA ProcTypes ==
    ASSUME TypeOK, NEW p \in Procs
    PROVE  /\ proc[p] \in Activity
           /\ proc \in [Procs -> Activity]
           /\ AtNode(proc[p]) => proc[p].node \in Nodes
           /\ Achieved \in SUBSET Nodes
           /\ proc[p].left \in SUBSET Nodes
           /\ proc[p].verdict \in Verdicts
  BY DEF TypeOK, Activity, Achieved

\* A step in which p moves to a, with a well-typed and the rest well-typed.
LEMMA TypesAfter ==
    ASSUME TypeOK, NEW p \in Procs, NEW a \in Activity, Step(p, a),
           AtNode(a) => a.node \in Nodes,
           run' \in RunStatus,
           rows' \in [Nodes -> SUBSET {"succeeded", "failed", "lost"}],
           job' \in JobRow,
           job'.st = "running" => job'.holder # NoProc,
           listener' \in Procs \cup {NoProc},
           used' \in [FaultKinds -> Nat]
    PROVE  TypeOK'
  <1>1. /\ proc' \in [Procs -> Activity]
        /\ proc'[p] = a
        /\ \A q \in Procs \ {p} : proc'[q] = proc[q]
    BY Updated DEF TypeOK
  <1>2. \A q \in Procs : AtNode(proc'[q]) => proc'[q].node \in Nodes
    BY <1>1 DEF TypeOK, AtNode
  <1> QED
    BY <1>1, <1>2 DEF TypeOK, AtNode

\* The other variables of a step that leaves them alone.
LEMMA Kept ==
    ASSUME TypeOK
    PROVE  /\ UNCHANGED run => run' \in RunStatus
           /\ UNCHANGED rows =>
                rows' \in [Nodes -> SUBSET {"succeeded", "failed", "lost"}]
           /\ UNCHANGED job =>
                /\ job' \in JobRow
                /\ job'.st = "running" => job'.holder # NoProc
           /\ UNCHANGED listener => listener' \in Procs \cup {NoProc}
           /\ UNCHANGED used => used' \in [FaultKinds -> Nat]
  BY DEF TypeOK

\* An exception is a well-typed step.
LEMMA Raised ==
    ASSUME TypeOK, NEW p \in Procs, Raise(p)
    PROVE  \E a \in Activity : /\ Step(p, a)
                               /\ a.pc \in {"idle", "raising"}
  <1>1. CASE p \in Workers
    <2>1. [proc[p] EXCEPT !.pc = "raising"] \in Activity
      BY Forms, ProcTypes DEF Stages
    <2>2. [proc[p] EXCEPT !.pc = "raising"].pc = "raising"
      BY ProcTypes DEF Activity
    <2> QED BY <1>1, <2>1, <2>2 DEF Raise, Goto
  <1>2. CASE p \notin Workers
    BY <1>2, FreshForms DEF Raise, Idle
  <1> QED BY <1>1, <1>2

\* What a job may be.
LEMMA JobForms ==
    ASSUME NEW s \in JobStatus, NEW h \in Workers \cup {NoProc}
    PROVE  Moved(s, h) \in JobRow /\ Moved(s, h).st = s /\ Moved(s, h).holder = h
  BY DEF Moved, JobRow

\* What Init satisfies.
LEMMA InitTypes == ASSUME FlowAssumption, Init PROVE TypeOK
  <1>1. proc \in [Procs -> Activity] /\ \A p \in Procs : proc[p].pc = "idle"
    BY FreshForms DEF Init, Idle
  <1>2. /\ run \in RunStatus
        /\ rows \in [Nodes -> SUBSET {"succeeded", "failed", "lost"}]
        /\ job \in JobRow
        /\ job.st # "running"
        /\ listener \in Procs \cup {NoProc}
        /\ used \in [FaultKinds -> Nat]
    BY JobForms DEF Init, RunStatus, JobStatus
  <1> QED BY <1>1, <1>2 DEF TypeOK, AtNode

-----------------------------------------------------------------------------
(* TypeOK is inductive: one lemma per action.                              *)

\* A step of p that changes its stage only, and leaves the rest alone.
LEMMA GotoTypes ==
    ASSUME TypeOK, NEW p \in Procs, NEW s \in Stages, Goto(p, s),
           AtNode(proc[p]) \/ s \notin {"gather", "insert", "node"},
           run' \in RunStatus,
           rows' \in [Nodes -> SUBSET {"succeeded", "failed", "lost"}],
           job' \in JobRow,
           job'.st = "running" => job'.holder # NoProc,
           listener' \in Procs \cup {NoProc},
           used' \in [FaultKinds -> Nat]
    PROVE  TypeOK'
  <1> DEFINE a == [proc[p] EXCEPT !.pc = s]
  <1>1. proc[p] \in Activity /\ (AtNode(proc[p]) => proc[p].node \in Nodes)
    BY ProcTypes
  <1>2. a \in Activity /\ Step(p, a)
    BY <1>1, Forms DEF Goto
  <1>3. a.pc = s /\ a.node = proc[p].node
    BY <1>1 DEF Activity
  <1>4. AtNode(a) => a.node \in Nodes
    BY <1>1, <1>3 DEF AtNode
  <1> HIDE DEF a
  <1> QED BY <1>2, <1>4, TypesAfter

\* A step of p to the stage where the run is finalized.
LEMMA DecideTypes ==
    ASSUME TypeOK, NEW p \in Procs, NEW v \in Verdicts, Decide(p, v),
           UNCHANGED <<run, job, listener, used>>,
           rows' \in [Nodes -> SUBSET {"succeeded", "failed", "lost"}]
    PROVE  TypeOK'
  <1> DEFINE a == [proc[p] EXCEPT !.pc = "final", !.verdict = v]
  <1>1. proc[p] \in Activity
    BY ProcTypes
  <1>2. a \in Activity /\ Step(p, a)
    BY <1>1, Forms DEF Decide
  <1>3. a.pc = "final"
    BY <1>1 DEF Activity
  <1>4. AtNode(a) => a.node \in Nodes
    BY <1>3 DEF AtNode
  <1> HIDE DEF a
  <1> QED BY <1>2, <1>4, TypesAfter, Kept

\* A step of p to a stage at no node, everything else well-typed.
LEMMA LeaveTypes ==
    ASSUME TypeOK, NEW p \in Procs, NEW a \in Activity, Step(p, a),
           a.pc \notin {"gather", "insert", "node"},
           UNCHANGED <<listener>>,
           run' \in RunStatus,
           rows' \in [Nodes -> SUBSET {"succeeded", "failed", "lost"}],
           job' \in JobRow,
           job'.st = "running" => job'.holder # NoProc,
           used' \in [FaultKinds -> Nat]
    PROVE  TypeOK'
  <1>1. AtNode(a) => a.node \in Nodes
    BY DEF AtNode
  <1> QED BY <1>1, TypesAfter, Kept

LEMMA AcceptJobTypes ==
    ASSUME TypeOK, NEW c \in Callers, AcceptJob(c) PROVE TypeOK'
  <1> DEFINE a == [Idle EXCEPT !.pc = "creating"]
  <1>1. c \in Procs /\ a \in Activity /\ Step(c, a)
    BY FreshForms DEF AcceptJob, Procs
  <1>2. a.pc = "creating"
    BY DEF Idle
  <1>3. job' \in JobRow /\ job'.st = "open"
    BY DEF AcceptJob, TypeOK, JobRow, JobStatus
  <1>4. UNCHANGED <<run, rows, listener, used>>
    BY DEF AcceptJob
  <1> HIDE DEF a
  <1> QED BY <1>1, <1>2, <1>3, <1>4, LeaveTypes, Kept

LEMMA InsertRunTypes ==
    ASSUME TypeOK, NEW p \in Procs, InsertRun(p) PROVE TypeOK'
  <1>1. Idle \in Activity /\ Idle.pc = "idle" /\ Step(p, Idle)
    BY FreshForms DEF InsertRun, Idle
  <1>2. run' \in RunStatus
    BY DEF InsertRun, RunStatus
  <1>3. UNCHANGED <<rows, job, listener, used>>
    BY DEF InsertRun
  <1> QED BY <1>1, <1>2, <1>3, LeaveTypes, Kept

LEMMA TakeTypes ==
    ASSUME FlowAssumption, TypeOK, NEW w \in Workers, Take(w) PROVE TypeOK'
  <1> DEFINE a == Began("execute")
  <1>1. w \in Procs /\ a \in Activity /\ Step(w, a)
    BY FreshForms DEF Take, Procs
  <1>2. a.pc = "load"
    BY DEF Began, Idle
  <1>3. /\ job' \in JobRow
        /\ job'.holder # NoProc
    BY <1>1, JobForms DEF Take, JobStatus, FlowAssumption
  <1>4. UNCHANGED <<run, rows, listener, used>>
    BY DEF Take
  <1> HIDE DEF a
  <1> QED BY <1>1, <1>2, <1>3, <1>4, LeaveTypes, Kept

\* The steps that move the job and perhaps a fault count.
LEMMA JobStepTypes ==
    ASSUME TypeOK, Requeue \/ RequeueLive \/ CancelJobReads \/ CancelJob PROVE TypeOK'
  <1>1. /\ job' \in JobRow
        /\ job'.st = "running" => job'.holder # NoProc
    <2>1. CASE CancelJobReads
      BY <2>1 DEF CancelJobReads, TypeOK, JobRow
    <2> QED BY <2>1, JobForms DEF Requeue, RequeueLive, CancelJob, JobStatus
  <1>2. used' \in [FaultKinds -> Nat]
    <2>1. CASE Requeue BY <2>1 DEF Requeue, TypeOK
    <2>2. CASE RequeueLive
      BY <2>2, Spent DEF RequeueLive, TypeOK, FaultKinds
    <2>3. CASE CancelJobReads
      BY <2>3, Spent DEF CancelJobReads, TypeOK, FaultKinds
    <2>4. CASE CancelJob BY <2>4 DEF CancelJob, TypeOK
    <2> QED BY <2>1, <2>2, <2>3, <2>4
  <1>3. UNCHANGED <<run, rows, proc, listener>>
    BY DEF Requeue, RequeueLive, CancelJobReads, CancelJob
  <1> QED BY <1>1, <1>2, <1>3 DEF TypeOK, AtNode

LEMMA ResumeCallTypes ==
    ASSUME TypeOK, NEW c \in Callers, ResumeCall(c) PROVE TypeOK'
  <1> DEFINE a == Began("resume")
  <1>1. c \in Procs /\ a \in Activity /\ Step(c, a)
    BY FreshForms DEF ResumeCall, Procs
  <1>2. a.pc = "load"
    BY DEF Began, Idle
  <1>3. UNCHANGED <<run, rows, job, listener, used>>
    BY DEF ResumeCall
  <1> HIDE DEF a
  <1> QED BY <1>1, <1>2, <1>3, LeaveTypes, Kept

LEMMA LoadTypes ==
    ASSUME TypeOK, NEW p \in Procs, Load(p) PROVE TypeOK'
  <1>1. CASE RunExists
    <2> DEFINE S == IF proc[p].kind = "resume" THEN Achieved ELSE {}
               a == [proc[p] EXCEPT !.pc = "loop", !.left = Nodes,
                                    !.sig = "clear", !.skip = S]
    <2>1. proc[p] \in Activity /\ S \in SUBSET Nodes
      BY ProcTypes
    <2>2. a \in Activity
      BY <2>1, Forms
    <2>3. a.pc = "loop"
      BY <2>1 DEF Activity
    <2>4. Step(p, a) /\ run' \in RunStatus /\ listener' = p
          /\ UNCHANGED <<rows, job, used>>
      BY <1>1 DEF Load, RunStatus
    <2>5. AtNode(a) => a.node \in Nodes
      BY <2>3 DEF AtNode
    <2> HIDE DEF a
    <2> QED BY <2>2, <2>4, <2>5, TypesAfter, Kept
  <1>2. CASE ~RunExists
    <2>1. Raise(p) /\ UNCHANGED <<run, rows, job, listener, used>>
      BY <1>2 DEF Load
    <2> QED BY <2>1, Raised, LeaveTypes, Kept
  <1> QED BY <1>1, <1>2

LEMMA LoopNextTypes ==
    ASSUME TypeOK, NEW p \in Procs, LoopNext(p) PROVE TypeOK'
  <1>1. UNCHANGED <<run, rows, job, listener, used>>
    BY DEF LoopNext
  <1>2. PICK n \in Nodes :
          IF n \in proc[p].skip
          THEN Step(p, [proc[p] EXCEPT !.left = @ \ {n}])
          ELSE IF RunExists
               THEN Step(p, [proc[p] EXCEPT !.pc = "node", !.node = n])
               ELSE Raise(p)
    BY DEF LoopNext
  <1>3. proc[p] \in Activity /\ proc[p].pc = "loop"
    BY ProcTypes DEF LoopNext
  <1>4. CASE n \in proc[p].skip
    <2> DEFINE a == [proc[p] EXCEPT !.left = @ \ {n}]
    <2>1. a \in Activity /\ Step(p, a)
      BY <1>2, <1>3, <1>4, Forms
    <2>2. a.pc = "loop"
      BY <1>3 DEF Activity
    <2> HIDE DEF a
    <2> QED BY <1>1, <2>1, <2>2, LeaveTypes, Kept
  <1>5. CASE n \notin proc[p].skip /\ RunExists
    <2> DEFINE a == [proc[p] EXCEPT !.pc = "node", !.node = n]
    <2>1. a \in Activity /\ Step(p, a)
      BY <1>2, <1>3, <1>5, Forms
    <2>2. a.node \in Nodes
      BY <1>3 DEF Activity
    <2> HIDE DEF a
    <2> QED BY <1>1, <2>1, <2>2, TypesAfter, Kept
  <1>6. CASE n \notin proc[p].skip /\ ~RunExists
    BY <1>1, <1>2, <1>6, Raised, LeaveTypes, Kept
  <1> QED BY <1>4, <1>5, <1>6

\* A closed row is a row.
LEMMA RecordTypes ==
    ASSUME TypeOK, NEW p \in Procs, proc[p].pc = "node",
           NEW s \in {"succeeded", "failed", "lost"}, Record(p, s)
    PROVE  rows' \in [Nodes -> SUBSET {"succeeded", "failed", "lost"}]
  <1>1. proc[p].node \in Nodes
    BY ProcTypes DEF AtNode
  <1> QED BY <1>1, Recorded DEF Record, TypeOK

LEMMA NodeSucceedsTypes ==
    ASSUME TypeOK, NEW p \in Procs, NodeSucceeds(p) PROVE TypeOK'
  <1>1. /\ proc[p].pc = "node"
        /\ rows' \in [Nodes -> SUBSET {"succeeded", "failed", "lost"}]
        /\ UNCHANGED <<run, job, listener, used>>
    BY RecordTypes DEF NodeSucceeds
  <1>2. CASE proc[p].kind = "retry"
    <2>1. Goto(p, "check")
      BY <1>2 DEF NodeSucceeds
    <2> QED BY <1>1, <2>1, GotoTypes, Kept DEF Stages
  <1>3. CASE proc[p].kind # "retry"
    <2> DEFINE a == [proc[p] EXCEPT !.pc = "loop", !.node = NoProc,
                                    !.left = @ \ {proc[p].node}]
    <2>1. proc[p] \in Activity /\ proc[p].node \in Nodes
      BY <1>1, ProcTypes DEF AtNode
    <2>2. a \in Activity
      BY <2>1, Forms
    <2>3. a.pc = "loop"
      BY <2>1 DEF Activity
    <2>4. Step(p, a)
      BY <1>3 DEF NodeSucceeds
    <2> HIDE DEF a
    <2> QED BY <1>1, <2>2, <2>3, <2>4, LeaveTypes, Kept
  <1> QED BY <1>2, <1>3

\* The steps that decide on the run's verdict.
LEMMA DecisionTypes ==
    ASSUME TypeOK, NEW p \in Procs,
           LoopCancelled(p) \/ LoopDone(p) \/ NodeFails(p)
    PROVE  TypeOK'
  <1>1. CASE LoopCancelled(p)
    BY <1>1, DecideTypes, Kept DEF LoopCancelled, Verdicts
  <1>2. CASE LoopDone(p)
    BY <1>2, DecideTypes, Kept DEF LoopDone, Verdicts
  <1>3. CASE NodeFails(p)
    <2>1. /\ rows' \in [Nodes -> SUBSET {"succeeded", "failed", "lost"}]
          /\ Decide(p, "failed")
          /\ UNCHANGED <<run, job, listener, used>>
      BY <1>3, RecordTypes DEF NodeFails
    <2> QED BY <2>1, DecideTypes DEF Verdicts
  <1> QED BY <1>1, <1>2, <1>3

LEMMA FinalizeTypes ==
    ASSUME TypeOK, NEW p \in Procs, Finalize(p) PROVE TypeOK'
  <1>1. run' \in RunStatus
    BY ProcTypes DEF Finalize, RunStatus, TypeOK
  <1>2. Goto(p, "settle") /\ UNCHANGED <<rows, job, listener, used>>
    BY DEF Finalize
  <1> QED BY <1>1, <1>2, GotoTypes, Kept DEF Stages

LEMMA SettleTypes ==
    ASSUME TypeOK, NEW p \in Procs, Settle(p) PROVE TypeOK'
  <1>1. Idle \in Activity /\ Idle.pc = "idle" /\ Step(p, Idle)
    BY FreshForms DEF Settle, Idle
  <1>2. UNCHANGED <<run, rows, listener, used>>
    BY DEF Settle
  <1>3. proc[p].verdict \in JobStatus /\ proc[p].verdict # "running"
    BY ProcTypes DEF JobStatus, Verdicts
  <1>4. job.holder \in Workers \cup {NoProc} /\ job.st \in JobStatus
        /\ job \in JobRow
    BY DEF TypeOK, JobRow
  <1>5. /\ job' \in JobRow
        /\ job'.st # "running"
    <2>1. CASE job.st = "deleted"
      BY <2>1, <1>4 DEF Settle
    <2>2. CASE job.st # "deleted"
      BY <2>2, <1>3, <1>4 DEF Settle, JobRow
    <2> QED BY <2>1, <2>2
  <1> QED BY <1>1, <1>2, <1>5, LeaveTypes, Kept

LEMMA RetryCallTypes ==
    ASSUME TypeOK, NEW c \in Callers, NEW n \in Nodes, RetryCall(c, n)
    PROVE  TypeOK'
  <1> DEFINE a == [Began("retry") EXCEPT !.pc = "gather", !.node = n]
  <1>1. c \in Procs /\ a \in Activity /\ Step(c, a)
    BY FreshForms DEF RetryCall, Procs
  <1>2. a.node \in Nodes
    BY DEF Began, Idle
  <1>3. run' \in RunStatus /\ UNCHANGED <<rows, job, listener, used>>
    BY DEF RetryCall, RunStatus
  <1> HIDE DEF a
  <1> QED BY <1>1, <1>2, <1>3, TypesAfter, Kept

LEMMA GatherTypes ==
    ASSUME TypeOK, NEW p \in Procs, Gather(p) PROVE TypeOK'
  <1> DEFINE a == [proc[p] EXCEPT !.pc = "insert", !.left = Nodes,
                                  !.skip = Achieved]
  <1>1. /\ proc[p] \in Activity /\ Achieved \in SUBSET Nodes
        /\ proc[p].node \in Nodes
    BY ProcTypes DEF Gather, AtNode
  <1>2. a \in Activity
    BY <1>1, Forms
  <1>3. a.node \in Nodes
    BY <1>1 DEF Activity
  <1>4. Step(p, a) /\ listener' = p /\ UNCHANGED <<run, rows, job, used>>
    BY DEF Gather
  <1> HIDE DEF a
  <1> QED BY <1>2, <1>3, <1>4, TypesAfter, Kept

LEMMA InsertTypes ==
    ASSUME TypeOK, NEW p \in Procs, Insert(p) PROVE TypeOK'
  <1>1. UNCHANGED <<run, rows, job, listener, used>> /\ AtNode(proc[p])
    BY DEF Insert, AtNode
  <1>2. CASE RunExists
    BY <1>1, <1>2, GotoTypes, Kept DEF Insert, Stages
  <1>3. CASE ~RunExists
    BY <1>1, <1>3, Raised, LeaveTypes, Kept DEF Insert
  <1> QED BY <1>2, <1>3

LEMMA CheckTypes ==
    ASSUME TypeOK, NEW p \in Procs, Check(p) PROVE TypeOK'
  <1>1. UNCHANGED <<run, rows, job, listener, used>>
    BY DEF Check
  <1>2. CASE Achieved = Nodes
    BY <1>1, <1>2, DecideTypes, Kept DEF Check, Verdicts
  <1>3. CASE Achieved # Nodes
    <2>1. Began("resume") \in Activity /\ Step(p, Began("resume"))
      BY <1>3, FreshForms DEF Check
    <2>2. Began("resume").pc = "load"
      BY DEF Began, Idle
    <2> QED BY <1>1, <2>1, <2>2, LeaveTypes, Kept
  <1> QED BY <1>2, <1>3

LEMMA CancelTypes == ASSUME TypeOK, Cancel PROVE TypeOK'
  <1>1. run' \in RunStatus
    BY DEF Cancel, TypeOK, RunStatus, Verdicts
  <1>2. UNCHANGED <<rows, job, listener, used>>
    BY DEF Cancel
  <1>3. CASE proc' = proc
    BY <1>1, <1>2, <1>3 DEF TypeOK, AtNode
  <1>4. CASE listener # NoProc /\ proc' = [proc EXCEPT ![listener].sig = "set"]
    <2>1. listener \in Procs
      BY <1>4 DEF TypeOK
    <2> DEFINE a == [proc[listener] EXCEPT !.sig = "set"]
    <2>2. proc[listener] \in Activity
          /\ (AtNode(proc[listener]) => proc[listener].node \in Nodes)
      BY <2>1, ProcTypes
    <2>3. a \in Activity /\ Step(listener, a)
      BY <2>2, <1>4, Forms DEF Step
    <2>4. a.pc = proc[listener].pc /\ a.node = proc[listener].node
      BY <2>2 DEF Activity
    <2>5. AtNode(a) => a.node \in Nodes
      BY <2>2, <2>4 DEF AtNode
    <2> HIDE DEF a
    <2> QED BY <1>1, <1>2, <2>1, <2>3, <2>5, TypesAfter, Kept
  <1> QED BY <1>3, <1>4 DEF Cancel

LEMMA DeleteTypes == ASSUME TypeOK, Delete PROVE TypeOK'
  <1>1. /\ run' \in RunStatus
        /\ rows' \in [Nodes -> SUBSET {"succeeded", "failed", "lost"}]
        /\ UNCHANGED <<proc, listener, used>>
    BY DEF Delete, RunStatus
  <1>2. /\ job' \in JobRow
        /\ job'.st = "running" => job'.holder # NoProc
    <2>1. CASE UNCHANGED job
      BY <2>1, Kept
    <2>2. CASE job' = Moved("deleted", NoProc)
      BY <2>2, JobForms DEF JobStatus
    <2> QED BY <2>1, <2>2 DEF Delete
  <1> QED BY <1>1, <1>2 DEF TypeOK, AtNode

\* What the handler's except clause leaves of the job.
LEMMA MarkJobFailedTypes ==
    ASSUME FlowAssumption, TypeOK, NEW p \in Procs,
           MarkJobFailed(p) \/ (p \in Workers /\ MarkJobFailedErrs(p))
    PROVE  TypeOK'
  <1>1. Idle \in Activity /\ Idle.pc = "idle" /\ Step(p, Idle)
    BY FreshForms DEF MarkJobFailed, MarkJobFailedErrs, Idle
  <1>2. UNCHANGED <<run, rows, listener>>
    BY DEF MarkJobFailed, MarkJobFailedErrs
  <1>3. used' \in [FaultKinds -> Nat]
    BY Spent DEF MarkJobFailed, MarkJobFailedErrs, TypeOK, FaultKinds
  <1>4. \/ job' = job
        \/ \E s \in {"failed", "open"} : job' = Moved(s, NoProc)
    BY DEF MarkJobFailed, MarkJobFailedErrs
  <1>5. /\ job' \in JobRow
        /\ job'.st = "running" => job'.holder # NoProc
    <2>1. CASE job' = job
      BY <2>1, Kept
    <2>2. CASE \E s \in {"failed", "open"} : job' = Moved(s, NoProc)
      BY <2>2, JobForms DEF JobStatus, Verdicts
    <2> QED BY <1>4, <2>1, <2>2
  <1> QED BY <1>1, <1>2, <1>3, <1>5, LeaveTypes, Kept

\* Errors and crashes.
LEMMA FaultTypes ==
    ASSUME TypeOK, NEW p \in Procs, StepErrs(p) \/ Crash(p) PROVE TypeOK'
  <1>1. rows' \in [Nodes -> SUBSET {"succeeded", "failed", "lost"}]
    <2>1. Abandon(p)
      BY DEF StepErrs, Crash
    <2>2. CASE proc[p].pc = "node" /\ RunExists
      <3>1. proc[p].node \in Nodes
        BY <2>2, ProcTypes DEF AtNode
      <3> QED BY <2>1, <2>2, <3>1, Recorded DEF Abandon
    <2>3. CASE ~(proc[p].pc = "node" /\ RunExists)
      BY <2>1, <2>3 DEF Abandon, TypeOK
    <2> QED BY <2>2, <2>3
  <1>2. UNCHANGED <<run, job, listener>>
    BY DEF StepErrs, Crash
  <1>3. used' \in [FaultKinds -> Nat]
    <2>1. \E k \in FaultKinds : Spend(k)
      BY DEF StepErrs, Crash, FaultKinds
    <2> QED BY <2>1, Spent DEF TypeOK
  <1>4. CASE StepErrs(p)
    <2>1. Raise(p)
      BY <1>4 DEF StepErrs
    <2> QED BY <1>1, <1>2, <1>3, <2>1, Raised, LeaveTypes, Kept
  <1>5. CASE Crash(p)
    <2>1. Idle \in Activity /\ Idle.pc = "idle" /\ Step(p, Idle)
      BY <1>5, FreshForms DEF Crash, Idle
    <2> QED BY <1>1, <1>2, <1>3, <2>1, LeaveTypes, Kept
  <1> QED BY <1>4, <1>5

\* What a process does once it has begun.
LEMMA ProceedTypes ==
    ASSUME FlowAssumption, TypeOK, NEW p \in Procs, Proceed(p) PROVE TypeOK'
  <1>1. CASE InsertRun(p) BY <1>1, InsertRunTypes
  <1>2. CASE Load(p) BY <1>2, LoadTypes
  <1>3. CASE LoopCancelled(p) \/ LoopDone(p) \/ NodeFails(p)
    BY <1>3, DecisionTypes
  <1>4. CASE LoopNext(p) BY <1>4, LoopNextTypes
  <1>5. CASE NodeSucceeds(p) BY <1>5, NodeSucceedsTypes
  <1>6. CASE Gather(p) BY <1>6, GatherTypes
  <1>7. CASE Insert(p) BY <1>7, InsertTypes
  <1>8. CASE Check(p) BY <1>8, CheckTypes
  <1>9. CASE Finalize(p) BY <1>9, FinalizeTypes
  <1>10. CASE Settle(p) BY <1>10, SettleTypes
  <1>11. CASE MarkJobFailed(p) BY <1>11, MarkJobFailedTypes
  <1> QED BY <1>1, <1>2, <1>3, <1>4, <1>5, <1>6, <1>7, <1>8, <1>9, <1>10, <1>11
          DEF Proceed

\* The actions of Next, named one by one.
LEMMA NextForms ==
    ASSUME Next
    PROVE  \/ \E c \in Callers : AcceptJob(c)
           \/ \E c \in Callers : ResumeCall(c)
           \/ \E c \in Callers, n \in Nodes : RetryCall(c, n)
           \/ \E w \in Workers : Take(w)
           \/ \E w \in Workers : MarkJobFailedErrs(w)
           \/ \E p \in Procs : Proceed(p)
           \/ \E p \in Procs : StepErrs(p) \/ Crash(p)
           \/ Requeue \/ RequeueLive \/ CancelJobReads \/ CancelJob
           \/ Cancel \/ Delete
  BY DEF Next, Call

LEMMA TypeStep ==
    ASSUME FlowAssumption, TypeOK, [Next]_vars PROVE TypeOK'
  <1>1. CASE UNCHANGED vars
    BY <1>1 DEF vars, TypeOK, AtNode
  <1>2. CASE Next
    <2>1. CASE \E c \in Callers : AcceptJob(c) BY <2>1, AcceptJobTypes
    <2>2. CASE \E c \in Callers : ResumeCall(c) BY <2>2, ResumeCallTypes
    <2>3. CASE \E c \in Callers, n \in Nodes : RetryCall(c, n)
      BY <2>3, RetryCallTypes
    <2>4. CASE \E w \in Workers : Take(w) BY <2>4, TakeTypes
    <2>5. CASE \E w \in Workers : MarkJobFailedErrs(w)
      BY <2>5, MarkJobFailedTypes DEF Procs
    <2>6. CASE \E p \in Procs : Proceed(p) BY <2>6, ProceedTypes
    <2>7. CASE \E p \in Procs : StepErrs(p) \/ Crash(p) BY <2>7, FaultTypes
    <2>8. CASE Requeue \/ RequeueLive \/ CancelJobReads \/ CancelJob BY <2>8, JobStepTypes
    <2>9. CASE Cancel BY <2>9, CancelTypes
    <2>10. CASE Delete BY <2>10, DeleteTypes
    <2> QED BY <1>2, NextForms, <2>1, <2>2, <2>3, <2>4, <2>5, <2>6, <2>7,
               <2>8, <2>9, <2>10
  <1> QED BY <1>1, <1>2

\* The variables of a flow run keep their types, and whoever is at a node
\* knows which, with any flow, any processes and any faults.
THEOREM FlowTypes == Spec => []TypeOK
  <1>1. Init => TypeOK
    BY FlowAssumption, InitTypes
  <1>2. TypeOK /\ [Next]_vars => TypeOK'
    BY FlowAssumption, TypeStep
  <1> QED BY <1>1, <1>2, PTL DEF Spec

-----------------------------------------------------------------------------
(* A run that is reported succeeded is complete.                           *)

\* Rows are closed, never taken back, as long as the run is there.
LEMMA AchievedGrows ==
    ASSUME TypeOK, NEW p \in Procs, NEW s \in {"succeeded", "failed"},
           \/ UNCHANGED rows
           \/ proc[p].pc = "node" /\ Record(p, s)
           \/ Abandon(p)
    PROVE  Achieved \subseteq Achieved'
  <1>1. CASE UNCHANGED rows
    BY <1>1 DEF Achieved
  <1>2. CASE proc[p].pc = "node" /\ Record(p, s)
    BY <1>2 DEF Achieved, Record, TypeOK
  <1>3. CASE Abandon(p)
    BY <1>3 DEF Achieved, Abandon, TypeOK
  <1> QED BY <1>1, <1>2, <1>3

\* More success invalidates nothing.
LEMMA PassedGrows ==
    ASSUME NEW act, NEW A, NEW B, A \subseteq B, Passed(act, A)
    PROVE  Passed(act, B)
  BY DEF Passed

\* Creation and success after a step of p.
LEMMA SuccessAfter ==
    ASSUME TypeOK, SuccessInv, NEW p \in Procs, NEW a \in Activity, Step(p, a),
           a.pc # "creating",
           run = "absent" => a.pc \in {"idle", "load", "raising"},
           run' = run \/ (RunExists /\ run' # "absent"),
           job'.st = "absent" => job.st = "absent",
           Achieved \subseteq Achieved',
           RunExists => Passed(a, Achieved'),
           run' = "succeeded" => run = "succeeded" \/ Achieved = Nodes
    PROVE  SuccessInv'
  <1>1. proc'[p] = a /\ \A q \in Procs \ {p} : proc'[q] = proc[q]
    BY Updated DEF TypeOK
  <1>2. CreatedOnce
    BY DEF SuccessInv
  <1>3. CreatedOnce'
    <2>1. RunExists => run # "absent"
      BY DEF RunExists, Verdicts
    <2>2. job'.st = "absent" =>
            run' = "absent" /\ \A q \in Procs : proc'[q].pc # "creating"
      BY <1>1, <1>2, <2>1 DEF CreatedOnce
    <2>3. \A q, r \in Procs : proc'[q].pc = "creating" =>
            run' = "absent" /\ (proc'[r].pc = "creating" => r = q)
      BY <1>1, <1>2, <2>1 DEF CreatedOnce
    <2>4. run' = "absent" => \A q \in Procs :
            proc'[q].pc \in {"idle", "creating", "load", "raising"}
      BY <1>1, <1>2, <2>1 DEF CreatedOnce
    <2> QED BY <2>2, <2>3, <2>4 DEF CreatedOnce
  <1>4. RunExists' => RunExists
    BY DEF RunExists
  <1>5. RunExists' => \A q \in Procs : Passed(proc'[q], Achieved')
    BY <1>1, <1>4, PassedGrows DEF SuccessInv
  <1>6. SuccessIsComplete'
    BY DEF SuccessIsComplete, SuccessInv, Achieved
  <1> QED BY <1>3, <1>5, <1>6 DEF SuccessInv

\* A step that raises, or falls silent, passes nothing.
LEMMA SuccessOut ==
    ASSUME TypeOK, SuccessInv, NEW p \in Procs, NEW a \in Activity, Step(p, a),
           a.pc \in {"idle", "raising", "load", "settle", "check", "gather"},
           run = "absent" => a.pc \in {"idle", "load", "raising"},
           UNCHANGED run,
           job'.st = "absent" => job.st = "absent",
           Achieved \subseteq Achieved'
    PROVE  SuccessInv'
  <1>1. Passed(a, Achieved') /\ a.pc # "creating"
    BY DEF Passed
  <1> QED BY <1>1, SuccessAfter

\* Whoever executes does so after the run was inserted.
LEMMA ExecutesLate ==
    ASSUME SuccessInv, NEW p \in Procs,
           proc[p].pc \notin {"idle", "creating", "load", "raising"}
    PROVE  run # "absent"
  BY DEF SuccessInv, CreatedOnce

LEMMA SuccessAccept ==
    ASSUME TypeOK, SuccessInv, NEW c \in Callers, AcceptJob(c)
    PROVE  SuccessInv'
  <1> DEFINE a == [Idle EXCEPT !.pc = "creating"]
  <1>1. c \in Procs /\ a \in Activity /\ Step(c, a) /\ a.pc = "creating"
    BY FreshForms DEF AcceptJob, Procs, Idle
  <1> HIDE DEF a
  <1>2. proc'[c] = a /\ \A q \in Procs \ {c} : proc'[q] = proc[q]
    BY <1>1, Updated DEF TypeOK
  <1>3. job.st = "absent" /\ job'.st = "open" /\ UNCHANGED <<run, rows>>
    BY DEF AcceptJob, TypeOK
  <1>4. CreatedOnce /\ run = "absent" /\ \A q \in Procs : proc[q].pc # "creating"
    BY <1>3 DEF SuccessInv, CreatedOnce
  <1>5. CreatedOnce'
    BY <1>1, <1>2, <1>3, <1>4 DEF CreatedOnce
  <1>6. ~RunExists' /\ SuccessIsComplete'
    BY <1>3, <1>4 DEF RunExists, Verdicts, SuccessIsComplete
  <1> QED BY <1>5, <1>6 DEF SuccessInv

LEMMA SuccessInsertRun ==
    ASSUME TypeOK, SuccessInv, NEW p \in Procs, InsertRun(p)
    PROVE  SuccessInv'
  <1>1. Idle \in Activity /\ Idle.pc = "idle" /\ Step(p, Idle)
    BY FreshForms DEF InsertRun, Idle
  <1>2. proc'[p] = Idle /\ \A q \in Procs \ {p} : proc'[q] = proc[q]
    BY <1>1, Updated DEF TypeOK
  <1>3. proc[p].pc = "creating" /\ run' = "pending" /\ UNCHANGED job
    BY DEF InsertRun
  <1>4. /\ job.st # "absent" /\ run = "absent"
        /\ \A q \in Procs : proc[q].pc = "creating" => q = p
        /\ \A q \in Procs : proc[q].pc \in {"idle", "creating", "load", "raising"}
    BY <1>3 DEF SuccessInv, CreatedOnce
  <1>5. \A q \in Procs : proc'[q].pc \in {"idle", "load", "raising"}
    BY <1>1, <1>2, <1>4
  <1>6. CreatedOnce'
    BY <1>3, <1>4, <1>5 DEF CreatedOnce
  <1>7. (\A q \in Procs : Passed(proc'[q], Achieved')) /\ SuccessIsComplete'
    BY <1>3, <1>5 DEF Passed, SuccessIsComplete
  <1> QED BY <1>6, <1>7 DEF SuccessInv

LEMMA SuccessTake ==
    ASSUME TypeOK, SuccessInv, NEW w \in Workers, Take(w)
    PROVE  SuccessInv'
  <1>1. w \in Procs /\ Began("execute") \in Activity /\ Step(w, Began("execute"))
    BY FreshForms DEF Take, Procs
  <1>2. Began("execute").pc = "load"
    BY DEF Began, Idle
  <1>3. UNCHANGED <<run, rows>> /\ job'.st = "running"
    BY DEF Take, Moved
  <1> QED BY <1>1, <1>2, <1>3, SuccessOut DEF Achieved

LEMMA SuccessResume ==
    ASSUME TypeOK, SuccessInv, NEW c \in Callers, ResumeCall(c)
    PROVE  SuccessInv'
  <1>1. c \in Procs /\ Began("resume") \in Activity /\ Step(c, Began("resume"))
    BY FreshForms DEF ResumeCall, Procs
  <1>2. Began("resume").pc = "load"
    BY DEF Began, Idle
  <1>3. UNCHANGED <<run, rows, job>>
    BY DEF ResumeCall
  <1> QED BY <1>1, <1>2, <1>3, SuccessOut DEF Achieved

\* The job of an accepted run never goes back to absent.
LEMMA SuccessJob ==
    ASSUME TypeOK, SuccessInv, Requeue \/ RequeueLive \/ CancelJobReads \/ CancelJob
    PROVE  SuccessInv'
  <1>1. UNCHANGED <<run, rows, proc>> /\ job'.st # "absent"
    BY DEF Requeue, RequeueLive, CancelJobReads, CancelJob, Moved, TypeOK, JobRow
  <1>2. RunExists' = RunExists /\ Achieved' = Achieved
    BY <1>1 DEF RunExists, Achieved
  <1>3. CreatedOnce'
    BY <1>1 DEF SuccessInv, CreatedOnce
  <1> QED BY <1>1, <1>2, <1>3 DEF SuccessInv, SuccessIsComplete

LEMMA SuccessLoad ==
    ASSUME TypeOK, SuccessInv, NEW p \in Procs, Load(p) PROVE SuccessInv'
  <1>1. UNCHANGED <<rows, job>> /\ Achieved' = Achieved
    BY DEF Load, Achieved
  <1>2. CASE RunExists
    <2> DEFINE S == IF proc[p].kind = "resume" THEN Achieved ELSE {}
               a == [proc[p] EXCEPT !.pc = "loop", !.left = Nodes,
                                    !.sig = "clear", !.skip = S]
    <2>1. proc[p] \in Activity /\ S \in SUBSET Nodes /\ S \subseteq Achieved
      BY ProcTypes
    <2>2. a \in Activity
      BY <2>1, Forms
    <2>3. a.pc = "loop" /\ a.left = Nodes /\ a.skip \subseteq Achieved
      BY <2>1 DEF Activity
    <2>4. Step(p, a) /\ run' = "running"
      BY <1>2 DEF Load
    <2> HIDE DEF a
    <2>5. Passed(a, Achieved')
      BY <1>1, <2>3 DEF Passed
    <2>6. run # "absent"
      BY <1>2 DEF RunExists, Verdicts
    <2> QED BY <1>1, <1>2, <2>2, <2>3, <2>4, <2>5, <2>6, SuccessAfter
  <1>3. CASE ~RunExists
    <2>1. Raise(p) /\ UNCHANGED run
      BY <1>3 DEF Load
    <2> QED BY <1>1, <2>1, Raised, SuccessOut
  <1> QED BY <1>2, <1>3

LEMMA SuccessLoopNext ==
    ASSUME TypeOK, SuccessInv, NEW p \in Procs, LoopNext(p) PROVE SuccessInv'
  <1>1. UNCHANGED <<run, rows, job>> /\ Achieved' = Achieved
    BY DEF LoopNext, Achieved
  <1>2. PICK n \in Nodes :
          IF n \in proc[p].skip
          THEN Step(p, [proc[p] EXCEPT !.left = @ \ {n}])
          ELSE IF RunExists
               THEN Step(p, [proc[p] EXCEPT !.pc = "node", !.node = n])
               ELSE Raise(p)
    BY DEF LoopNext
  <1>3. proc[p] \in Activity /\ proc[p].pc = "loop" /\ run # "absent"
    BY ProcTypes, ExecutesLate DEF LoopNext
  <1>4. RunExists => /\ Nodes \ proc[p].left \subseteq Achieved
                     /\ proc[p].skip \subseteq Achieved
    BY <1>3 DEF SuccessInv, Passed
  <1>5. CASE n \in proc[p].skip
    <2> DEFINE a == [proc[p] EXCEPT !.left = @ \ {n}]
    <2>1. a \in Activity /\ Step(p, a)
      BY <1>2, <1>3, <1>5, Forms
    <2>2. a.pc = "loop" /\ a.left = proc[p].left \ {n} /\ a.skip = proc[p].skip
      BY <1>3 DEF Activity
    <2> HIDE DEF a
    <2>3. RunExists => Passed(a, Achieved')
      BY <1>1, <1>4, <1>5, <2>2 DEF Passed
    <2> QED BY <1>1, <1>3, <2>1, <2>2, <2>3, SuccessAfter
  <1>6. CASE n \notin proc[p].skip /\ RunExists
    <2> DEFINE a == [proc[p] EXCEPT !.pc = "node", !.node = n]
    <2>1. a \in Activity /\ Step(p, a)
      BY <1>2, <1>3, <1>6, Forms
    <2>2. a.pc = "node" /\ a.left = proc[p].left /\ a.skip = proc[p].skip
      BY <1>3 DEF Activity
    <2> HIDE DEF a
    <2>3. Passed(a, Achieved')
      BY <1>1, <1>4, <1>6, <2>2 DEF Passed
    <2> QED BY <1>1, <1>3, <2>1, <2>2, <2>3, SuccessAfter
  <1>7. CASE n \notin proc[p].skip /\ ~RunExists
    BY <1>1, <1>2, <1>7, Raised, SuccessOut
  <1> QED BY <1>5, <1>6, <1>7

\* A decision that is sound when it is taken.
LEMMA SuccessDecide ==
    ASSUME TypeOK, SuccessInv, NEW p \in Procs, NEW v \in Verdicts,
           Decide(p, v), UNCHANGED <<run, job>>, run # "absent",
           Achieved \subseteq Achieved',
           RunExists /\ v = "succeeded" => Achieved = Nodes
    PROVE  SuccessInv'
  <1> DEFINE a == [proc[p] EXCEPT !.pc = "final", !.verdict = v]
  <1>1. proc[p] \in Activity
    BY ProcTypes
  <1>2. a \in Activity /\ Step(p, a)
    BY <1>1, Forms DEF Decide
  <1>3. a.pc = "final" /\ a.verdict = v
    BY <1>1 DEF Activity
  <1> HIDE DEF a
  <1>4. RunExists => Passed(a, Achieved')
    BY <1>3 DEF Passed
  <1> QED BY <1>2, <1>3, <1>4, SuccessAfter

LEMMA SuccessDecision ==
    ASSUME TypeOK, SuccessInv, NEW p \in Procs,
           LoopCancelled(p) \/ LoopDone(p) \/ NodeFails(p)
    PROVE  SuccessInv'
  <1>1. run # "absent" /\ UNCHANGED <<run, job>>
    BY ExecutesLate DEF LoopCancelled, LoopDone, NodeFails
  <1>2. Achieved \subseteq Achieved'
    BY AchievedGrows DEF LoopCancelled, LoopDone, NodeFails
  <1>3. CASE LoopCancelled(p)
    BY <1>1, <1>2, <1>3, SuccessDecide DEF LoopCancelled, Verdicts
  <1>4. CASE LoopDone(p)
    <2>1. RunExists => Achieved = Nodes
      BY <1>4 DEF LoopDone, SuccessInv, Passed, Achieved
    <2> QED BY <1>1, <1>2, <1>4, <2>1, SuccessDecide DEF LoopDone, Verdicts
  <1>5. CASE NodeFails(p)
    BY <1>1, <1>2, <1>5, SuccessDecide DEF NodeFails, Verdicts
  <1> QED BY <1>3, <1>4, <1>5

\* A step to another stage with the same passed and skipped nodes.
LEMMA SuccessGoto ==
    ASSUME TypeOK, SuccessInv, NEW p \in Procs, NEW s \in Stages, Goto(p, s),
           s \in {"check", "settle", "node"},
           s = "node" => proc[p].pc = "insert",
           proc[p].pc \notin {"idle", "creating", "load", "raising"},
           run' = run \/ (RunExists /\ run' # "absent"),
           job'.st = "absent" => job.st = "absent",
           Achieved \subseteq Achieved',
           run' = "succeeded" => run = "succeeded" \/ Achieved = Nodes
    PROVE  SuccessInv'
  <1> DEFINE a == [proc[p] EXCEPT !.pc = s]
  <1>1. proc[p] \in Activity /\ run # "absent"
    BY ProcTypes, ExecutesLate
  <1>2. a \in Activity /\ Step(p, a)
    BY <1>1, Forms DEF Goto
  <1>3. a.pc = s /\ a.left = proc[p].left /\ a.skip = proc[p].skip
    BY <1>1 DEF Activity
  <1> HIDE DEF a
  <1>4. RunExists => Passed(a, Achieved)
    BY <1>3 DEF SuccessInv, Passed
  <1>5. RunExists => Passed(a, Achieved')
    BY <1>4, PassedGrows
  <1> QED BY <1>1, <1>2, <1>3, <1>5, SuccessAfter

LEMMA SuccessNode ==
    ASSUME TypeOK, SuccessInv, NEW p \in Procs, NodeSucceeds(p)
    PROVE  SuccessInv'
  <1>1. /\ proc[p].pc = "node" /\ Record(p, "succeeded")
        /\ UNCHANGED <<run, job>> /\ run # "absent"
    BY ExecutesLate DEF NodeSucceeds
  <1>2. Achieved \subseteq Achieved'
    BY <1>1, AchievedGrows
  <1>3. CASE proc[p].kind = "retry"
    BY <1>1, <1>2, <1>3, SuccessGoto DEF NodeSucceeds, Stages
  <1>4. CASE proc[p].kind # "retry"
    <2> DEFINE a == [proc[p] EXCEPT !.pc = "loop", !.node = NoProc,
                                    !.left = @ \ {proc[p].node}]
    <2>1. proc[p] \in Activity /\ proc[p].node \in Nodes
      BY <1>1, ProcTypes DEF AtNode
    <2>2. a \in Activity
      BY <2>1, Forms
    <2>3. /\ a.pc = "loop" /\ a.left = proc[p].left \ {proc[p].node}
          /\ a.skip = proc[p].skip
      BY <2>1 DEF Activity
    <2>4. Step(p, a)
      BY <1>4 DEF NodeSucceeds
    <2> HIDE DEF a
    <2>5. RunExists => proc[p].node \in Achieved'
      BY <1>1, <2>1 DEF Record, Achieved, TypeOK
    <2>6. RunExists => /\ Nodes \ proc[p].left \subseteq Achieved
                       /\ proc[p].skip \subseteq Achieved
      BY <1>1 DEF SuccessInv, Passed
    <2>7. RunExists => Passed(a, Achieved')
      BY <1>2, <2>3, <2>5, <2>6 DEF Passed
    <2> QED BY <1>1, <1>2, <2>2, <2>3, <2>4, <2>7, SuccessAfter
  <1> QED BY <1>3, <1>4

LEMMA SuccessFinalize ==
    ASSUME TypeOK, SuccessInv, NEW p \in Procs, Finalize(p)
    PROVE  SuccessInv'
  <1>1. /\ proc[p].pc = "final" /\ Goto(p, "settle") /\ UNCHANGED <<rows, job>>
        /\ run' = IF RunExists THEN proc[p].verdict ELSE run
    BY DEF Finalize
  <1>2. Achieved' = Achieved
    BY <1>1 DEF Achieved
  <1>3. proc[p].verdict \in Verdicts
    BY ProcTypes
  <1>4. run' = run \/ (RunExists /\ run' # "absent")
    BY <1>1, <1>3 DEF Verdicts
  <1>5. RunExists /\ proc[p].verdict = "succeeded" => Achieved = Nodes
    BY <1>1 DEF SuccessInv, Passed, Achieved
  <1>6. run' = "succeeded" => run = "succeeded" \/ Achieved = Nodes
    BY <1>1, <1>5
  <1> QED BY <1>1, <1>2, <1>4, <1>6, SuccessGoto DEF Stages

LEMMA SuccessSettle ==
    ASSUME TypeOK, SuccessInv, NEW p \in Procs,
           \/ Settle(p)
           \/ MarkJobFailed(p)
           \/ p \in Workers /\ MarkJobFailedErrs(p)
    PROVE  SuccessInv'
  <1>1. Idle \in Activity /\ Idle.pc = "idle" /\ Step(p, Idle)
    BY FreshForms DEF Settle, MarkJobFailed, MarkJobFailedErrs, Idle
  <1>2. UNCHANGED <<run, rows>> /\ Achieved' = Achieved
    BY DEF Settle, MarkJobFailed, MarkJobFailedErrs, Achieved
  <1>3. job'.st = "absent" => job.st = "absent"
    <2>1. CASE Settle(p)
      <3>1. proc[p].verdict # "absent" /\ job \in JobRow
        BY ProcTypes DEF Verdicts, TypeOK
      <3> QED BY <2>1, <3>1 DEF Settle, JobRow
    <2> QED BY <2>1 DEF MarkJobFailed, MarkJobFailedErrs, Moved
  <1> QED BY <1>1, <1>2, <1>3, SuccessOut

LEMMA SuccessRetry ==
    ASSUME TypeOK, SuccessInv, NEW c \in Callers, NEW n \in Nodes,
           RetryCall(c, n)
    PROVE  SuccessInv'
  <1> DEFINE a == [Began("retry") EXCEPT !.pc = "gather", !.node = n]
  <1>1. c \in Procs /\ a \in Activity /\ Step(c, a)
    BY FreshForms DEF RetryCall, Procs
  <1>2. a.pc = "gather"
    BY DEF Began, Idle
  <1>3. RunExists /\ run' = "running" /\ UNCHANGED <<rows, job>>
    BY DEF RetryCall
  <1>4. run # "absent" /\ Achieved' = Achieved
    BY <1>3 DEF RunExists, Verdicts, Achieved
  <1> HIDE DEF a
  <1>5. Passed(a, Achieved')
    BY <1>2 DEF Passed
  <1> QED BY <1>1, <1>2, <1>3, <1>4, <1>5, SuccessAfter

LEMMA SuccessGather ==
    ASSUME TypeOK, SuccessInv, NEW p \in Procs, Gather(p) PROVE SuccessInv'
  <1> DEFINE a == [proc[p] EXCEPT !.pc = "insert", !.left = Nodes,
                                  !.skip = Achieved]
  <1>1. proc[p] \in Activity /\ Achieved \in SUBSET Nodes
    BY ProcTypes
  <1>2. a \in Activity
    BY <1>1, Forms
  <1>3. a.pc = "insert" /\ a.left = Nodes /\ a.skip = Achieved
    BY <1>1 DEF Activity
  <1>4. Step(p, a) /\ UNCHANGED <<run, rows, job>> /\ proc[p].pc = "gather"
    BY DEF Gather
  <1> HIDE DEF a
  <1>5. Achieved' = Achieved /\ run # "absent"
    BY <1>4, ExecutesLate DEF Achieved
  <1>6. Passed(a, Achieved')
    BY <1>3, <1>5 DEF Passed
  <1> QED BY <1>2, <1>3, <1>4, <1>5, <1>6, SuccessAfter

LEMMA SuccessInsert ==
    ASSUME TypeOK, SuccessInv, NEW p \in Procs, Insert(p) PROVE SuccessInv'
  <1>1. /\ proc[p].pc = "insert" /\ UNCHANGED <<run, rows, job>>
        /\ Achieved' = Achieved
    BY DEF Insert, Achieved
  <1>2. CASE RunExists
    BY <1>1, <1>2, SuccessGoto DEF Insert, Stages
  <1>3. CASE ~RunExists
    BY <1>1, <1>3, Raised, SuccessOut DEF Insert
  <1> QED BY <1>2, <1>3

LEMMA SuccessCheck ==
    ASSUME TypeOK, SuccessInv, NEW p \in Procs, Check(p) PROVE SuccessInv'
  <1>1. /\ proc[p].pc = "check" /\ UNCHANGED <<run, rows, job>>
        /\ Achieved' = Achieved /\ run # "absent"
    BY ExecutesLate DEF Check, Achieved
  <1>2. CASE Achieved = Nodes
    BY <1>1, <1>2, SuccessDecide DEF Check, Verdicts
  <1>3. CASE Achieved # Nodes
    <2>1. Began("resume") \in Activity /\ Step(p, Began("resume"))
      BY <1>3, FreshForms DEF Check
    <2>2. Began("resume").pc = "load"
      BY DEF Began, Idle
    <2> QED BY <1>1, <2>1, <2>2, SuccessOut
  <1> QED BY <1>2, <1>3

LEMMA SuccessCancel == ASSUME TypeOK, SuccessInv, Cancel PROVE SuccessInv'
  <1>1. /\ RunExists /\ UNCHANGED <<rows, job>> /\ Achieved' = Achieved
        /\ run # "absent" /\ run' # "absent"
        /\ run' = "succeeded" => run = "succeeded"
    BY DEF Cancel, Achieved, RunExists, Verdicts
  <1>2. CASE proc' = proc
    <2>1. CreatedOnce'
      BY <1>1, <1>2 DEF SuccessInv, CreatedOnce
    <2> QED BY <1>1, <1>2, <2>1 DEF SuccessInv, SuccessIsComplete
  <1>3. CASE /\ listener # NoProc
             /\ proc[listener].pc # "creating"
             /\ proc' = [proc EXCEPT ![listener].sig = "set"]
    <2> DEFINE a == [proc[listener] EXCEPT !.sig = "set"]
    <2>1. listener \in Procs
      BY <1>3 DEF TypeOK
    <2>2. proc[listener] \in Activity
      BY <2>1, ProcTypes
    <2>3. a \in Activity /\ Step(listener, a)
      BY <2>2, <1>3, Forms DEF Step
    <2>4. /\ a.pc = proc[listener].pc /\ a.left = proc[listener].left
          /\ a.skip = proc[listener].skip /\ a.verdict = proc[listener].verdict
      BY <2>2 DEF Activity
    <2> HIDE DEF a
    <2>5. Passed(a, Achieved')
      BY <1>1, <2>1, <2>4 DEF SuccessInv, Passed
    <2> QED BY <1>1, <1>3, <2>1, <2>3, <2>4, <2>5, SuccessAfter
  <1> QED BY <1>2, <1>3 DEF Cancel

LEMMA SuccessDelete == ASSUME TypeOK, SuccessInv, Delete PROVE SuccessInv'
  <1>1. run # "absent" /\ run' = "deleted" /\ UNCHANGED proc
    BY DEF Delete, RunExists, Verdicts
  <1>2. job.st # "absent" /\ \A q \in Procs : proc[q].pc # "creating"
    BY <1>1 DEF SuccessInv, CreatedOnce
  <1>3. job'.st # "absent"
    BY <1>2 DEF Delete, Moved
  <1>4. CreatedOnce' /\ ~RunExists' /\ SuccessIsComplete'
    BY <1>1, <1>2, <1>3
       DEF CreatedOnce, RunExists, Verdicts, SuccessIsComplete
  <1> QED BY <1>4 DEF SuccessInv

LEMMA SuccessFault ==
    ASSUME TypeOK, SuccessInv, NEW p \in Procs, StepErrs(p) \/ Crash(p)
    PROVE  SuccessInv'
  <1>1. UNCHANGED <<run, job>> /\ Abandon(p)
    BY DEF StepErrs, Crash
  <1>2. Achieved \subseteq Achieved'
    BY <1>1, AchievedGrows
  <1>3. CASE StepErrs(p)
    <2>1. Raise(p)
      BY <1>3 DEF StepErrs
    <2> QED BY <1>1, <1>2, <2>1, Raised, SuccessOut
  <1>4. CASE Crash(p)
    <2>1. Idle \in Activity /\ Idle.pc = "idle" /\ Step(p, Idle)
      BY <1>4, FreshForms DEF Crash, Idle
    <2> QED BY <1>1, <1>2, <2>1, SuccessOut
  <1> QED BY <1>3, <1>4

LEMMA SuccessProceed ==
    ASSUME TypeOK, SuccessInv, NEW p \in Procs, Proceed(p) PROVE SuccessInv'
  <1>1. CASE InsertRun(p) BY <1>1, SuccessInsertRun
  <1>2. CASE Load(p) BY <1>2, SuccessLoad
  <1>3. CASE LoopCancelled(p) \/ LoopDone(p) \/ NodeFails(p)
    BY <1>3, SuccessDecision
  <1>4. CASE LoopNext(p) BY <1>4, SuccessLoopNext
  <1>5. CASE NodeSucceeds(p) BY <1>5, SuccessNode
  <1>6. CASE Gather(p) BY <1>6, SuccessGather
  <1>7. CASE Insert(p) BY <1>7, SuccessInsert
  <1>8. CASE Check(p) BY <1>8, SuccessCheck
  <1>9. CASE Finalize(p) BY <1>9, SuccessFinalize
  <1>10. CASE Settle(p) \/ MarkJobFailed(p) BY <1>10, SuccessSettle
  <1> QED BY <1>1, <1>2, <1>3, <1>4, <1>5, <1>6, <1>7, <1>8, <1>9, <1>10
          DEF Proceed

LEMMA SuccessStep ==
    ASSUME TypeOK, SuccessInv, [Next]_vars PROVE SuccessInv'
  <1>1. CASE UNCHANGED vars
    <2>1. UNCHANGED <<run, rows, job, proc>>
      BY <1>1 DEF vars
    <2>2. Achieved' = Achieved /\ RunExists' = RunExists
      BY <2>1 DEF Achieved, RunExists
    <2>3. CreatedOnce'
      BY <2>1 DEF SuccessInv, CreatedOnce
    <2> QED BY <2>1, <2>2, <2>3 DEF SuccessInv, SuccessIsComplete
  <1>2. CASE Next
    <2>1. CASE \E c \in Callers : AcceptJob(c) BY <2>1, SuccessAccept
    <2>2. CASE \E c \in Callers : ResumeCall(c) BY <2>2, SuccessResume
    <2>3. CASE \E c \in Callers, n \in Nodes : RetryCall(c, n)
      BY <2>3, SuccessRetry
    <2>4. CASE \E w \in Workers : Take(w) BY <2>4, SuccessTake
    <2>5. CASE \E w \in Workers : MarkJobFailedErrs(w)
      BY <2>5, SuccessSettle DEF Procs
    <2>6. CASE \E p \in Procs : Proceed(p) BY <2>6, SuccessProceed
    <2>7. CASE \E p \in Procs : StepErrs(p) \/ Crash(p) BY <2>7, SuccessFault
    <2>8. CASE Requeue \/ RequeueLive \/ CancelJobReads \/ CancelJob BY <2>8, SuccessJob
    <2>9. CASE Cancel BY <2>9, SuccessCancel
    <2>10. CASE Delete BY <2>10, SuccessDelete
    <2> QED BY <1>2, NextForms, <2>1, <2>2, <2>3, <2>4, <2>5, <2>6, <2>7,
               <2>8, <2>9, <2>10
  <1> QED BY <1>1, <1>2

LEMMA InitSuccess == ASSUME Init PROVE SuccessInv
  <1>1. /\ run = "absent"
        /\ \A p \in Procs : proc[p].pc = "idle"
    BY DEF Init, Idle
  <1> QED
    BY <1>1 DEF SuccessInv, CreatedOnce, SuccessIsComplete, RunExists, Verdicts

\* A run that reads "succeeded" has a succeeded execution of every node,
\* however its executions, resumes, retries, crashes and redeliveries mix.
THEOREM FlowSuccess == Spec => []SuccessIsComplete
  <1>1. Init => TypeOK /\ SuccessInv
    BY FlowAssumption, InitTypes, InitSuccess
  <1>2. TypeOK /\ SuccessInv /\ [Next]_vars => TypeOK' /\ SuccessInv'
    BY FlowAssumption, TypeStep, SuccessStep
  <1>3. SuccessInv => SuccessIsComplete
    BY DEF SuccessInv
  <1> QED BY <1>1, <1>2, <1>3, PTL DEF Spec

-----------------------------------------------------------------------------
(* A node that is started by execute or resume finds its inputs.           *)

\* OrderInv for one activity.
Ordered(act) ==
    /\ act.pc = "node" /\ act.kind # "retry" => IsFirst(act.left, act.node)
    /\ act.pc \in {"gather", "insert"} => act.kind = "retry"

LEMMA OrderAfter ==
    ASSUME TypeOK, OrderInv, NEW p \in Procs, NEW a \in Activity, Step(p, a),
           Ordered(a)
    PROVE  OrderInv'
  <1>1. proc'[p] = a /\ \A q \in Procs \ {p} : proc'[q] = proc[q]
    BY Updated DEF TypeOK
  <1> QED BY <1>1 DEF OrderInv, Ordered

LEMMA OrderOut ==
    ASSUME TypeOK, OrderInv, NEW p \in Procs, NEW a \in Activity, Step(p, a),
           a.pc \notin {"gather", "insert", "node"}
    PROVE  OrderInv'
  BY OrderAfter DEF Ordered

\* The steps after which p is at no node.
LEMMA OrderLeave ==
    ASSUME TypeOK, OrderInv, NEW p \in Procs,
           \/ InsertRun(p) \/ Load(p) \/ LoopCancelled(p) \/ LoopDone(p)
           \/ NodeSucceeds(p) \/ NodeFails(p) \/ Check(p) \/ Finalize(p)
           \/ Settle(p) \/ MarkJobFailed(p) \/ StepErrs(p) \/ Crash(p)
           \/ p \in Workers /\ MarkJobFailedErrs(p)
    PROVE  OrderInv'
  <1>1. proc[p] \in Activity /\ (AtNode(proc[p]) => proc[p].node \in Nodes)
        /\ Achieved \in SUBSET Nodes
    BY ProcTypes
  <1>2. ASSUME NEW a \in Activity, Step(p, a),
               a.pc \notin {"gather", "insert", "node"}
        PROVE  OrderInv'
    BY <1>2, OrderOut
  <1>3. CASE Step(p, Idle)
    BY <1>3, <1>2, FreshForms DEF Idle
  <1>4. CASE Raise(p)
    BY <1>4, <1>2, Raised
  <1>5. CASE \E v \in Verdicts : Decide(p, v)
    <2>1. PICK v \in Verdicts : Decide(p, v)
      BY <1>5
    <2> DEFINE a == [proc[p] EXCEPT !.pc = "final", !.verdict = v]
    <2>2. a \in Activity /\ Step(p, a)
      BY <1>1, <2>1, Forms DEF Decide
    <2>3. a.pc = "final"
      BY <1>1 DEF Activity
    <2> HIDE DEF a
    <2> QED BY <1>2, <2>2, <2>3
  <1>6. CASE \E s \in {"check", "settle"} : Goto(p, s)
    <2>1. PICK s \in {"check", "settle"} : Goto(p, s)
      BY <1>6
    <2> DEFINE a == [proc[p] EXCEPT !.pc = s]
    <2>2. a \in Activity /\ Step(p, a)
      BY <1>1, <2>1, Forms DEF Goto, Stages
    <2>3. a.pc = s
      BY <1>1 DEF Activity
    <2> HIDE DEF a
    <2> QED BY <1>2, <2>2, <2>3
  <1>7. CASE Load(p) /\ RunExists
    <2> DEFINE S == IF proc[p].kind = "resume" THEN Achieved ELSE {}
               a == [proc[p] EXCEPT !.pc = "loop", !.left = Nodes,
                                    !.sig = "clear", !.skip = S]
    <2>1. S \in SUBSET Nodes
      BY <1>1
    <2>2. a \in Activity
      BY <1>1, <2>1, Forms
    <2>3. a.pc = "loop"
      BY <1>1 DEF Activity
    <2>4. Step(p, a)
      BY <1>7 DEF Load
    <2> HIDE DEF a
    <2> QED BY <1>2, <2>2, <2>3, <2>4
  <1>8. CASE NodeSucceeds(p) /\ proc[p].kind # "retry"
    <2> DEFINE a == [proc[p] EXCEPT !.pc = "loop", !.node = NoProc,
                                    !.left = @ \ {proc[p].node}]
    <2>1. proc[p].node \in Nodes
      BY <1>1, <1>8 DEF NodeSucceeds, AtNode
    <2>2. a \in Activity
      BY <1>1, <2>1, Forms
    <2>3. a.pc = "loop"
      BY <1>1 DEF Activity
    <2>4. Step(p, a)
      BY <1>8 DEF NodeSucceeds
    <2> HIDE DEF a
    <2> QED BY <1>2, <2>2, <2>3, <2>4
  <1>9. CASE Step(p, Began("resume"))
    <2>1. Began("resume") \in Activity /\ Began("resume").pc = "load"
      BY FreshForms DEF Began, Idle
    <2> QED BY <1>2, <1>9, <2>1
  <1>10. CASE InsertRun(p) BY <1>10, <1>3 DEF InsertRun
  <1>11. CASE Load(p) BY <1>11, <1>4, <1>7 DEF Load
  <1>12. CASE LoopCancelled(p) \/ LoopDone(p) \/ NodeFails(p)
    BY <1>12, <1>5 DEF LoopCancelled, LoopDone, NodeFails, Verdicts
  <1>13. CASE NodeSucceeds(p) BY <1>13, <1>6, <1>8 DEF NodeSucceeds
  <1>14. CASE Check(p) BY <1>14, <1>5, <1>9 DEF Check, Verdicts
  <1>15. CASE Finalize(p) BY <1>15, <1>6 DEF Finalize
  <1>16. CASE Settle(p) \/ MarkJobFailed(p) \/ MarkJobFailedErrs(p)
    BY <1>16, <1>3 DEF Settle, MarkJobFailed, MarkJobFailedErrs
  <1>17. CASE StepErrs(p) BY <1>17, <1>4 DEF StepErrs
  <1>18. CASE Crash(p) BY <1>18, <1>3 DEF Crash
  <1> QED BY <1>10, <1>11, <1>12, <1>13, <1>14, <1>15, <1>16, <1>17, <1>18

LEMMA OrderLoopNext ==
    ASSUME TypeOK, OrderInv, NEW p \in Procs, LoopNext(p) PROVE OrderInv'
  <1>1. PICK n \in Nodes :
          /\ IsFirst(proc[p].left, n)
          /\ IF n \in proc[p].skip
             THEN Step(p, [proc[p] EXCEPT !.left = @ \ {n}])
             ELSE IF RunExists
                  THEN Step(p, [proc[p] EXCEPT !.pc = "node", !.node = n])
                  ELSE Raise(p)
    BY DEF LoopNext
  <1>2. proc[p] \in Activity /\ proc[p].pc = "loop"
    BY ProcTypes DEF LoopNext
  <1>3. CASE n \in proc[p].skip
    <2> DEFINE a == [proc[p] EXCEPT !.left = @ \ {n}]
    <2>1. a \in Activity /\ Step(p, a)
      BY <1>1, <1>2, <1>3, Forms
    <2>2. a.pc = "loop"
      BY <1>2 DEF Activity
    <2> HIDE DEF a
    <2> QED BY <2>1, <2>2, OrderOut
  <1>4. CASE n \notin proc[p].skip /\ RunExists
    <2> DEFINE a == [proc[p] EXCEPT !.pc = "node", !.node = n]
    <2>1. a \in Activity /\ Step(p, a)
      BY <1>1, <1>2, <1>4, Forms
    <2>2. a.pc = "node" /\ a.left = proc[p].left /\ a.node = n
      BY <1>2 DEF Activity
    <2> HIDE DEF a
    <2>3. Ordered(a)
      BY <1>1, <2>2 DEF Ordered
    <2> QED BY <2>1, <2>3, OrderAfter
  <1>5. CASE n \notin proc[p].skip /\ ~RunExists
    BY <1>1, <1>5, Raised, OrderOut
  <1> QED BY <1>3, <1>4, <1>5

LEMMA OrderGather ==
    ASSUME TypeOK, OrderInv, NEW p \in Procs, Gather(p) PROVE OrderInv'
  <1> DEFINE a == [proc[p] EXCEPT !.pc = "insert", !.left = Nodes,
                                  !.skip = Achieved]
  <1>1. proc[p] \in Activity /\ Achieved \in SUBSET Nodes
    BY ProcTypes
  <1>2. a \in Activity
    BY <1>1, Forms
  <1>3. Step(p, a) /\ proc[p].kind = "retry"
    BY DEF Gather, OrderInv
  <1>4. a.pc = "insert" /\ a.kind = proc[p].kind
    BY <1>1 DEF Activity
  <1> HIDE DEF a
  <1>5. Ordered(a)
    BY <1>3, <1>4 DEF Ordered
  <1> QED BY <1>2, <1>3, <1>5, OrderAfter

LEMMA OrderInsert ==
    ASSUME TypeOK, OrderInv, NEW p \in Procs, Insert(p) PROVE OrderInv'
  <1>1. proc[p] \in Activity /\ proc[p].pc = "insert" /\ proc[p].kind = "retry"
    BY ProcTypes DEF Insert, OrderInv
  <1>2. CASE RunExists
    <2> DEFINE a == [proc[p] EXCEPT !.pc = "node"]
    <2>1. a \in Activity /\ Step(p, a)
      BY <1>1, <1>2, Forms DEF Insert, Goto, Stages
    <2>2. a.pc = "node" /\ a.kind = proc[p].kind
      BY <1>1 DEF Activity
    <2> HIDE DEF a
    <2>3. Ordered(a)
      BY <1>1, <2>2 DEF Ordered
    <2> QED BY <2>1, <2>3, OrderAfter
  <1>3. CASE ~RunExists
    BY <1>3, Raised, OrderOut DEF Insert
  <1> QED BY <1>2, <1>3

LEMMA OrderCall ==
    ASSUME TypeOK, OrderInv, NEW c \in Procs,
           \/ AcceptJob(c) \/ ResumeCall(c) \/ Take(c)
           \/ \E n \in Nodes : RetryCall(c, n)
    PROVE  OrderInv'
  <1>1. CASE AcceptJob(c)
    <2> DEFINE a == [Idle EXCEPT !.pc = "creating"]
    <2>1. a \in Activity /\ Step(c, a) /\ a.pc = "creating"
      BY <1>1, FreshForms DEF AcceptJob, Idle
    <2> HIDE DEF a
    <2> QED BY <2>1, OrderOut
  <1>2. CASE ResumeCall(c) \/ Take(c)
    <2>1. \E k \in {"execute", "resume"} :
            /\ Began(k) \in Activity /\ Step(c, Began(k))
            /\ Began(k).pc = "load"
      BY <1>2, FreshForms DEF ResumeCall, Take, Began, Idle
    <2> QED BY <2>1, OrderOut
  <1>3. ASSUME NEW n \in Nodes, RetryCall(c, n) PROVE OrderInv'
    <2> DEFINE a == [Began("retry") EXCEPT !.pc = "gather", !.node = n]
    <2>1. a \in Activity /\ Step(c, a)
      BY <1>3, FreshForms DEF RetryCall
    <2>2. a.pc = "gather" /\ a.kind = "retry"
      BY DEF Began, Idle
    <2> HIDE DEF a
    <2>3. Ordered(a)
      BY <2>2 DEF Ordered
    <2> QED BY <2>1, <2>3, OrderAfter
  <1> QED BY <1>1, <1>2, <1>3

LEMMA OrderCancel == ASSUME TypeOK, OrderInv, Cancel PROVE OrderInv'
  <1>1. CASE proc' = proc
    BY <1>1 DEF OrderInv
  <1>2. CASE /\ listener # NoProc
             /\ proc' = [proc EXCEPT ![listener].sig = "set"]
    <2> DEFINE a == [proc[listener] EXCEPT !.sig = "set"]
    <2>1. listener \in Procs
      BY <1>2 DEF TypeOK
    <2>2. proc[listener] \in Activity
      BY <2>1, ProcTypes
    <2>3. a \in Activity /\ Step(listener, a)
      BY <2>2, <1>2, Forms DEF Step
    <2>4. /\ a.pc = proc[listener].pc /\ a.kind = proc[listener].kind
          /\ a.left = proc[listener].left /\ a.node = proc[listener].node
      BY <2>2 DEF Activity
    <2> HIDE DEF a
    <2>5. Ordered(a)
      BY <2>1, <2>4 DEF Ordered, OrderInv
    <2> QED BY <2>1, <2>3, <2>5, OrderAfter
  <1> QED BY <1>1, <1>2 DEF Cancel

LEMMA OrderStep ==
    ASSUME TypeOK, OrderInv, [Next]_vars PROVE OrderInv'
  <1>1. CASE UNCHANGED proc
    BY <1>1 DEF OrderInv
  <1>2. CASE Next
    <2>1. CASE \/ \E c \in Callers : AcceptJob(c)
               \/ \E c \in Callers : ResumeCall(c)
               \/ \E c \in Callers, n \in Nodes : RetryCall(c, n)
               \/ \E w \in Workers : Take(w)
      BY <2>1, OrderCall DEF Procs
    <2>2. CASE \E w \in Workers : MarkJobFailedErrs(w)
      BY <2>2, OrderLeave DEF Procs
    <2>3. ASSUME NEW p \in Procs, Proceed(p) PROVE OrderInv'
      BY <2>3, OrderLeave, OrderLoopNext, OrderGather, OrderInsert DEF Proceed
    <2>4. CASE \E p \in Procs : StepErrs(p) \/ Crash(p)
      BY <2>4, OrderLeave
    <2>5. CASE Requeue \/ RequeueLive \/ CancelJobReads \/ CancelJob \/ Delete
      BY <2>5, <1>1 DEF Requeue, RequeueLive, CancelJobReads, CancelJob, Delete
    <2>6. CASE Cancel BY <2>6, OrderCancel
    <2> QED BY <1>2, NextForms, <2>1, <2>2, <2>3, <2>4, <2>5, <2>6
  <1> QED BY <1>1, <1>2 DEF vars

\* The first node of the order that is left has no predecessor left.
LEMMA OrderSuffices ==
    ASSUME FlowAssumption, TypeOK, OrderInv PROVE InputsResolved
  <1> SUFFICES ASSUME NEW p \in Procs,
                      proc[p].pc = "node", proc[p].kind # "retry",
                      NEW m \in Binds[proc[p].node],
                      <<m, proc[p].node>> \in Edges
               PROVE  m \in Outputs(p)
    BY DEF InputsResolved
  <1>1. IsFirst(proc[p].left, proc[p].node) /\ proc[p].node \in Nodes
    BY DEF OrderInv, TypeOK, AtNode
  <1>2. m \in Nodes /\ Rank[m] < Rank[proc[p].node]
    BY DEF FlowAssumption, IsOrder
  <1>3. Rank[m] \in Nat /\ Rank[proc[p].node] \in Nat
    BY <1>1, <1>2 DEF FlowAssumption, IsOrder
  <1>4. m \notin proc[p].left
    BY <1>1, <1>2, <1>3 DEF IsFirst
  <1> QED BY <1>2, <1>4 DEF Outputs

\* A loop that follows topological_sort's order never starts a node before
\* the nodes an edge puts ahead of it, whatever it was resumed with.
THEOREM FlowInputs == Spec => []InputsResolved
  <1>1. Init => TypeOK /\ OrderInv
    <2>1. Init => \A p \in Procs : proc[p].pc = "idle"
      BY DEF Init, Idle
    <2> QED BY <2>1, FlowAssumption, InitTypes DEF OrderInv
  <1>2. TypeOK /\ OrderInv /\ [Next]_vars => TypeOK' /\ OrderInv'
    BY FlowAssumption, TypeStep, OrderStep
  <1>3. TypeOK /\ OrderInv => InputsResolved
    BY FlowAssumption, OrderSuffices
  <1> QED BY <1>1, <1>2, <1>3, PTL DEF Spec

-----------------------------------------------------------------------------
(* A run that is running has somebody to finish it, or a fault to blame.   *)

Faulted == used["error"] + used["drop"] + used["kill"] > 0

\* Fault counts are numbers, and only grow.
LEMMA FaultedStays ==
    ASSUME TypeOK, \/ UNCHANGED used
                   \/ \E k \in FaultKinds : Spend(k)
    PROVE  Faulted => Faulted'
  <1>1. \A k \in FaultKinds : used[k] \in Nat
    BY DEF TypeOK
  <1>2. \A k \in FaultKinds : used'[k] \in Nat /\ used'[k] >= used[k]
    <2>1. CASE UNCHANGED used BY <2>1, <1>1
    <2>2. CASE \E k \in FaultKinds : Spend(k)
      BY <2>2, Spent DEF TypeOK
    <2> QED BY <2>1, <2>2
  <1> QED BY <1>1, <1>2 DEF Faulted, FaultKinds

\* Blame after a fault other than a stall or a cancelled job.
LEMMA FaultedNow ==
    ASSUME TypeOK, NEW k \in {"error", "drop", "kill"}, Spend(k)
    PROVE  Faulted'
  <1>1. \A f \in FaultKinds : used[f] \in Nat /\ used'[f] \in Nat
    BY Spent DEF TypeOK, FaultKinds
  <1>2. used'[k] > 0
    BY Spent DEF TypeOK, FaultKinds
  <1> QED BY <1>1, <1>2 DEF Faulted, FaultKinds

LEMMA AttendedAfter ==
    ASSUME TypeOK, AttendedInv, NEW p \in Procs, NEW a \in Activity,
           Step(p, a), Faulted => Faulted',
           Engaged(proc[p]) => Engaged(a) \/ run' # "running" \/ Faulted',
           run' = "running" => run = "running" \/ Engaged(a)
    PROVE  AttendedInv'
  <1> SUFFICES ASSUME run' = "running", ~Faulted'
               PROVE  \E q \in Procs : Engaged(proc'[q])
    BY DEF AttendedInv, Faulted
  <1>1. proc'[p] = a /\ \A q \in Procs \ {p} : proc'[q] = proc[q]
    BY Updated DEF TypeOK
  <1>2. CASE Engaged(a)
    BY <1>1, <1>2
  <1>3. CASE ~Engaged(a)
    <2>1. PICK q \in Procs : Engaged(proc[q])
      BY <1>3 DEF AttendedInv, Faulted
    <2>2. q # p
      BY <1>3, <2>1
    <2> QED BY <1>1, <2>1, <2>2
  <1> QED BY <1>2, <1>3

\* Steps of a process that was not executing anything.
LEMMA AttendedIdle ==
    ASSUME TypeOK, AttendedInv, NEW p \in Procs, ~Engaged(proc[p]),
           NEW a \in Activity, Step(p, a), Faulted => Faulted',
           run' = "running" => run = "running"
    PROVE  AttendedInv'
  BY AttendedAfter

\* Steps of a run that is not running.
LEMMA AttendedEnd ==
    ASSUME TypeOK, AttendedInv, run' # "running"
    PROVE  AttendedInv'
  BY DEF AttendedInv

LEMMA AttendedCall ==
    ASSUME TypeOK, AttendedInv, NEW c \in Procs,
           \/ AcceptJob(c) \/ ResumeCall(c) \/ Take(c)
           \/ \E n \in Nodes : RetryCall(c, n)
    PROVE  AttendedInv'
  <1>1. Faulted => Faulted'
    BY FaultedStays DEF AcceptJob, ResumeCall, Take, RetryCall
  <1>2. ~Engaged(proc[c])
    BY DEF AcceptJob, ResumeCall, Take, RetryCall, Engaged
  <1>3. CASE AcceptJob(c)
    <2> DEFINE a == [Idle EXCEPT !.pc = "creating"]
    <2>1. a \in Activity /\ Step(c, a) /\ UNCHANGED run
      BY <1>3, FreshForms DEF AcceptJob
    <2> HIDE DEF a
    <2> QED BY <1>1, <1>2, <2>1, AttendedIdle
  <1>4. CASE ResumeCall(c) \/ Take(c)
    <2>1. \E k \in {"execute", "resume"} :
            Began(k) \in Activity /\ Step(c, Began(k)) /\ UNCHANGED run
      BY <1>4, FreshForms DEF ResumeCall, Take
    <2> QED BY <1>1, <1>2, <2>1, AttendedIdle
  <1>5. ASSUME NEW n \in Nodes, RetryCall(c, n) PROVE AttendedInv'
    <2> DEFINE a == [Began("retry") EXCEPT !.pc = "gather", !.node = n]
    <2>1. a \in Activity /\ Step(c, a)
      BY <1>5, FreshForms DEF RetryCall
    <2>2. a.pc = "gather"
      BY DEF Began, Idle
    <2> HIDE DEF a
    <2>3. Engaged(a)
      BY <2>2 DEF Engaged
    <2> QED BY <1>1, <1>2, <2>1, <2>3, AttendedAfter
  <1> QED BY <1>3, <1>4, <1>5

LEMMA AttendedLoad ==
    ASSUME TypeOK, AttendedInv, NEW p \in Procs, Load(p) PROVE AttendedInv'
  <1>1. CASE RunExists
    <2> DEFINE S == IF proc[p].kind = "resume" THEN Achieved ELSE {}
               a == [proc[p] EXCEPT !.pc = "loop", !.left = Nodes,
                                    !.sig = "clear", !.skip = S]
    <2>1. proc[p] \in Activity /\ S \in SUBSET Nodes
      BY ProcTypes
    <2>2. a \in Activity
      BY <2>1, Forms
    <2>3. a.pc = "loop"
      BY <2>1 DEF Activity
    <2>4. Step(p, a) /\ (Faulted => Faulted')
      BY <1>1, FaultedStays DEF Load
    <2> HIDE DEF a
    <2>5. Engaged(a)
      BY <2>3 DEF Engaged
    <2> QED BY <2>2, <2>4, <2>5, AttendedAfter
  <1>2. CASE ~RunExists
    BY <1>2, AttendedEnd DEF Load, RunExists
  <1> QED BY <1>1, <1>2

\* Steps of an engaged process that leave it engaged, or a run that is gone.
LEMMA AttendedGoto ==
    ASSUME TypeOK, AttendedInv, NEW p \in Procs,
           \/ LoopCancelled(p) \/ LoopNext(p) \/ LoopDone(p) \/ NodeSucceeds(p)
           \/ NodeFails(p) \/ Gather(p) \/ Insert(p) \/ Check(p)
    PROVE  AttendedInv'
  <1>1. proc[p] \in Activity /\ (AtNode(proc[p]) => proc[p].node \in Nodes)
        /\ Achieved \in SUBSET Nodes
    BY ProcTypes
  <1>2. (Faulted => Faulted') /\ UNCHANGED run
    BY FaultedStays DEF LoopCancelled, LoopNext, LoopDone, NodeSucceeds,
                        NodeFails, Gather, Insert, Check
  <1>3. ASSUME NEW a \in Activity, Step(p, a), Engaged(a) PROVE AttendedInv'
    BY <1>2, <1>3, AttendedAfter
  <1>4. CASE ~RunExists /\ Raise(p)
    BY <1>2, <1>4, AttendedEnd DEF RunExists
  <1>5. CASE \E v \in Verdicts : Decide(p, v)
    <2>1. PICK v \in Verdicts : Decide(p, v)
      BY <1>5
    <2> DEFINE a == [proc[p] EXCEPT !.pc = "final", !.verdict = v]
    <2>2. a \in Activity /\ Step(p, a)
      BY <1>1, <2>1, Forms DEF Decide
    <2>3. a.pc = "final"
      BY <1>1 DEF Activity
    <2> HIDE DEF a
    <2>4. Engaged(a)
      BY <2>3 DEF Engaged
    <2> QED BY <1>3, <2>2, <2>4
  <1>6. CASE \E s \in {"check", "node"} : Goto(p, s)
    <2>1. PICK s \in {"check", "node"} : Goto(p, s)
      BY <1>6
    <2> DEFINE a == [proc[p] EXCEPT !.pc = s]
    <2>2. a \in Activity /\ Step(p, a)
      BY <1>1, <2>1, Forms DEF Goto, Stages
    <2>3. a.pc = s
      BY <1>1 DEF Activity
    <2> HIDE DEF a
    <2>4. Engaged(a)
      BY <2>3 DEF Engaged
    <2> QED BY <1>3, <2>2, <2>4
  <1>7. CASE LoopCancelled(p) \/ LoopDone(p) \/ NodeFails(p)
    BY <1>7, <1>5 DEF LoopCancelled, LoopDone, NodeFails, Verdicts
  <1>8. CASE LoopNext(p)
    <2>1. PICK n \in Nodes :
            IF n \in proc[p].skip
            THEN Step(p, [proc[p] EXCEPT !.left = @ \ {n}])
            ELSE IF RunExists
                 THEN Step(p, [proc[p] EXCEPT !.pc = "node", !.node = n])
                 ELSE Raise(p)
      BY <1>8 DEF LoopNext
    <2>2. CASE n \in proc[p].skip
      <3> DEFINE a == [proc[p] EXCEPT !.left = @ \ {n}]
      <3>1. a \in Activity /\ Step(p, a)
        BY <1>1, <2>1, <2>2, Forms
      <3>2. a.pc = "loop"
        BY <1>1, <1>8 DEF Activity, LoopNext
      <3> HIDE DEF a
      <3>3. Engaged(a)
        BY <3>2 DEF Engaged
      <3> QED BY <1>3, <3>1, <3>3
    <2>3. CASE n \notin proc[p].skip /\ RunExists
      <3> DEFINE a == [proc[p] EXCEPT !.pc = "node", !.node = n]
      <3>1. a \in Activity /\ Step(p, a)
        BY <1>1, <2>1, <2>3, Forms
      <3>2. a.pc = "node"
        BY <1>1 DEF Activity
      <3> HIDE DEF a
      <3>3. Engaged(a)
        BY <3>2 DEF Engaged
      <3> QED BY <1>3, <3>1, <3>3
    <2>4. CASE n \notin proc[p].skip /\ ~RunExists
      BY <2>1, <2>4, <1>4
    <2> QED BY <2>2, <2>3, <2>4
  <1>9. CASE NodeSucceeds(p) /\ proc[p].kind # "retry"
    <2> DEFINE a == [proc[p] EXCEPT !.pc = "loop", !.node = NoProc,
                                    !.left = @ \ {proc[p].node}]
    <2>1. proc[p].node \in Nodes
      BY <1>1, <1>9 DEF NodeSucceeds, AtNode
    <2>2. a \in Activity
      BY <1>1, <2>1, Forms
    <2>3. a.pc = "loop"
      BY <1>1 DEF Activity
    <2>4. Step(p, a)
      BY <1>9 DEF NodeSucceeds
    <2> HIDE DEF a
    <2>5. Engaged(a)
      BY <2>3 DEF Engaged
    <2> QED BY <1>3, <2>2, <2>4, <2>5
  <1>10. CASE NodeSucceeds(p) /\ proc[p].kind = "retry"
    BY <1>10, <1>6 DEF NodeSucceeds
  <1>11. CASE Gather(p)
    <2> DEFINE a == [proc[p] EXCEPT !.pc = "insert", !.left = Nodes,
                                    !.skip = Achieved]
    <2>1. a \in Activity
      BY <1>1, Forms
    <2>2. a.pc = "insert"
      BY <1>1 DEF Activity
    <2>3. Step(p, a)
      BY <1>11 DEF Gather
    <2> HIDE DEF a
    <2>4. Engaged(a)
      BY <2>2 DEF Engaged
    <2> QED BY <1>3, <2>1, <2>3, <2>4
  <1>12. CASE Insert(p) BY <1>12, <1>4, <1>6 DEF Insert
  <1>13. CASE Check(p)
    <2>1. /\ Began("resume") \in Activity
          /\ Began("resume").pc = "load" /\ Began("resume").kind = "resume"
      BY FreshForms DEF Began, Idle
    <2>2. Engaged(Began("resume"))
      BY <2>1 DEF Engaged
    <2> QED BY <1>13, <1>3, <1>5, <2>1, <2>2 DEF Check, Verdicts
  <1> QED BY <1>7, <1>8, <1>9, <1>10, <1>11, <1>12, <1>13

\* Steps of a process whose part in the run is over, or not begun.
LEMMA AttendedSettle ==
    ASSUME TypeOK, AttendedInv, NEW p \in Procs,
           \/ InsertRun(p) \/ Finalize(p) \/ Settle(p) \/ MarkJobFailed(p)
           \/ p \in Workers /\ MarkJobFailedErrs(p)
    PROVE  AttendedInv'
  <1>1. CASE Finalize(p)
    BY <1>1, ProcTypes, AttendedEnd DEF Finalize, RunExists, Verdicts
  <1>2. CASE InsertRun(p)
    BY <1>2, AttendedEnd DEF InsertRun
  <1>3. CASE Settle(p) \/ MarkJobFailed(p) \/ MarkJobFailedErrs(p)
    <2>1. Idle \in Activity /\ Step(p, Idle) /\ UNCHANGED run
      BY <1>3, FreshForms DEF Settle, MarkJobFailed, MarkJobFailedErrs
    <2>2. ~Engaged(proc[p])
      BY <1>3 DEF Engaged, Settle, MarkJobFailed, MarkJobFailedErrs
    <2>3. Faulted => Faulted'
      BY <1>3, FaultedStays DEF Settle, MarkJobFailed, MarkJobFailedErrs,
                                FaultKinds
    <2> QED BY <2>1, <2>2, <2>3, AttendedIdle
  <1> QED BY <1>1, <1>2, <1>3

LEMMA AttendedFault ==
    ASSUME TypeOK, AttendedInv, NEW p \in Procs, StepErrs(p) \/ Crash(p)
    PROVE  AttendedInv'
  <1>1. PICK k \in {"error", "drop", "kill"} : Spend(k)
    BY DEF StepErrs, Crash
  <1>2. Faulted'
    BY <1>1, FaultedNow
  <1> QED BY <1>2 DEF AttendedInv, Faulted

LEMMA AttendedCancel == ASSUME TypeOK, AttendedInv, Cancel PROVE AttendedInv'
  BY AttendedEnd DEF Cancel

LEMMA AttendedJob ==
    ASSUME TypeOK, AttendedInv, Requeue \/ RequeueLive \/ CancelJobReads \/ CancelJob
    PROVE  AttendedInv'
  <1>1. Faulted => Faulted'
    BY FaultedStays DEF Requeue, RequeueLive, CancelJobReads, CancelJob, FaultKinds
  <1>2. UNCHANGED <<run, proc>>
    BY DEF Requeue, RequeueLive, CancelJobReads, CancelJob
  <1> QED BY <1>1, <1>2 DEF AttendedInv, Faulted

LEMMA AttendedStep ==
    ASSUME TypeOK, AttendedInv, [Next]_vars PROVE AttendedInv'
  <1>1. CASE UNCHANGED vars
    BY <1>1 DEF vars, AttendedInv
  <1>2. CASE Next
    <2>1. CASE \/ \E c \in Callers : AcceptJob(c)
               \/ \E c \in Callers : ResumeCall(c)
               \/ \E c \in Callers, n \in Nodes : RetryCall(c, n)
               \/ \E w \in Workers : Take(w)
      BY <2>1, AttendedCall DEF Procs
    <2>2. CASE \E w \in Workers : MarkJobFailedErrs(w)
      BY <2>2, AttendedSettle DEF Procs
    <2>3. ASSUME NEW p \in Procs, Proceed(p) PROVE AttendedInv'
      BY <2>3, AttendedLoad, AttendedGoto, AttendedSettle DEF Proceed
    <2>4. CASE \E p \in Procs : StepErrs(p) \/ Crash(p)
      BY <2>4, AttendedFault
    <2>5. CASE Requeue \/ RequeueLive \/ CancelJobReads \/ CancelJob
      BY <2>5, AttendedJob
    <2>6. CASE Delete
      BY <2>6, AttendedEnd DEF Delete
    <2>7. CASE Cancel BY <2>7, AttendedCancel
    <2> QED BY <1>2, NextForms, <2>1, <2>2, <2>3, <2>4, <2>5, <2>6, <2>7
  <1> QED BY <1>1, <1>2

\* A run is left "running" with nobody to finish it only by a database error,
\* a request that died or a worker that died: no path of the engine forgets it.
THEOREM FlowAttended == Spec => []RunningIsAttended
  <1>1. Init => TypeOK /\ AttendedInv
    BY FlowAssumption, InitTypes DEF Init, AttendedInv
  <1>2. TypeOK /\ AttendedInv /\ [Next]_vars => TypeOK' /\ AttendedInv'
    BY FlowAssumption, TypeStep, AttendedStep
  <1>3. AttendedInv => RunningIsAttended
    BY DEF AttendedInv, RunningIsAttended, Deserted, Engaged
  <1> QED BY <1>1, <1>2, <1>3, PTL DEF Spec

-----------------------------------------------------------------------------
(* The engine implements FlowVerdict.                                      *)

\* What a step that closes or abandons a row adds.
LEMMA RowsAchieve ==
    ASSUME TypeOK, NEW p \in Procs, NEW s \in {"succeeded", "failed", "lost"},
           proc[p].pc = "node",
           rows' = IF RunExists
                   THEN [rows EXCEPT ![proc[p].node] = @ \cup {s}] ELSE rows,
           UNCHANGED run
    PROVE  [Verdict!Next]_<<run, Achieved>>
  <1>1. proc[p].node \in Nodes
    BY ProcTypes DEF AtNode
  <1>2. CASE RunExists /\ s = "succeeded"
    <2>1. Achieved' = Achieved \cup {proc[p].node}
      BY <1>1, <1>2 DEF Achieved, TypeOK
    <2> QED BY <1>1, <1>2, <2>1
            DEF Verdict!Next, Verdict!Achieve, Verdict!Present, Verdict!Closed,
                RunExists, Verdicts
  <1>3. CASE ~(RunExists /\ s = "succeeded")
    <2>1. Achieved' = Achieved
      BY <1>1, <1>3 DEF Achieved, TypeOK
    <2> QED BY <2>1
  <1> QED BY <1>2, <1>3

\* Steps that leave run and rows alone.
LEMMA VerdictStutters ==
    ASSUME UNCHANGED <<run, rows>>
    PROVE  [Verdict!Next]_<<run, Achieved>>
  BY DEF Achieved

LEMMA VerdictProceed ==
    ASSUME TypeOK, SuccessInv, NEW p \in Procs, Proceed(p)
    PROVE  [Verdict!Next]_<<run, Achieved>>
  <1>1. CASE InsertRun(p)
    <2>1. run = "absent" /\ run' = "pending" /\ Achieved' = Achieved
      BY <1>1 DEF InsertRun, SuccessInv, CreatedOnce, Achieved
    <2> QED BY <2>1 DEF Verdict!Next, Verdict!Create
  <1>2. CASE Load(p)
    <2>1. CASE RunExists
      <3>1. run' = "running" /\ Achieved' = Achieved
        BY <1>2, <2>1 DEF Load, Achieved
      <3> QED BY <2>1, <3>1 DEF Verdict!Next, Verdict!Start, Verdict!Present,
                                Verdict!Closed, RunExists, Verdicts
    <2>2. CASE ~RunExists
      BY <1>2, <2>2, VerdictStutters DEF Load
    <2> QED BY <2>1, <2>2
  <1>3. CASE NodeSucceeds(p) \/ NodeFails(p)
    BY <1>3, RowsAchieve DEF NodeSucceeds, NodeFails, Record
  <1>4. CASE Finalize(p)
    <2>1. Achieved' = Achieved
      BY <1>4 DEF Finalize, Achieved
    <2>2. CASE RunExists
      <3>1. run' = proc[p].verdict /\ run' \in Verdicts
        BY <1>4, <2>2, ProcTypes DEF Finalize
      <3>2. run' = "succeeded" => Achieved = Nodes
        BY <1>4, <2>2, <3>1 DEF Finalize, SuccessInv, Passed, Achieved
      <3> QED BY <2>1, <2>2, <3>1, <3>2
              DEF Verdict!Next, Verdict!Close, Verdict!Present, Verdict!Closed,
                  RunExists, Verdicts
    <2>3. CASE ~RunExists
      BY <1>4, <2>1, <2>3 DEF Finalize
    <2> QED BY <2>2, <2>3
  <1>5. CASE \/ LoopCancelled(p) \/ LoopNext(p) \/ LoopDone(p) \/ Gather(p)
             \/ Insert(p) \/ Check(p) \/ Settle(p) \/ MarkJobFailed(p)
    BY <1>5, VerdictStutters DEF LoopCancelled, LoopNext, LoopDone, Gather,
                                 Insert, Check, Settle, MarkJobFailed
  <1> QED BY <1>1, <1>2, <1>3, <1>4, <1>5 DEF Proceed

LEMMA VerdictStep ==
    ASSUME TypeOK, SuccessInv, [Next]_vars
    PROVE  [Verdict!Next]_<<run, Achieved>>
  <1>1. CASE UNCHANGED vars
    BY <1>1, VerdictStutters DEF vars
  <1>2. CASE Next
    <2>1. CASE \/ \E c \in Callers : AcceptJob(c)
               \/ \E c \in Callers : ResumeCall(c)
               \/ \E w \in Workers : Take(w)
               \/ \E w \in Workers : MarkJobFailedErrs(w)
               \/ Requeue \/ RequeueLive \/ CancelJobReads \/ CancelJob
      BY <2>1, VerdictStutters DEF AcceptJob, ResumeCall, Take,
           MarkJobFailedErrs, Requeue, RequeueLive, CancelJobReads, CancelJob
    <2>2. CASE \E c \in Callers, n \in Nodes : RetryCall(c, n)
      <3>1. RunExists /\ run' = "running" /\ Achieved' = Achieved
        BY <2>2 DEF RetryCall, Achieved
      <3> QED BY <3>1 DEF Verdict!Next, Verdict!Start, Verdict!Present,
                          Verdict!Closed, RunExists, Verdicts
    <2>3. CASE \E p \in Procs : Proceed(p) BY <2>3, VerdictProceed
    <2>4. ASSUME NEW p \in Procs, StepErrs(p) \/ Crash(p)
          PROVE  [Verdict!Next]_<<run, Achieved>>
      <3>1. Abandon(p) /\ UNCHANGED run
        BY <2>4 DEF StepErrs, Crash
      <3>2. CASE proc[p].pc = "node"
        BY <3>1, <3>2, RowsAchieve DEF Abandon
      <3>3. CASE proc[p].pc # "node"
        BY <3>1, <3>3, VerdictStutters DEF Abandon
      <3> QED BY <3>2, <3>3
    <2>5. CASE Cancel
      <3>1. RunExists /\ Achieved' = Achieved
            /\ (run' = "cancelled" \/ run' = run)
        BY <2>5 DEF Cancel, Achieved
      <3> QED BY <3>1 DEF Verdict!Next, Verdict!Close, Verdict!Present,
                          Verdict!Closed, RunExists, Verdicts
    <2>6. CASE Delete
      <3>1. RunExists /\ run' = "deleted" /\ Achieved' = {}
        BY <2>6 DEF Delete, Achieved
      <3> QED BY <3>1 DEF Verdict!Next, Verdict!Delete, Verdict!Present,
                          Verdict!Closed, RunExists, Verdicts
    <2> QED BY <1>2, NextForms, <2>1, <2>2, <2>3, <2>4, <2>5, <2>6
  <1> QED BY <1>1, <1>2

\* The engine, with all its processes and faults, keeps the promise of
\* FlowVerdict to whoever reads the run's row.
THEOREM FlowImplementsVerdict == Spec => ImplementsVerdict
  <1>1. Init => TypeOK /\ SuccessInv
    BY FlowAssumption, InitTypes, InitSuccess
  <1>2. TypeOK /\ SuccessInv /\ [Next]_vars => TypeOK' /\ SuccessInv'
    BY FlowAssumption, TypeStep, SuccessStep
  <1>3. Init => Verdict!Init
    BY DEF Init, Verdict!Init, Achieved
  <1>4. TypeOK /\ SuccessInv /\ [Next]_vars => [Verdict!Next]_(Verdict!vars)
    BY VerdictStep DEF Verdict!vars
  <1> QED BY <1>1, <1>2, <1>3, <1>4, PTL
          DEF Spec, ImplementsVerdict, Verdict!Spec

=============================================================================
