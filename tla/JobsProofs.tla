----------------------------- MODULE JobsProofs -----------------------------
(***************************************************************************)
(* Proofs about Jobs for any set of jobs, workers and owner ids, any       *)
(* max_attempts and any fault budget.  The inductive invariant is the type *)
(* invariant together with the three facts about fencing tokens, for the   *)
(* attempt counter what a pending retry knows about its bound, and what a  *)
(* cancel request that has read a version knows about the job.             *)
(***************************************************************************)
EXTENDS Jobs, TLAPS

\* A worker step sees a job when the worker has one.
LEMMA BusyHasJob ==
    ASSUME TypeOK, NEW w \in Workers, work[w].pc # "idle"
    PROVE  /\ work[w].j \in JobIds
           /\ job[work[w].j] \in JobRow
           /\ work[w] \in Execution
  BY DEF TypeOK

\* The rewritings of a row keep it a row.
LEMMA RowTypes ==
    ASSUME NEW row \in JobRow
    PROVE  /\ \A s \in JobStatus : Moved(row, s) \in JobRow
           /\ Unleased(row) \in JobRow
           /\ \A o \in Owners : [row EXCEPT !.owner = o, !.lease = "live"] \in JobRow
           /\ \A l \in {"none", "live", "lapsed"} : [row EXCEPT !.lease = l] \in JobRow
           /\ [row EXCEPT !.backoff = "over"] \in JobRow
           /\ \A s \in JobStatus : [row EXCEPT !.st = s] \in JobRow
           /\ \A n \in Nat : [row EXCEPT !.attempt = n, !.backoff = "waiting"] \in JobRow
  <1>1. \A s \in JobStatus : Moved(row, s) \in JobRow
    <2> SUFFICES ASSUME NEW s \in JobStatus PROVE Moved(row, s) \in JobRow
      OBVIOUS
    <2>1. row.lock + 1 \in Nat
      BY DEF JobRow
    <2> QED
      BY <2>1 DEF JobRow, Moved
  <1>2. Unleased(row) \in JobRow
    BY DEF JobRow, Unleased
  <1>3. \A o \in Owners : [row EXCEPT !.owner = o, !.lease = "live"] \in JobRow
    BY DEF JobRow
  <1>4. \A l \in {"none", "live", "lapsed"} : [row EXCEPT !.lease = l] \in JobRow
    BY DEF JobRow
  <1>5. [row EXCEPT !.backoff = "over"] \in JobRow
    BY DEF JobRow
  <1>6. \A s \in JobStatus : [row EXCEPT !.st = s] \in JobRow
    BY DEF JobRow
  <1>7. \A n \in Nat : [row EXCEPT !.attempt = n, !.backoff = "waiting"] \in JobRow
    BY DEF JobRow
  <1> QED
    BY <1>1, <1>2, <1>3, <1>4, <1>5, <1>6, <1>7

\* A row that a cancel request has read.
LEMMA ReadType ==
    ASSUME NEW row \in JobRow
    PROVE  [row EXCEPT !.cancel = "read"] \in JobRow
  BY DEF JobRow

\* Idle, and every stage an execution is moved to, is a well-typed execution.
LEMMA IdleType == Idle \in Execution
  BY DEF Idle, Execution, Stages, Outcomes

\* Taking a message turns an execution into a fresh one.
LEMMA StartedType ==
    ASSUME NEW j \in JobIds, NEW t \in Nat
    PROVE  /\ Started(j, t) \in Execution
           /\ Started(j, t).j = j
           /\ Started(j, t).pc = "acquired"
           /\ Started(j, t).token = t
  BY DEF Started, Idle, Execution, Stages, Outcomes

\* Initially nothing exists.
LEMMA InitType == Init => TypeOK
  <1> SUFFICES ASSUME Init PROVE TypeOK
    OBVIOUS
  <1>1. job \in [JobIds -> JobRow]
    BY DEF Init, JobRow
  <1>2. /\ work \in [Workers -> Execution]
        /\ \A w \in Workers : work[w].pc = "idle" /\ work[w].j \notin JobIds
    BY IdleType, JobsAssumption DEF Init, Idle
  <1> QED
    BY <1>1, <1>2 DEF Init, TypeOK

\* Every transaction writes well-typed rows, counters and stages.
LEMMA NextType == TypeOK /\ [Next]_vars => TypeOK'
  <1> SUFFICES ASSUME TypeOK, [Next]_vars PROVE TypeOK'
    OBVIOUS
  <1> USE JobsAssumption
  <1>1. ASSUME NEW j \in JobIds, Accept(j) PROVE TypeOK'
    <2>1. [job[j] EXCEPT !.st = "accepted"] \in JobRow
      BY RowTypes DEF TypeOK, JobStatus
    <2>2. job' \in [JobIds -> JobRow]
      BY <1>1, <2>1 DEF TypeOK, Accept
    <2> QED
      BY <1>1, <2>2 DEF TypeOK, Accept
  <1>2. ASSUME NEW j \in JobIds, RequestCancel(j) PROVE TypeOK'
    <2>1. job' \in [JobIds -> JobRow]
      BY <1>2, RowTypes DEF TypeOK, RequestCancel, JobStatus
    <2> QED
      BY <1>2, <2>1 DEF TypeOK, RequestCancel
  <1>21. ASSUME NEW j \in JobIds, CancelReads(j) PROVE TypeOK'
    <2>1. job' \in [JobIds -> JobRow]
      BY <1>21, ReadType DEF TypeOK, CancelReads
    <2> QED
      BY <1>21, <2>1 DEF TypeOK, CancelReads, Spend, FaultKinds
  <1>20. ASSUME NEW j \in JobIds, EngineSettles(j) PROVE TypeOK'
    <2>1. PICK s \in TERMINAL_STATUSES : job' = [job EXCEPT ![j].st = s]
      BY <1>20 DEF EngineSettles
    <2>2. [job[j] EXCEPT !.st = s] \in JobRow
      BY RowTypes DEF TypeOK, JobStatus, TERMINAL_STATUSES
    <2>3. job' \in [JobIds -> JobRow]
      BY <2>1, <2>2 DEF TypeOK
    <2> QED
      BY <1>20, <2>3 DEF TypeOK, EngineSettles
  <1>3. ASSUME NEW j \in JobIds, Dispatch(j) \/ DispatchTwice(j) \/ LoseDelivery(j)
        PROVE TypeOK'
    BY <1>3 DEF TypeOK, Dispatch, DispatchTwice, LoseDelivery, Spend, FaultKinds
  <1>4. ASSUME NEW w \in Workers, NEW j \in JobIds, Acquire(w, j) PROVE TypeOK'
    <2>1. job' \in [JobIds -> JobRow]
      BY <1>4, RowTypes DEF TypeOK, Acquire, JobStatus
    <2>2. job[j].lock + 1 \in Nat
      BY DEF TypeOK, JobRow
    <2>3. Started(j, job[j].lock + 1) \in Execution
      BY <2>2, StartedType
    <2>4. work' \in [Workers -> Execution]
      BY <1>4, <2>3 DEF TypeOK, Acquire
    <2>5. \A v \in Workers : work'[v].pc # "idle" <=> work'[v].j \in JobIds
      BY <1>4, <2>2, StartedType DEF TypeOK, Acquire
    <2> QED
      BY <1>4, <2>1, <2>4, <2>5 DEF TypeOK, Acquire
  <1>5. ASSUME NEW w \in Workers, NEW j \in JobIds, Skip(w, j) PROVE TypeOK'
    BY <1>5 DEF TypeOK, Skip
  <1>6. ASSUME NEW w \in Workers, Load(w) PROVE TypeOK'
    <2>1. job[work[w].j].attempt \in Nat
      BY <1>6, BusyHasJob DEF Load, JobRow
    <2> QED
      <3>0. /\ "releasing" \in Stages \ {"idle"} /\ "running" \in Stages \ {"idle"}
            /\ work[w] \in Execution /\ work[w].pc # "idle"
        BY <1>6 DEF TypeOK, Load, Stages
      <3>1. ASSUME NEW e \in Execution, NEW n \in Nat
            PROVE  /\ [e EXCEPT !.pc = "releasing"] \in Execution
                   /\ [e EXCEPT !.pc = "releasing"].pc = "releasing"
                   /\ [e EXCEPT !.pc = "releasing"].j = e.j
                   /\ [e EXCEPT !.pc = "running", !.att = n] \in Execution
                   /\ [e EXCEPT !.pc = "running", !.att = n].pc = "running"
                   /\ [e EXCEPT !.pc = "running", !.att = n].j = e.j
        BY <3>0 DEF Execution
      <3>2. PICK e \in Execution :
               /\ work' = [work EXCEPT ![w] = e]
               /\ e.pc # "idle" /\ e.j = work[w].j
        <4>1. CASE job[work[w].j].st \in TERMINAL_STATUSES
          BY <1>6, <3>0, <3>1, <4>1 DEF Load
        <4>2. CASE job[work[w].j].st \notin TERMINAL_STATUSES
          <5>1. PICK n \in Nat : n = job[work[w].j].attempt
            BY <2>1
          <5> DEFINE e == [work[w] EXCEPT !.pc = "running", !.att = n]
          <5>2. work' = [work EXCEPT ![w] = e]
            BY <1>6, <4>2, <5>1 DEF Load
          <5>3. e \in Execution /\ e.pc # "idle" /\ e.j = work[w].j
            BY <3>0, <3>1
          <5> QED
            BY <5>2, <5>3
        <4> QED
          BY <4>1, <4>2
      <3>3. UNCHANGED <<job, outbox, msgs, reaping, waking, used>>
        BY <1>6 DEF Load
      <3> QED
        BY <3>0, <3>2, <3>3 DEF TypeOK
  <1>7. ASSUME NEW w \in Workers, HandlerEnds(w) PROVE TypeOK'
    BY <1>7 DEF TypeOK, HandlerEnds, Execution, Stages, Outcomes
  <1>8. ASSUME NEW w \in Workers, MarkJobFailed(w) PROVE TypeOK'
    <2>1. job' \in [JobIds -> JobRow]
      BY <1>8, BusyHasJob, RowTypes DEF TypeOK, MarkJobFailed, JobStatus
    <2> QED
      BY <1>8, <2>1 DEF TypeOK, MarkJobFailed, Execution, Stages
  <1>9. ASSUME NEW w \in Workers, MarkJobFailedErrs(w) \/ StepErrs(w) PROVE TypeOK'
    <2>1. CASE MarkJobFailedErrs(w)
      BY <2>1 DEF TypeOK, MarkJobFailedErrs, Spend, FaultKinds, Execution, Stages
    <2>2. CASE StepErrs(w)
      BY <2>2 DEF TypeOK, StepErrs, Spend, FaultKinds, Execution, Stages
    <2> QED
      BY <1>9, <2>1, <2>2
  <1>10. ASSUME NEW w \in Workers, Commit(w) PROVE TypeOK'
    <2> DEFINE j == work[w].j
               done == Moved(job[j], work[w].out)
    <2>1. j \in JobIds /\ job[j] \in JobRow /\ work[w] \in Execution
      BY <1>10, BusyHasJob DEF Commit
    <2>2. work[w].out \in JobStatus /\ work[w].att + 1 \in Nat
      BY <2>1 DEF Execution, Outcomes, JobStatus
    <2>3. done \in JobRow
      BY <2>1, <2>2, RowTypes
    <2>4. [done EXCEPT !.attempt = work[w].att + 1, !.backoff = "waiting"] \in JobRow
      BY <2>2, <2>3, RowTypes
    <2>5. job' \in [JobIds -> JobRow]
      BY <1>10, <2>1, <2>3, <2>4 DEF TypeOK, Commit
    <2>6. outbox' \in [JobIds -> Nat]
      BY <1>10, <2>1 DEF TypeOK, Commit
    <2> QED
      BY <1>10, <2>5, <2>6 DEF TypeOK, Commit, Execution, Stages
  <1>11. ASSUME NEW w \in Workers, Release(w) PROVE TypeOK'
    <2>1. job' \in [JobIds -> JobRow]
      BY <1>11, BusyHasJob, RowTypes DEF TypeOK, Release
    <2> QED
      BY <1>11, <2>1, IdleType DEF TypeOK, Release, Idle
  <1>12. ASSUME NEW w \in Workers,
                ReleaseErrs(w) \/ ReleaseSkipped(w) \/ HeartbeatErrs(w)
         PROVE TypeOK'
    <2>1. CASE ReleaseErrs(w) \/ ReleaseSkipped(w)
      BY <2>1, IdleType
         DEF TypeOK, ReleaseErrs, ReleaseSkipped, Spend, FaultKinds, Idle
    <2>2. CASE HeartbeatErrs(w)
      BY <2>2 DEF TypeOK, HeartbeatErrs, Spend, FaultKinds, Execution
    <2> QED
      BY <1>12, <2>1, <2>2
  <1>13. ASSUME NEW w \in Workers, Crash(w) PROVE TypeOK'
    BY <1>13, IdleType, BusyHasJob DEF TypeOK, Crash, Spend, FaultKinds, Idle
  <1>14. ASSUME NEW w \in Workers, Heartbeat(w) PROVE TypeOK'
    <2>1. [job[work[w].j] EXCEPT !.lease = "live"] \in JobRow
      BY <1>14, BusyHasJob, RowTypes DEF Heartbeat
    <2>2. job' \in [JobIds -> JobRow]
      BY <1>14, <2>1 DEF TypeOK, Heartbeat
    <2> QED
      BY <1>14, <2>2 DEF TypeOK, Heartbeat, Execution
  <1>15. ASSUME NEW j \in JobIds, LeaseLapses(j) \/ HeartbeatStalls(j) \/ BackoffElapses(j)
         PROVE TypeOK'
    <2>1. /\ [job[j] EXCEPT !.lease = "lapsed"] \in JobRow
          /\ [job[j] EXCEPT !.backoff = "over"] \in JobRow
      BY RowTypes DEF TypeOK
    <2>2. job' \in [JobIds -> JobRow]
      BY <1>15, <2>1 DEF TypeOK, LeaseLapses, HeartbeatStalls, BackoffElapses
    <2> QED
      BY <1>15, <2>2 DEF TypeOK, LeaseLapses, HeartbeatStalls, BackoffElapses,
                         Spend, FaultKinds
  <1>16. CASE Reap
    <2>1. job' \in [JobIds -> JobRow]
      BY <1>16, RowTypes DEF TypeOK, Reap, JobStatus
    <2> QED
      BY <1>16, <2>1 DEF TypeOK, Reap
  <1>17. CASE Wake
    <2>1. job' \in [JobIds -> JobRow]
      BY <1>17, RowTypes DEF TypeOK, Wake, JobStatus
    <2> QED
      BY <1>17, <2>1 DEF TypeOK, Wake
  <1>18. CASE ReapSelects \/ WakeSelects \/ SweepDies
    BY <1>18 DEF TypeOK, ReapSelects, WakeSelects, SweepDies, Spend, FaultKinds
  <1>19. CASE UNCHANGED vars
    BY <1>19 DEF TypeOK, vars
  <1> QED
    BY <1>1, <1>2, <1>3, <1>4, <1>5, <1>6, <1>7, <1>8, <1>9, <1>10, <1>11,
       <1>12, <1>13, <1>14, <1>15, <1>16, <1>17, <1>18, <1>19, <1>20, <1>21
       DEF Next, ClientStep, BrokerStep, Receive, Proceed, WorkerFault,
           TimeStep, BeatStep

(* Type correctness: every reachable row, message counter and execution    *)
(* has the shape the ORM and the executor give it.                         *)
THEOREM TypeCorrect == Spec => []TypeOK
  <1> QED
    BY InitType, NextType, PTL DEF Spec

-----------------------------------------------------------------------------
(* How any step but Acquire changes a row and an execution: a row keeps    *)
(* its version, and then its attempt number and, unless the flow engine    *)
(* settles it, its status, or gets a greater version, which refuses the    *)
(* cancel requests that have read it; an execution ends or keeps its job   *)
(* and its token.                                                          *)
RowStep(j) ==
    \/ /\ job'[j].lock = job[j].lock
       /\ job'[j].attempt = job[j].attempt
       /\ \/ job'[j].st = job[j].st
          \/ job[j].st = "absent"
          \/ j \in FlowJobs /\ job'[j].st \in TERMINAL_STATUSES
       /\ \/ job'[j].cancel = job[j].cancel
          \/ job'[j].st \notin TERMINAL_STATUSES \cup {"absent"}
    \/ /\ job'[j].lock > job[j].lock
       /\ job'[j].attempt < MaxAttempts
       /\ job'[j].cancel = "none"

Late == {"running", "marking", "committing"}
Decided == {"marking", "committing"}

WorkStep(w) ==
    \/ work'[w].pc = "idle"
    \/ /\ work[w].pc # "idle"
       /\ work'[w].j = work[w].j
       /\ work'[w].token = work[w].token
       /\ work'[w].pc \in Late =>
            \/ work[w].pc \in Late /\ work'[w].att = work[w].att
            \/ work'[w].att = job[work[w].j].attempt
       /\ (work'[w].pc \in Decided /\ work'[w].out = "retry_wait") =>
            \/ /\ work[w].pc \in Decided
               /\ work[w].out = "retry_wait"
               /\ work'[w].att = work[w].att
            \/ work'[w].att + 1 < MaxAttempts
       /\ work'[w].pc = "marking" =>
            work[w].pc = "marking" \/ work[w].j \in FlowJobs

\* What the two rewritings of a row do to the fields the invariant reads.
LEMMA RowFacts ==
    ASSUME NEW row \in JobRow, NEW s \in JobStatus
    PROVE  /\ Moved(row, s).st = s
           /\ Moved(row, s).lock = row.lock + 1
           /\ Moved(row, s).attempt = row.attempt
           /\ Moved(row, s).cancel = "none"
           /\ Unleased(row).st = row.st
           /\ Unleased(row).lock = row.lock
           /\ Unleased(row).attempt = row.attempt
           /\ row.lock \in Nat /\ row.attempt \in Nat
           /\ row.lock + 1 > row.lock
  BY DEF JobRow, Moved, Unleased

\* A status write takes the version from everyone who held it.
LEMMA MovedStep ==
    ASSUME IInv, NEW j \in JobIds, NEW s \in JobStatus,
           job'[j] = Moved(job[j], s)
    PROVE  RowStep(j)
  <1>1. job[j] \in JobRow /\ job[j].attempt < MaxAttempts
    BY DEF IInv, TypeOK, AttemptsExact
  <1> QED
    BY <1>1, RowFacts DEF RowStep

\* Such steps keep the inductive invariant.
LEMMA StepsKeep ==
    ASSUME IInv, TypeOK', \A j \in JobIds : RowStep(j),
           \A w \in Workers : WorkStep(w)
    PROVE  IInv'
  <1>1. \A j \in JobIds : /\ job[j].lock \in Nat /\ job'[j].lock \in Nat
                          /\ job[j].attempt \in Nat
    BY DEF IInv, TypeOK, JobRow
  <1>2. \A w \in Workers : /\ work[w].token \in Nat
                           /\ work'[w].pc # "idle" => work[w].j \in JobIds
    BY DEF IInv, TypeOK, Execution, WorkStep
  <1>3. TokensNotAhead'
    BY <1>1, <1>2 DEF IInv, FencingInv, TokensNotAhead, RowStep, WorkStep
  <1>4. TokensDistinct'
    BY DEF IInv, FencingInv, TokensDistinct, WorkStep
  <1>5. ASSUME NEW w \in Workers, work'[w].pc # "idle", Fenced(w)'
        PROVE  /\ work[w].pc # "idle" /\ Fenced(w)
               /\ job'[work[w].j].lock = job[work[w].j].lock
    BY <1>1, <1>2, <1>5 DEF IInv, FencingInv, TokensNotAhead, RowStep, WorkStep, Fenced
  <1>6. CurrentTokenRuns'
    <2> SUFFICES ASSUME NEW w \in Workers, work'[w].pc # "idle", Fenced(w)'
                 PROVE  \/ job'[work'[w].j].st = "running"
                        \/ /\ work'[w].j \in FlowJobs
                           /\ job'[work'[w].j].st \in TERMINAL_STATUSES
      BY DEF CurrentTokenRuns
    <2>1. \/ job[work[w].j].st = "running"
          \/ work[w].j \in FlowJobs /\ job[work[w].j].st \in TERMINAL_STATUSES
      BY <1>5 DEF IInv, FencingInv, CurrentTokenRuns
    <2>2. job[work[w].j].st # "absent"
      BY <2>1 DEF TERMINAL_STATUSES
    <2> QED
      BY <1>1, <1>2, <1>5, <2>1, <2>2 DEF RowStep, WorkStep
  <1>7. AttemptsExact'
    <2>1. \A j \in JobIds : job'[j].attempt < MaxAttempts
      BY DEF IInv, AttemptsExact, RowStep
    <2>2. ASSUME NEW w \in Workers, work'[w].pc \in Late, Fenced(w)'
          PROVE  work'[w].att = job'[work'[w].j].attempt
      <3>1. work'[w].pc # "idle"
        BY <2>2 DEF Late
      <3>2. job'[work[w].j].attempt = job[work[w].j].attempt
        BY <1>1, <1>2, <1>5, <2>2, <3>1 DEF RowStep
      <3>3. work[w].pc \in Late => work[w].att = job[work[w].j].attempt
        BY <1>5, <2>2, <3>1 DEF IInv, AttemptsExact, Late
      <3> QED
        BY <2>2, <3>1, <3>2, <3>3 DEF WorkStep
    <2> QED
      BY <2>1, <2>2 DEF AttemptsExact, Late
  <1>8. RetryWithinBound'
    BY DEF IInv, RetryWithinBound, WorkStep, Decided
  <1>9. OnlyFlowsMark'
    BY DEF IInv, OnlyFlowsMark, WorkStep
  <1>10. CancelsFit'
    BY DEF IInv, CancelsFit, RowStep, TERMINAL_STATUSES
  <1> QED
    BY <1>3, <1>4, <1>6, <1>7, <1>8, <1>9, <1>10 DEF IInv, FencingInv

\* Actions that leave the rows alone, and those that leave executions alone.
LEMMA SameRows == ASSUME IInv, job' = job PROVE \A j \in JobIds : RowStep(j)
  BY DEF RowStep

LEMMA SameWork ==
    ASSUME work' = work PROVE \A w \in Workers : WorkStep(w)
  BY DEF WorkStep

\* A row whose lease, owner or backoff alone changes.
LEMMA QuietRow ==
    ASSUME NEW j \in JobIds, job'[j].lock = job[j].lock,
           job'[j].attempt = job[j].attempt, job'[j].st = job[j].st,
           job'[j].cancel = job[j].cancel
    PROVE  RowStep(j)
  BY DEF RowStep

LEMMA LeaseRow ==
    ASSUME IInv, NEW j \in JobIds,
           \/ job'[j] = job[j]
           \/ job'[j] = Unleased(job[j])
           \/ job'[j] = [job[j] EXCEPT !.lease = "live"]
           \/ job'[j] = [job[j] EXCEPT !.lease = "lapsed"]
           \/ job'[j] = [job[j] EXCEPT !.backoff = "over"]
    PROVE  RowStep(j)
  <1>1. job[j] \in JobRow
    BY DEF IInv, TypeOK
  <1>2. /\ job'[j].lock = job[j].lock
        /\ job'[j].attempt = job[j].attempt
        /\ job'[j].st = job[j].st
        /\ job'[j].cancel = job[j].cancel
    BY <1>1 DEF Unleased, JobRow
  <1> QED
    BY <1>2, QuietRow

\* Acquire is the one step that hands out a token: the next version.
LEMMA AcquireKeeps ==
    ASSUME IInv, TypeOK', NEW w \in Workers, NEW j \in JobIds, Acquire(w, j)
    PROVE  IInv'
  <1>1. job[j] \in JobRow /\ job[j].lock \in Nat /\ job[j].lock + 1 \in Nat
    BY DEF IInv, TypeOK, JobRow
  <1>2. /\ \A i \in JobIds : i # j => job'[i] = job[i]
        /\ job'[j].lock = job[j].lock + 1
        /\ job'[j].st = "running"
        /\ job'[j].attempt = job[j].attempt
        /\ job'[j].cancel = "none"
    BY <1>1, RowFacts DEF Acquire, IInv, TypeOK, JobRow, Moved, JobStatus
  <1>3. /\ \A v \in Workers : v # w => work'[v] = work[v]
        /\ work'[w].pc = "acquired" /\ work'[w].j = j
        /\ work'[w].token = job[j].lock + 1
    BY <1>1, StartedType DEF Acquire, IInv, TypeOK
  <1>4. \A v \in Workers : /\ work[v].token \in Nat
                           /\ work[v].pc # "idle" => work[v].j \in JobIds
    BY DEF IInv, TypeOK, Execution
  <1>5. \A i \in JobIds : job[i].lock \in Nat
    BY DEF IInv, TypeOK, JobRow
  <1>6. TokensNotAhead'
    BY <1>1, <1>2, <1>3, <1>4, <1>5 DEF IInv, FencingInv, TokensNotAhead
  <1>7. \A v \in Workers :
          (work[v].pc # "idle" /\ work[v].j = j) => work[v].token < job[j].lock + 1
    BY <1>1, <1>4 DEF IInv, FencingInv, TokensNotAhead
  <1>8. TokensDistinct'
    BY <1>1, <1>3, <1>4, <1>7 DEF IInv, FencingInv, TokensDistinct
  <1>9. CurrentTokenRuns'
    BY <1>1, <1>2, <1>3, <1>4, <1>7 DEF IInv, FencingInv, CurrentTokenRuns, Fenced
  <1>10. AttemptsExact'
    BY <1>1, <1>2, <1>3, <1>4, <1>7 DEF IInv, AttemptsExact, Fenced
  <1>11. RetryWithinBound'
    BY <1>3 DEF IInv, RetryWithinBound
  <1>12. OnlyFlowsMark'
    BY <1>3 DEF IInv, OnlyFlowsMark
  <1>13. CancelsFit'
    BY <1>2 DEF IInv, CancelsFit
  <1> QED
    BY <1>6, <1>8, <1>9, <1>10, <1>11, <1>12, <1>13 DEF IInv, FencingInv

\* A worker step on its own execution, seen by the others.
LEMMA OwnStep ==
    ASSUME NEW w \in Workers, WorkStep(w),
           \A v \in Workers : v # w => work'[v] = work[v]
    PROVE  \A v \in Workers : WorkStep(v)
  BY DEF WorkStep

LEMMA ProceedKeeps ==
    ASSUME IInv, TypeOK', NEW w \in Workers,
           Proceed(w) \/ Heartbeat(w) \/ WorkerFault(w)
    PROVE  IInv'
  <1> DEFINE j == work[w].j
  <1>0. work \in [Workers -> Execution] /\ job \in [JobIds -> JobRow]
    BY DEF IInv, TypeOK
  <1>1. CASE Load(w)
    <2>1. WorkStep(w)
      BY <1>0, <1>1 DEF Load, WorkStep, Late, Decided
    <2> QED
      BY <1>0, <1>1, <2>1, OwnStep, SameRows, StepsKeep DEF Load
  <1>2. CASE HandlerEnds(w)
    <2>1. WorkStep(w)
      BY <1>0, <1>2 DEF HandlerEnds, RetryAllowed, WorkStep, Late, Decided
    <2> QED
      BY <1>0, <1>2, <2>1, OwnStep, SameRows, StepsKeep DEF HandlerEnds
  <1>3. CASE MarkJobFailed(w)
    <2>1. WorkStep(w)
      BY <1>0, <1>3 DEF MarkJobFailed, WorkStep, Late, Decided
    <2>2. j \in JobIds
      BY <1>3 DEF IInv, TypeOK, MarkJobFailed
    <2>3. RowStep(j)
      BY <1>0, <1>3, <2>2, MovedStep DEF MarkJobFailed, JobStatus
    <2>4. \A i \in JobIds : RowStep(i)
      BY <1>0, <1>3, <2>2, <2>3, QuietRow DEF MarkJobFailed
    <2> QED
      BY <1>0, <1>3, <2>1, <2>4, OwnStep, StepsKeep DEF MarkJobFailed
  <1>4. CASE Commit(w)
    <2>1. WorkStep(w)
      BY <1>0, <1>4 DEF Commit, WorkStep, Late, Decided
    <2>2. /\ j \in JobIds /\ work[w].out \in JobStatus
          /\ job[j] \in JobRow /\ work[w].att + 1 \in Nat
      BY <1>0, <1>4 DEF IInv, TypeOK, Commit, Execution, Outcomes, JobStatus
    <2> DEFINE done == Moved(job[j], work[w].out)
    <2>3. /\ done.lock > job[j].lock /\ done.attempt < MaxAttempts
          /\ done.cancel = "none"
      BY <2>2, RowFacts DEF IInv, AttemptsExact
    <2>4. work[w].out = "retry_wait" => work[w].att + 1 < MaxAttempts
      BY <1>4 DEF Commit, IInv, RetryWithinBound
    <2>5. \/ job'[j] = job[j]
          \/ job'[j] = done
          \/ /\ work[w].out = "retry_wait"
             /\ job'[j] = [done EXCEPT !.attempt = work[w].att + 1,
                                       !.backoff = "waiting"]
      BY <1>0, <1>4, <2>2 DEF Commit
    <2>6. RowStep(j)
      <3>1. CASE job'[j] = job[j]
        BY <2>2, <3>1, QuietRow
      <3>2. CASE job'[j] = done
        BY <2>3, <3>2 DEF RowStep
      <3>3. CASE /\ work[w].out = "retry_wait"
                 /\ job'[j] = [done EXCEPT !.attempt = work[w].att + 1,
                                           !.backoff = "waiting"]
        <4>1. done \in JobRow
          BY <2>2, RowTypes
        <4>2. /\ job'[j].lock = done.lock /\ job'[j].attempt = work[w].att + 1
              /\ job'[j].cancel = done.cancel
          BY <3>3, <4>1 DEF JobRow
        <4> QED
          BY <2>3, <2>4, <3>3, <4>2 DEF RowStep
      <3> QED
        BY <2>5, <3>1, <3>2, <3>3
    <2>7. \A i \in JobIds : RowStep(i)
      <3>1. \A i \in JobIds : i # j => job'[i] = job[i]
        BY <1>0, <1>4, <2>2 DEF Commit
      <3> QED
        BY <2>6, <3>1, QuietRow
    <2> QED
      BY <1>0, <1>4, <2>1, <2>7, OwnStep, StepsKeep DEF Commit
  <1>5. CASE Release(w)
    <2>1. WorkStep(w)
      BY <1>0, <1>5 DEF Release, WorkStep, Idle
    <2>2. j \in JobIds
      BY <1>5 DEF IInv, TypeOK, Release
    <2>3. \A i \in JobIds : job'[i] = job[i] \/ job'[i] = Unleased(job[i])
      BY <1>0, <1>5, <2>2 DEF Release
    <2>4. \A i \in JobIds : RowStep(i)
      BY <2>3, LeaseRow
    <2> QED
      BY <1>0, <1>5, <2>1, <2>4, OwnStep, StepsKeep DEF Release
  <1>8. CASE ReleaseSkipped(w)
    <2>1. WorkStep(w)
      BY <1>0, <1>8 DEF ReleaseSkipped, WorkStep, Idle
    <2> QED
      BY <1>0, <1>8, <2>1, OwnStep, SameRows, StepsKeep DEF ReleaseSkipped
  <1>6. CASE Heartbeat(w)
    <2>1. j \in JobIds
      BY <1>6 DEF IInv, TypeOK, Heartbeat
    <2>2. WorkStep(w) /\ \A v \in Workers : v # w => work'[v] = work[v]
      <3>1. CASE UNCHANGED work
        BY <1>6, <3>1 DEF Heartbeat, WorkStep
      <3>2. CASE work' = [work EXCEPT ![w].hb = "off"]
        <4>1. work'[w] = [work[w] EXCEPT !.hb = "off"]
          BY <1>0, <3>2
        <4>2. /\ work'[w].pc = work[w].pc /\ work'[w].j = work[w].j
              /\ work'[w].token = work[w].token /\ work'[w].att = work[w].att
              /\ work'[w].out = work[w].out
          BY <1>0, <4>1 DEF Execution
        <4> QED
          BY <1>0, <1>6, <3>2, <4>2 DEF Heartbeat, WorkStep
      <3> QED
        BY <1>6, <3>1, <3>2 DEF Heartbeat
    <2>3. \A i \in JobIds : \/ job'[i] = job[i]
                            \/ job'[i] = [job[i] EXCEPT !.lease = "live"]
      BY <1>0, <1>6, <2>1 DEF Heartbeat
    <2>4. \A i \in JobIds : RowStep(i)
      BY <2>3, LeaseRow
    <2> QED
      BY <2>2, <2>4, OwnStep, StepsKeep
  <1>7. CASE WorkerFault(w)
    <2>1. WorkStep(w) /\ \A v \in Workers : v # w => work'[v] = work[v]
      <3>1. CASE MarkJobFailedErrs(w)
        BY <1>0, <3>1 DEF MarkJobFailedErrs, WorkStep, Late, Decided
      <3>2. CASE StepErrs(w)
        BY <1>0, <3>2 DEF StepErrs, WorkStep, Late, Decided
      <3>3. CASE ReleaseErrs(w) \/ Crash(w)
        BY <1>0, <3>3 DEF ReleaseErrs, Crash, WorkStep, Idle
      <3>4. CASE HeartbeatErrs(w)
        <4>1. work'[w] = [work[w] EXCEPT !.hb = "failed"]
          BY <1>0, <3>4 DEF HeartbeatErrs
        <4>2. /\ work'[w].pc = work[w].pc /\ work'[w].j = work[w].j
              /\ work'[w].token = work[w].token /\ work'[w].att = work[w].att
              /\ work'[w].out = work[w].out
          BY <1>0, <4>1 DEF Execution
        <4> QED
          BY <1>0, <3>4, <4>2 DEF HeartbeatErrs, WorkStep
      <3> QED
        BY <1>7, <3>1, <3>2, <3>3, <3>4 DEF WorkerFault
    <2> QED
      BY <1>7, <2>1, OwnStep, SameRows, StepsKeep
         DEF WorkerFault, MarkJobFailedErrs, StepErrs, ReleaseErrs, HeartbeatErrs,
             Crash
  <1> QED
    BY <1>1, <1>2, <1>3, <1>4, <1>5, <1>6, <1>7, <1>8 DEF Proceed

LEMMA OthersKeep ==
    ASSUME IInv, TypeOK',
           \/ \E j \in JobIds : ClientStep(j) \/ BrokerStep(j) \/ TimeStep(j)
           \/ \E w \in Workers, j \in JobIds : Skip(w, j)
           \/ BeatStep
           \/ UNCHANGED vars
    PROVE  IInv'
  <1>0. job \in [JobIds -> JobRow]
    BY DEF IInv, TypeOK
  <1>1. ASSUME NEW j \in JobIds, Accept(j) PROVE IInv'
    <2>1. \A i \in JobIds : RowStep(i)
      BY <1>0, <1>1 DEF Accept, RowStep, JobRow
    <2> QED
      BY <1>1, <2>1, SameWork, StepsKeep DEF Accept
  <1>2. ASSUME NEW j \in JobIds, RequestCancel(j) PROVE IInv'
    <2>1. RowStep(j)
      BY <1>0, <1>2, MovedStep DEF RequestCancel, JobStatus
    <2>2. \A i \in JobIds : RowStep(i)
      BY <1>0, <1>2, <2>1, QuietRow DEF RequestCancel
    <2> QED
      BY <1>2, <2>2, SameWork, StepsKeep DEF RequestCancel
  <1>11. ASSUME NEW j \in JobIds, CancelReads(j) PROVE IInv'
    <2>1. RowStep(j)
      BY <1>0, <1>11 DEF CancelReads, RowStep, JobRow
    <2>2. \A i \in JobIds : RowStep(i)
      BY <1>0, <1>11, <2>1, QuietRow DEF CancelReads
    <2> QED
      BY <1>11, <2>2, SameWork, StepsKeep DEF CancelReads
  <1>10. ASSUME NEW j \in JobIds, EngineSettles(j) PROVE IInv'
    <2>1. PICK s \in TERMINAL_STATUSES : job' = [job EXCEPT ![j].st = s]
      BY <1>10 DEF EngineSettles
    <2>2. RowStep(j)
      BY <1>0, <1>10, <2>1 DEF EngineSettles, RowStep, JobRow
    <2>3. \A i \in JobIds : RowStep(i)
      BY <1>0, <2>1, <2>2, QuietRow
    <2> QED
      BY <1>10, <2>3, SameWork, StepsKeep DEF EngineSettles
  <1>3. ASSUME NEW j \in JobIds, BrokerStep(j) PROVE IInv'
    BY <1>3, SameRows, SameWork, StepsKeep
       DEF BrokerStep, Dispatch, DispatchTwice, LoseDelivery
  <1>4. ASSUME NEW j \in JobIds, TimeStep(j) PROVE IInv'
    <2>1. \A i \in JobIds : \/ job'[i] = job[i]
                            \/ job'[i] = [job[i] EXCEPT !.lease = "lapsed"]
                            \/ job'[i] = [job[i] EXCEPT !.backoff = "over"]
      BY <1>0, <1>4 DEF TimeStep, LeaseLapses, HeartbeatStalls, BackoffElapses
    <2>2. \A i \in JobIds : RowStep(i)
      BY <2>1, LeaseRow
    <2> QED
      BY <1>4, <2>2, SameWork, StepsKeep
         DEF TimeStep, LeaseLapses, HeartbeatStalls, BackoffElapses
  <1>5. ASSUME NEW w \in Workers, NEW j \in JobIds, Skip(w, j) PROVE IInv'
    BY <1>5, SameRows, SameWork, StepsKeep DEF Skip
  <1>6. CASE Reap
    <2>1. ASSUME NEW i \in JobIds PROVE RowStep(i)
      <3>1. CASE job'[i] = job[i]
        BY <3>1, QuietRow
      <3>2. CASE job'[i] = Moved(Unleased(job[i]), "queued")
        <4>1. job[i] \in JobRow /\ Unleased(job[i]) \in JobRow
          BY <1>0, RowTypes
        <4>2. /\ job'[i].lock > job[i].lock
              /\ job'[i].attempt = job[i].attempt
              /\ job'[i].cancel = "none"
          BY <3>2, <4>1, RowFacts DEF JobStatus
        <4> QED
          BY <4>2 DEF RowStep, IInv, AttemptsExact
      <3> QED
        BY <1>6, <3>1, <3>2 DEF Reap
    <2> QED
      BY <1>6, <2>1, SameWork, StepsKeep DEF Reap
  <1>7. CASE Wake
    <2>1. ASSUME NEW i \in JobIds PROVE RowStep(i)
      BY <1>7, MovedStep, QuietRow DEF Wake, JobStatus
    <2> QED
      BY <1>7, <2>1, SameWork, StepsKeep DEF Wake
  <1>8. CASE ReapSelects \/ WakeSelects \/ SweepDies
    BY <1>8, SameRows, SameWork, StepsKeep DEF ReapSelects, WakeSelects, SweepDies
  <1>9. CASE UNCHANGED vars
    BY <1>9, SameRows, SameWork, StepsKeep DEF vars
  <1> QED
    BY <1>1, <1>2, <1>3, <1>4, <1>5, <1>6, <1>7, <1>8, <1>9, <1>10,
       <1>11
       DEF ClientStep, BeatStep

LEMMA InitInv == Init => IInv
  <1> SUFFICES ASSUME Init PROVE IInv
    OBVIOUS
  <1>1. TypeOK
    BY InitType
  <1>2. \A w \in Workers : work[w].pc = "idle"
    BY DEF Init, Idle
  <1>3. \A j \in JobIds : job[j].attempt < MaxAttempts /\ job[j].cancel = "none"
    BY JobsAssumption DEF Init
  <1> QED
    BY <1>1, <1>2, <1>3 DEF IInv, FencingInv, TokensNotAhead, TokensDistinct,
       CurrentTokenRuns, AttemptsExact, RetryWithinBound, OnlyFlowsMark,
       CancelsFit

LEMMA NextInv == IInv /\ [Next]_vars => IInv'
  <1> SUFFICES ASSUME IInv, [Next]_vars PROVE IInv'
    OBVIOUS
  <1>1. TypeOK'
    BY NextType DEF IInv
  <1> QED
    BY <1>1, AcquireKeeps, ProceedKeeps, OthersKeep DEF Next, Receive

(* The fencing discipline: no execution holds a version ahead of the row,  *)
(* no two executions of a job hold the same one, and whoever holds the     *)
(* current one still has a running job, unless the flow engine has settled *)
(* that job under it.                                                      *)
THEOREM Fencing == Spec => []FencingInv
  <1>1. IInv => FencingInv
    BY DEF IInv
  <1> QED
    BY <1>1, InitInv, NextInv, PTL DEF Spec

(* Retries count exactly and stay below max_attempts.                      *)
THEOREM AttemptsCounted == Spec => []AttemptsExact
  <1>1. IInv => AttemptsExact
    BY DEF IInv
  <1> QED
    BY <1>1, InitInv, NextInv, PTL DEF Spec

-----------------------------------------------------------------------------
(* Every way a status may change, with what it requires of the state.      *)
StatusMove(j) ==
    \/ job'[j].st = job[j].st
    \/ job[j].st = "absent" /\ job'[j].st = "accepted"
    \/ /\ job[j].cancel = "read" /\ job'[j].st = "cancel_requested"
       /\ job[j].st \in TERMINAL_STATUSES => j \in FlowJobs
    \/ job[j].st \in LEASEABLE_STATUSES /\ job'[j].st = "running"
    \/ job[j].st = "running" /\ job'[j].st = "queued"
    \/ j \in waking /\ job'[j].st = "queued"
    \/ SettledByEngine(j)
    \/ /\ j \in FlowJobs /\ job'[j].st = "failed"
       /\ \E w \in On(j) : work[w].pc = "marking"
    \/ \E w \in On(j) :
         /\ work[w].pc = "committing" /\ work[w].token = job[j].lock
         /\ \/ job[j].st = "running"
            \/ /\ j \in FlowJobs /\ work[w].out = "retry_wait"
               /\ job'[j].st = "retry_wait"

LEMMA NextMoves ==
    ASSUME IInv, [Next]_vars PROVE \A j \in JobIds : StatusMove(j)
  <1>0. job \in [JobIds -> JobRow] /\ work \in [Workers -> Execution]
    BY DEF IInv, TypeOK
  <1>11. ASSUME NEW j \in JobIds, EngineSettles(j)
         PROVE  \A i \in JobIds : StatusMove(i)
    <2>1. PICK s \in TERMINAL_STATUSES : job' = [job EXCEPT ![j].st = s]
      BY <1>11 DEF EngineSettles
    <2>2. SettledByEngine(j)
      BY <1>0, <1>11, <2>1 DEF EngineSettles, SettledByEngine, JobRow
    <2>3. \A i \in JobIds : i # j => job'[i] = job[i]
      BY <1>0, <2>1
    <2> QED
      BY <2>2, <2>3 DEF StatusMove
  <1>1. ASSUME NEW j \in JobIds, Accept(j) \/ RequestCancel(j)
        PROVE  \A i \in JobIds : StatusMove(i)
    <2>1. /\ Accept(j) => job'[j].st = "accepted"
          /\ RequestCancel(j) => job'[j].st = "cancel_requested"
      <3>1. Accept(j) => job'[j].st = "accepted"
        BY <1>0 DEF Accept, JobRow
      <3>2. Moved(job[j], "cancel_requested").st = "cancel_requested"
        BY <1>0, RowFacts DEF JobStatus
      <3>3. RequestCancel(j) => job'[j].st = "cancel_requested"
        BY <1>0, <3>2 DEF RequestCancel
      <3> QED
        BY <3>1, <3>3
    <2>2. \A i \in JobIds : i # j => job'[i] = job[i]
      BY <1>0, <1>1 DEF Accept, RequestCancel
    <2>3. StatusMove(j)
      BY <1>1, <2>1 DEF Accept, RequestCancel, StatusMove, IInv, CancelsFit
    <2> QED
      BY <2>2, <2>3 DEF StatusMove
  <1>2. ASSUME NEW w \in Workers, NEW j \in JobIds, Acquire(w, j)
        PROVE  \A i \in JobIds : StatusMove(i)
    <2>1. job'[j].st = "running"
      BY <1>0, <1>2 DEF Acquire, JobRow, Moved
    <2>2. \A i \in JobIds : i # j => job'[i] = job[i]
      BY <1>0, <1>2 DEF Acquire
    <2> QED
      BY <1>2, <2>1, <2>2 DEF Acquire, Acquirable, StatusMove
  <1>3. ASSUME NEW w \in Workers, MarkJobFailed(w)
        PROVE  \A i \in JobIds : StatusMove(i)
    <2>1. work[w].j \in JobIds
      BY <1>3 DEF IInv, TypeOK, MarkJobFailed
    <2>2. job'[work[w].j].st = "failed"
      BY <1>0, <1>3, <2>1 DEF MarkJobFailed, JobRow, Moved
    <2>3. \A i \in JobIds : i # work[w].j => job'[i] = job[i]
      BY <1>0, <1>3 DEF MarkJobFailed
    <2>4. work[w].j \in FlowJobs
      BY <1>3 DEF MarkJobFailed, IInv, OnlyFlowsMark
    <2> QED
      BY <1>3, <2>1, <2>2, <2>3, <2>4 DEF MarkJobFailed, StatusMove, On
  <1>4. ASSUME NEW w \in Workers, Commit(w)
        PROVE  \A i \in JobIds : StatusMove(i)
    <2>1. work[w].j \in JobIds
      BY <1>4 DEF IInv, TypeOK, Commit
    <2>2. job' = job \/ Fenced(w)
      BY <1>4 DEF Commit
    <2>3. \A i \in JobIds : i # work[w].j => job'[i] = job[i]
      BY <1>0, <1>4 DEF Commit
    <2>4. Fenced(w) => \/ job[work[w].j].st = "running"
                       \/ /\ work[w].j \in FlowJobs
                          /\ job[work[w].j].st \in TERMINAL_STATUSES
      BY <1>4 DEF IInv, FencingInv, CurrentTokenRuns, Commit
    <2>5. CASE job[work[w].j].st = "running"
      BY <1>4, <2>1, <2>2, <2>3, <2>5 DEF Commit, StatusMove, On, Fenced
    <2>6. CASE Fenced(w) /\ job[work[w].j].st \in TERMINAL_STATUSES
               /\ work[w].j \in FlowJobs
      <3>1. CASE job' = job
        BY <3>1 DEF StatusMove
      <3>2. CASE job' # job
        <4>1. work[w].out = "retry_wait"
          BY <1>0, <1>4, <2>6, <3>2
             DEF Commit, Execution, Outcomes, TERMINAL_STATUSES
        <4>2. PICK i \in JobIds : i = work[w].j
          BY <2>1
        <4>3. Moved(job[i], "retry_wait") \in JobRow
          BY <1>0, RowTypes DEF JobStatus
        <4>4. job'[i].st = "retry_wait"
          BY <1>0, <1>4, <2>6, <4>1, <4>2, <4>3, RowFacts
             DEF Commit, TERMINAL_STATUSES, JobStatus, JobRow
        <4> QED
          BY <1>4, <2>3, <2>6, <4>1, <4>2, <4>4 DEF Commit, StatusMove, On, Fenced
      <3> QED
        BY <3>1, <3>2
    <2> QED
      BY <2>2, <2>4, <2>5, <2>6 DEF StatusMove
  <1>5. CASE Reap
    <2>1. ASSUME NEW i \in JobIds PROVE StatusMove(i)
      <3>1. Moved(Unleased(job[i]), "queued").st = "queued"
        <4>1. Unleased(job[i]) \in JobRow
          BY <1>0, RowTypes
        <4>2. "queued" \in JobStatus
          BY DEF JobStatus
        <4> QED
          BY <4>1, <4>2, RowFacts
      <3> QED
        BY <1>5, <3>1 DEF Reap, StatusMove
    <2> QED
      BY <2>1
  <1>6. CASE Wake
    <2>1. ASSUME NEW i \in JobIds PROVE StatusMove(i)
      <3>1. Moved(job[i], "queued").st = "queued"
        BY <1>0, RowFacts DEF JobStatus
      <3> QED
        BY <1>6, <3>1 DEF Wake, StatusMove
    <2> QED
      BY <2>1
  <1>7. ASSUME NEW i \in JobIds,
               \/ job'[i] = job[i]
               \/ job'[i] = Unleased(job[i])
               \/ job'[i] = [job[i] EXCEPT !.lease = "live"]
               \/ job'[i] = [job[i] EXCEPT !.lease = "lapsed"]
               \/ job'[i] = [job[i] EXCEPT !.backoff = "over"]
               \/ job'[i] = [job[i] EXCEPT !.cancel = "read"]
        PROVE  StatusMove(i)
    BY <1>0, <1>7 DEF StatusMove, JobRow, Unleased
  <1>8. ASSUME NEW w \in Workers, Release(w) \/ Heartbeat(w)
        PROVE  \A i \in JobIds : StatusMove(i)
    <2>1. work[w].j \in JobIds
      BY <1>8 DEF IInv, TypeOK, Release, Heartbeat
    <2> QED
      BY <1>0, <1>7, <1>8, <2>1 DEF Release, Heartbeat
  <1>9. ASSUME NEW j \in JobIds, TimeStep(j)
        PROVE  \A i \in JobIds : StatusMove(i)
    BY <1>0, <1>7, <1>9 DEF TimeStep, LeaseLapses, HeartbeatStalls, BackoffElapses
  <1>12. ASSUME NEW j \in JobIds, CancelReads(j)
         PROVE  \A i \in JobIds : StatusMove(i)
    BY <1>0, <1>7, <1>12 DEF CancelReads
  <1>10. CASE UNCHANGED job
    BY <1>10 DEF StatusMove
  <1> QED
    BY <1>1, <1>2, <1>3, <1>4, <1>5, <1>6, <1>8, <1>9, <1>10, <1>11, <1>12
       DEF Next, ClientStep, BrokerStep, Dispatch, DispatchTwice, LoseDelivery, Receive, Skip,
           Proceed, Load, HandlerEnds, WorkerFault, MarkJobFailedErrs, StepErrs,
           ReleaseErrs, ReleaseSkipped, HeartbeatErrs, Crash, BeatStep, ReapSelects,
           WakeSelects, SweepDies, vars

(* A job becomes succeeded only through the execution that holds the       *)
(* current version of a running row, or by the flow engine's own write.    *)
THEOREM SuccessOnlyFenced == Spec => SuccessIsFenced
  <1>1. IInv /\ [Next]_vars => [\A j \in JobIds : SuccessFenced(j)]_vars
    <2> SUFFICES ASSUME IInv, [Next]_vars
                 PROVE  \A j \in JobIds : SuccessFenced(j)
      OBVIOUS
    <2> QED
      BY NextMoves DEF StatusMove, SuccessFenced, SettledByEngine
  <1> QED
    BY <1>1, InitInv, NextInv, PTL DEF Spec, SuccessIsFenced

(* A terminal status is left only by a stale selection of retry_wait_jobs  *)
(* or, for a flow, by the engine, by _mark_job_failed, or by the retry or  *)
(* the cancel request whose version the engine's write has left current.   *)
THEOREM TerminalOnlyLeftUnfenced == Spec => TerminalLeftOnlyUnfenced
  <1>1. IInv /\ [Next]_vars => [\A j \in JobIds : TerminalLeftUnfenced(j)]_vars
    <2> SUFFICES ASSUME IInv, [Next]_vars
                 PROVE  \A j \in JobIds : TerminalLeftUnfenced(j)
      OBVIOUS
    <2> QED
      BY NextMoves DEF StatusMove, TerminalLeftUnfenced, TERMINAL_STATUSES,
                       LEASEABLE_STATUSES, SettledByEngine
  <1> QED
    BY <1>1, InitInv, NextInv, PTL DEF Spec, TerminalLeftOnlyUnfenced

-----------------------------------------------------------------------------
(* The refinement.  Of a step, JobFence sees the versions, the tokens of   *)
(* live executions and the verdicts.                                       *)
Version == [j \in JobIds |-> job[j].lock]
Granted == [j \in JobIds |-> {work[w].token : w \in On(j)}]
Verdict == [j \in JobIds |-> VerdictOf(job[j].st)]

LEMMA FenceInit == Init => Fence!Init
  <1> SUFFICES ASSUME Init PROVE Fence!Init
    OBVIOUS
  <1>1. \A j \in JobIds : On(j) = {}
    BY JobsAssumption DEF Init, Idle, On
  <1> QED
    BY <1>1 DEF Init, Fence!Init, VerdictOf

LEMMA GrantedSame ==
    ASSUME \A w \in Workers : /\ work'[w].j = work[w].j
                              /\ work'[w].token = work[w].token
    PROVE  Granted' = Granted
  BY DEF Granted, On

LEMMA SameVersion ==
    ASSUME \A j \in JobIds : job'[j].lock = job[j].lock
    PROVE  Version' = Version
  BY DEF Version

LEMMA SameVerdict ==
    ASSUME \A j \in JobIds : VerdictOf(job'[j].st) = VerdictOf(job[j].st)
    PROVE  Verdict' = Verdict
  BY DEF Verdict

\* Steps that change neither versions, nor verdicts, nor executions.
LEMMA Stutter ==
    ASSUME \A j \in JobIds : /\ job'[j].lock = job[j].lock
                             /\ VerdictOf(job'[j].st) = VerdictOf(job[j].st),
           \A w \in Workers : /\ work'[w].j = work[w].j
                              /\ work'[w].token = work[w].token
    PROVE  UNCHANGED <<Version, Granted, Verdict>>
  BY GrantedSame, SameVersion, SameVerdict

\* Steps that take the version away from the jobs in S.
LEMMA RevokeStep ==
    ASSUME NEW S \in SUBSET JobIds, S # {},
           \A j \in S : /\ job'[j].lock = job[j].lock + 1
                        /\ VerdictOf(job'[j].st) # "succeeded",
           \A j \in JobIds \ S : job'[j] = job[j],
           \A w \in Workers : /\ work'[w].j = work[w].j
                              /\ work'[w].token = work[w].token
    PROVE  Fence!Revoke(S)
  <1>1. Granted' = Granted
    BY GrantedSame
  <1>2. Version' = [j \in JobIds |-> IF j \in S THEN Version[j] + 1 ELSE Version[j]]
    BY DEF Version
  <1>3. /\ Verdict' \in [JobIds -> Fence!Verdicts]
        /\ \A j \in JobIds : /\ j \notin S => Verdict'[j] = Verdict[j]
                             /\ j \in S => Verdict'[j] # "succeeded"
    BY DEF Verdict, VerdictOf, Fence!Verdicts
  <1> QED
    BY <1>1, <1>2, <1>3 DEF Fence!Revoke, Version, Granted, Verdict

LEMMA FenceAcquire ==
    ASSUME IInv, NEW w \in Workers, NEW j \in JobIds, Acquire(w, j)
    PROVE  Fence!Grant(j)
  <1>1. job[j] \in JobRow /\ job[j].lock + 1 \in Nat
    BY DEF IInv, TypeOK, JobRow
  <1>2. /\ \A i \in JobIds : i # j => job'[i] = job[i]
        /\ job'[j].lock = job[j].lock + 1
        /\ job'[j].st = "running"
    BY <1>1 DEF Acquire, IInv, TypeOK, JobRow, Moved
  <1>3. /\ \A v \in Workers : v # w => work'[v] = work[v]
        /\ work'[w].j = j /\ work'[w].token = job[j].lock + 1
    BY <1>1, StartedType DEF Acquire, IInv, TypeOK
  <1>4. work[w].j \notin JobIds
    BY DEF Acquire, IInv, TypeOK
  <1>5. Version' = [Version EXCEPT ![j] = @ + 1]
    BY <1>2 DEF Version
  <1>6. Granted' = [Granted EXCEPT ![j] = @ \cup {Version[j] + 1}]
    <2>1. \A i \in JobIds : i # j =>
            {work'[v].token : v \in On(i)'} = {work[v].token : v \in On(i)}
      BY <1>3, <1>4 DEF On
    <2>2. {work'[v].token : v \in On(j)'} =
            {work[v].token : v \in On(j)} \cup {job[j].lock + 1}
      BY <1>3, <1>4 DEF On
    <2> QED
      BY <2>1, <2>2 DEF Granted, Version
  <1>7. Verdict[j] = "open" /\ Verdict' = Verdict
    BY <1>2 DEF Acquire, Acquirable, LEASEABLE_STATUSES, Verdict, VerdictOf
  <1> QED
    BY <1>5, <1>6, <1>7 DEF Fence!Grant, Version, Granted, Verdict

LEMMA FenceCommit ==
    ASSUME IInv, NEW w \in Workers, NEW j \in JobIds, j = work[w].j, Commit(w)
    PROVE  Fence!Report(j) \/ UNCHANGED <<Version, Granted, Verdict>>
  <1> DEFINE done == Moved(job[j], work[w].out)
  <1>0. job \in [JobIds -> JobRow] /\ work \in [Workers -> Execution]
    BY DEF IInv, TypeOK
  <1>1. j \in JobIds /\ job[j] \in JobRow /\ work[w].out \in Outcomes
    BY <1>0 DEF IInv, TypeOK, Commit, Execution
  <1>2. \A v \in Workers : /\ work'[v].j = work[v].j
                           /\ work'[v].token = work[v].token
    BY <1>0 DEF Commit, Execution
  <1>3. CASE job' = job
    BY <1>2, <1>3, Stutter
  <1>4. CASE job' # job
    <2>1. Fenced(w) /\ (job[j].st = "running" \/ j \in FlowJobs)
      BY <1>4 DEF Commit, IInv, FencingInv, CurrentTokenRuns
    <2>2. done \in JobRow /\ done.st = work[w].out /\ done.lock = job[j].lock + 1
      <3>1. work[w].out \in JobStatus
        BY <1>1 DEF Outcomes, JobStatus
      <3> QED
        BY <1>1, <3>1, RowTypes, RowFacts
    <2>3. job'[j].st = work[w].out /\ job'[j].lock = job[j].lock + 1
      BY <1>0, <1>1, <1>4, <2>2 DEF Commit, JobRow
    <2>4. \A i \in JobIds : i # j => job'[i] = job[i]
      BY <1>0 DEF Commit
    <2>5. Version' = [Version EXCEPT ![j] = @ + 1]
      BY <2>3, <2>4 DEF Version
    <2>6. Granted' = Granted
      BY <1>2, GrantedSame
    <2>7. /\ Verdict[j] = "open" \/ j \in FlowJobs
          /\ Verdict' = [Verdict EXCEPT ![j] = VerdictOf(work[w].out)]
      BY <1>1, <2>1, <2>3, <2>4 DEF Verdict, VerdictOf
    <2>8. VerdictOf(work[w].out) \in Fence!Verdicts
      BY DEF VerdictOf, Fence!Verdicts
    <2>9. Version[j] \in Granted[j]
      BY <1>1, <2>1 DEF Version, Granted, On, Fenced
    <2> QED
      BY <2>5, <2>6, <2>7, <2>8, <2>9 DEF Fence!Report, Version, Granted, Verdict
  <1> QED
    BY <1>3, <1>4

\* An execution that ends takes its token, which nobody else has, with it.
LEMMA FenceForget ==
    ASSUME IInv, NEW w \in Workers, NEW j \in JobIds, work[w].j = j,
           work' = [work EXCEPT ![w] = Idle],
           \A i \in JobIds : job'[i].lock = job[i].lock /\ job'[i].st = job[i].st
    PROVE  Fence!Forget(j)
  <1>1. work[w].pc # "idle" /\ w \in On(j)
    BY DEF IInv, TypeOK, On
  <1>2. /\ work'[w].j \notin JobIds
        /\ \A v \in Workers : v # w => work'[v] = work[v]
    BY JobsAssumption DEF IInv, TypeOK, Idle
  <1>3. \A v \in On(j) : v # w => work[v].token # work[w].token
    BY <1>1 DEF IInv, FencingInv, TokensDistinct, TypeOK, On
  <1>4. Granted' = [Granted EXCEPT ![j] = @ \ {work[w].token}]
    <2>1. ASSUME NEW i \in JobIds, i # j
          PROVE  {work'[v].token : v \in On(i)'} = {work[v].token : v \in On(i)}
      <3>1. On(i)' = On(i) /\ \A v \in On(i) : work'[v] = work[v]
        BY <1>1, <1>2, <2>1 DEF On
      <3> QED
        BY <3>1
    <2>2. On(j)' = On(j) \ {w} /\ \A v \in On(j) \ {w} : work'[v] = work[v]
      BY <1>1, <1>2 DEF On
    <2>3. {work'[v].token : v \in On(j)'} = {work[v].token : v \in On(j) \ {w}}
      BY <2>2
    <2>4. {work[v].token : v \in On(j) \ {w}} =
            {work[v].token : v \in On(j)} \ {work[w].token}
      BY <1>1, <1>3
    <2> QED
      BY <1>1, <2>1, <2>3, <2>4 DEF Granted
  <1>5. work[w].token \in Granted[j]
    BY <1>1 DEF Granted
  <1>6. Version' = Version /\ Verdict' = Verdict
    BY SameVersion, SameVerdict
  <1> QED
    BY <1>4, <1>5, <1>6 DEF Fence!Forget, Version, Granted, Verdict

\* How JobFence's next-state relation is reached.
LEMMA FenceMoves ==
    /\ \A j \in JobIds :
         (\/ Fence!Grant(j) \/ Fence!Report(j)
          \/ Fence!Forget(j) \/ Fence!Overwrite(j)) => Fence!Next
    /\ \A S \in SUBSET JobIds : Fence!Revoke(S) => Fence!Next
  BY DEF Fence!Next

LEMMA FenceNext ==
    ASSUME IInv, [Next]_vars
    PROVE  [Fence!Next]_<<Version, Granted, Verdict>>
  <1>0. job \in [JobIds -> JobRow] /\ work \in [Workers -> Execution]
    BY DEF IInv, TypeOK
  <1>1. ASSUME NEW j \in JobIds, ClientStep(j)
        PROVE  Fence!Next \/ UNCHANGED <<Version, Granted, Verdict>>
    <2>1. CASE Accept(j)
      <3>1. \A i \in JobIds : /\ job'[i].lock = job[i].lock
                              /\ VerdictOf(job'[i].st) = VerdictOf(job[i].st)
        BY <1>0, <2>1 DEF Accept, JobRow, VerdictOf
      <3> QED
        BY <2>1, <3>1, Stutter DEF Accept
    <2>2. CASE RequestCancel(j)
      <3>1. /\ job'[j].lock = job[j].lock + 1
            /\ job'[j].st = "cancel_requested"
            /\ \A i \in JobIds \ {j} : job'[i] = job[i]
        BY <1>0, <2>2, RowFacts DEF RequestCancel, JobStatus
      <3>2. Fence!Revoke({j})
        BY <2>2, <3>1, RevokeStep DEF RequestCancel, VerdictOf
      <3> QED
        BY <3>2, FenceMoves
    <2>4. CASE CancelReads(j)
      <3>1. \A i \in JobIds : /\ job'[i].lock = job[i].lock
                              /\ VerdictOf(job'[i].st) = VerdictOf(job[i].st)
        BY <1>0, <2>4 DEF CancelReads, JobRow
      <3> QED
        BY <2>4, <3>1, Stutter DEF CancelReads
    <2>3. CASE EngineSettles(j)
      <3>1. PICK s \in TERMINAL_STATUSES : job' = [job EXCEPT ![j].st = s]
        BY <2>3 DEF EngineSettles
      <3>2. /\ \A i \in JobIds : job'[i].lock = job[i].lock
            /\ \A i \in JobIds : i # j => job'[i] = job[i]
            /\ job'[j].st = s
        BY <1>0, <3>1 DEF JobRow
      <3>3. Version' = Version /\ Granted' = Granted
        BY <2>3, <3>2, SameVersion, GrantedSame DEF EngineSettles
      <3>4. Verdict' = [Verdict EXCEPT ![j] = VerdictOf(s)]
        BY <3>2 DEF Verdict
      <3>5. VerdictOf(s) \in Fence!Verdicts
        BY DEF VerdictOf, Fence!Verdicts
      <3>6. Fence!Overwrite(j)
        BY <2>3, <3>3, <3>4, <3>5
           DEF EngineSettles, Fence!Overwrite, Version, Granted, Verdict
      <3> QED
        BY <3>6, FenceMoves
    <2> QED
      BY <1>1, <2>1, <2>2, <2>3, <2>4 DEF ClientStep
  <1>2. ASSUME NEW w \in Workers, NEW j \in JobIds, Acquire(w, j) PROVE Fence!Next
    BY <1>2, FenceAcquire, FenceMoves
  <1>3. ASSUME NEW w \in Workers, MarkJobFailed(w) PROVE Fence!Next
    <2>1. PICK j \in JobIds : j = work[w].j
      BY <1>3 DEF IInv, TypeOK, MarkJobFailed
    <2>2. /\ job'[j].lock = job[j].lock + 1
          /\ job'[j].st = "failed"
          /\ \A i \in JobIds \ {j} : job'[i] = job[i]
      BY <1>0, <1>3, <2>1, RowFacts DEF MarkJobFailed, JobStatus
    <2>3. \A v \in Workers : work'[v].j = work[v].j /\ work'[v].token = work[v].token
      BY <1>0, <1>3 DEF MarkJobFailed, Execution
    <2>4. VerdictOf(job'[j].st) # "succeeded"
      BY <2>1, <2>2 DEF VerdictOf
    <2>5. PICK S \in SUBSET JobIds : S = {j}
      OBVIOUS
    <2>6. Fence!Revoke(S)
      BY <2>2, <2>3, <2>4, <2>5, RevokeStep
    <2> QED
      BY <2>6, FenceMoves
  <1>4. ASSUME NEW w \in Workers, Commit(w)
        PROVE  Fence!Next \/ UNCHANGED <<Version, Granted, Verdict>>
    <2>1. PICK j \in JobIds : j = work[w].j
      BY <1>4 DEF IInv, TypeOK, Commit
    <2>2. Fence!Report(j) \/ UNCHANGED <<Version, Granted, Verdict>>
      BY <1>4, <2>1, FenceCommit
    <2> QED
      BY <2>2, FenceMoves
  <1>5. CASE Reap
    <2>1. PICK S \in SUBSET JobIds : S = {j \in reaping : job[j].st = "running"}
      BY DEF IInv, TypeOK
    <2>2. \A j \in JobIds \ S : job'[j] = job[j]
      BY <1>5, <2>1 DEF Reap
    <2>3. \A j \in S : /\ job'[j].lock = job[j].lock + 1
                       /\ job'[j].st = "queued"
      <3> SUFFICES ASSUME NEW j \in S
                   PROVE  job'[j].lock = job[j].lock + 1 /\ job'[j].st = "queued"
        OBVIOUS
      <3>1. job[j] \in JobRow /\ Unleased(job[j]) \in JobRow
        BY <1>0, <2>1, RowTypes
      <3>2. job'[j] = Moved(Unleased(job[j]), "queued")
        BY <1>5, <2>1 DEF Reap
      <3> QED
        BY <3>1, <3>2, RowFacts DEF JobStatus
    <2>4. CASE S = {}
      BY <1>5, <2>2, <2>4, Stutter DEF Reap
    <2>5. CASE S # {}
      <3>1. \A j \in S : VerdictOf(job'[j].st) # "succeeded"
        BY <2>3 DEF VerdictOf
      <3>2. work' = work
        BY <1>5 DEF Reap
      <3>3. Fence!Revoke(S)
        BY <2>1, <2>2, <2>3, <2>5, <3>1, <3>2, RevokeStep
      <3> QED
        BY <3>3, FenceMoves
    <2> QED
      BY <2>4, <2>5
  <1>6. CASE Wake
    <2>1. \A j \in waking : /\ job'[j].lock = job[j].lock + 1
                            /\ job'[j].st = "queued"
      BY <1>0, <1>6, RowFacts DEF Wake, IInv, TypeOK, JobStatus
    <2>2. \A j \in waking : VerdictOf(job'[j].st) # "succeeded"
      BY <2>1 DEF VerdictOf
    <2>3. /\ waking # {} /\ waking \in SUBSET JobIds /\ work' = work
          /\ \A j \in JobIds \ waking : job'[j] = job[j]
      BY <1>6 DEF Wake, IInv, TypeOK
    <2>4. PICK S \in SUBSET JobIds : S = waking
      BY <2>3
    <2>5. Fence!Revoke(S)
      BY <2>1, <2>2, <2>3, <2>4, RevokeStep
    <2> QED
      BY <2>5, FenceMoves
  <1>7. ASSUME NEW w \in Workers,
               Release(w) \/ ReleaseSkipped(w) \/ ReleaseErrs(w) \/ Crash(w)
        PROVE  Fence!Next
    <2>1. work[w].j \in JobIds /\ work' = [work EXCEPT ![w] = Idle]
      BY <1>7 DEF Release, ReleaseSkipped, ReleaseErrs, Crash, IInv, TypeOK
    <2>2. ASSUME NEW j \in JobIds
          PROVE  job'[j].lock = job[j].lock /\ job'[j].st = job[j].st
      <3>1. job'[j] = job[j] \/ job'[j] = Unleased(job[j])
        BY <1>0, <1>7, <2>1 DEF Release, ReleaseSkipped, ReleaseErrs, Crash
      <3>2. Unleased(job[j]).lock = job[j].lock /\ Unleased(job[j]).st = job[j].st
        BY <1>0 DEF Unleased, JobRow
      <3> QED
        BY <3>1, <3>2
    <2>3. PICK i \in JobIds : i = work[w].j
      BY <2>1
    <2>4. Fence!Forget(i)
      BY <2>1, <2>2, <2>3, FenceForget
    <2> QED
      BY <2>4, FenceMoves
  <1>8. ASSUME NEW w \in Workers,
               \/ Load(w) \/ HandlerEnds(w) \/ MarkJobFailedErrs(w) \/ StepErrs(w)
               \/ HeartbeatErrs(w)
        PROVE  UNCHANGED <<Version, Granted, Verdict>>
    <2>1. ASSUME NEW v \in Workers
          PROVE  work'[v].j = work[v].j /\ work'[v].token = work[v].token
      <3>0. work[v] \in Execution
        BY <1>0
      <3>1. Load(w) => work'[v].j = work[v].j /\ work'[v].token = work[v].token
        BY <1>0, <3>0 DEF Load, Execution
      <3>2. HandlerEnds(w) => work'[v].j = work[v].j /\ work'[v].token = work[v].token
        BY <1>0, <3>0 DEF HandlerEnds, Execution
      <3> QED
        BY <1>0, <1>8, <3>0, <3>1, <3>2
           DEF MarkJobFailedErrs, StepErrs, HeartbeatErrs, Execution
    <2>2. job' = job
      BY <1>8 DEF Load, HandlerEnds, MarkJobFailedErrs, StepErrs, HeartbeatErrs
    <2> QED
      BY <2>1, <2>2, Stutter
  <1>9. ASSUME NEW w \in Workers, Heartbeat(w)
        PROVE  UNCHANGED <<Version, Granted, Verdict>>
    <2>1. \A v \in Workers : work'[v].j = work[v].j /\ work'[v].token = work[v].token
      BY <1>0, <1>9 DEF Heartbeat, Execution
    <2>2. work[w].j \in JobIds
      BY <1>9 DEF IInv, TypeOK, Heartbeat
    <2>3. \A j \in JobIds : \/ job'[j] = job[j]
                            \/ job'[j] = [job[j] EXCEPT !.lease = "live"]
      BY <1>0, <1>9, <2>2 DEF Heartbeat
    <2>4. \A row \in JobRow : /\ [row EXCEPT !.lease = "live"].lock = row.lock
                               /\ [row EXCEPT !.lease = "live"].st = row.st
      BY DEF JobRow
    <2>5. \A j \in JobIds : job'[j].lock = job[j].lock /\ job'[j].st = job[j].st
      BY <1>0, <2>3, <2>4
    <2> QED
      BY <2>1, <2>5, Stutter
  <1>10. ASSUME NEW j \in JobIds, TimeStep(j)
         PROVE  UNCHANGED <<Version, Granted, Verdict>>
    <2>1. \A i \in JobIds : \/ job'[i] = job[i]
                            \/ job'[i] = [job[i] EXCEPT !.lease = "lapsed"]
                            \/ job'[i] = [job[i] EXCEPT !.backoff = "over"]
      BY <1>0, <1>10 DEF TimeStep, LeaseLapses, HeartbeatStalls, BackoffElapses
    <2>2. ASSUME NEW i \in JobIds
          PROVE  job'[i].lock = job[i].lock /\ job'[i].st = job[i].st
      <3>1. job[i] \in JobRow
        BY <1>0
      <3> QED
        BY <2>1, <3>1 DEF JobRow
    <2>3. work' = work
      BY <1>10 DEF TimeStep, LeaseLapses, HeartbeatStalls, BackoffElapses
    <2> QED
      BY <2>2, <2>3, Stutter
  <1>11. CASE job' = job /\ work' = work
    BY <1>11, Stutter
  <1> QED
    BY <1>1, <1>2, <1>3, <1>4, <1>5, <1>6, <1>7, <1>8, <1>9, <1>10, <1>11
       DEF Next, BrokerStep, Dispatch, DispatchTwice, LoseDelivery, Receive, Skip,
           Proceed, WorkerFault, BeatStep, ReapSelects, WakeSelects, SweepDies, vars

(* The job engine implements the fenced register JobFence: every step of   *)
(* it grants, reports, forgets or revokes versions, overwrites the verdict *)
(* of a flow, or changes none.                                             *)
THEOREM FenceRefined == Spec => ImplementsFence
  <1>1. IInv /\ [Next]_vars => [Fence!Next]_<<Version, Granted, Verdict>>
    BY FenceNext
  <1> QED
    BY <1>1, FenceInit, InitInv, NextInv, PTL
       DEF Spec, ImplementsFence, Fence!Spec, Version, Granted, Verdict
=============================================================================
