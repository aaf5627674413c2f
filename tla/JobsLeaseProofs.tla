---------------------------- MODULE JobsLeaseProofs ----------------------------
(***************************************************************************)
(* Proofs about the leases and messages of Jobs, for any jobs, workers,    *)
(* owner ids, attempts and faults: one handler at a time as long as        *)
(* heartbeats work, a running job can be reaped, a job that waits for its  *)
(* first start has an event or a message, a stranded job stays stranded.   *)
(*                                                                         *)
(* A step is described once: by what it does to a row (RowCase), to an     *)
(* execution (WorkCase), to the two sweeps (SweepCase) and to the messages *)
(* of a job (MessageCase).  Each invariant follows from the descriptions.  *)
(***************************************************************************)
EXTENDS JobsProofs, FiniteSetTheorems

Busy(w) == work[w].pc # "idle"

SameStatus(j) ==
    /\ job'[j].st = job[j].st
    /\ job'[j].attempt = job[j].attempt
    /\ job'[j].lock = job[j].lock

SameLease(j) ==
    /\ job'[j].owner = job[j].owner
    /\ job'[j].lease = job[j].lease

Freed(j) == job'[j].owner = NoOwner /\ job'[j].lease = "none"

\* A status write other than Acquire's, the reaper's and accept's, with its reason.
MoveCase(j) ==
    /\ SameLease(j)
    /\ job'[j].lock = job[j].lock + 1
    /\ \/ /\ job'[j].attempt = job[j].attempt
          /\ \/ job[j].st # "absent" /\ job'[j].st = "cancel_requested"
             \/ job'[j].st = "failed" /\ On(j) # {}
             \/ j \in waking /\ waking' = {} /\ job'[j].st = "queued"
       \/ /\ \E w \in On(j) : work[w].pc = "committing" /\ Fenced(w)
          /\ job'[j].st \in Outcomes
          /\ job'[j].attempt = IF job'[j].st = "retry_wait"
                               THEN job[j].attempt + 1 ELSE job[j].attempt

\* The flow engine's write: an outcome, under the lease and version there is.
SettleCase(j) ==
    /\ SettledByEngine(j) /\ SameLease(j)
    /\ job[j].st # "absent" /\ job'[j].attempt = job[j].attempt

RowCase(j) ==
    \/ SameStatus(j) /\ SameLease(j)
    \/ /\ SameStatus(j)
       /\ job'[j].owner = job[j].owner
       /\ \/ job'[j].lease = "live" /\ \E w \in On(j) : HoldsLease(w)
          \/ /\ job[j].lease = "live" /\ job'[j].lease = "lapsed"
             /\ used'["stall"] > 0 \/ (~Renewed(j) /\ ~Swept(j))
    \/ /\ SameStatus(j)
       /\ Freed(j)
       /\ \E w \in On(j) : /\ work[w].pc = "releasing" /\ HoldsLease(w)
                           /\ work'[w].pc = "idle"
    \/ \E w \in Workers : Acquire(w, j)
    \/ /\ job[j].st = "absent" /\ job'[j].st = "accepted"
       /\ SameLease(j) /\ ~Undelivered(j)'
       /\ job'[j].attempt = job[j].attempt /\ job'[j].lock = job[j].lock
    \/ MoveCase(j)
    \/ SettleCase(j)
    \/ /\ j \in reaping /\ job[j].st = "running" /\ job'[j].st = "queued"
       /\ Freed(j) /\ reaping' = {} /\ ~Undelivered(j)'
       /\ job'[j].attempt = job[j].attempt
       /\ job'[j].lock = job[j].lock + 1

\* What an execution keeps but for its heartbeat.
SamePlace(w) ==
    /\ work'[w].pc = work[w].pc
    /\ work'[w].j = work[w].j
    /\ work'[w].token = work[w].token

WorkCase(w) ==
    \/ SamePlace(w) /\ work'[w].hb = work[w].hb
    \/ \E j \in JobIds : Acquire(w, j)
    \/ work'[w].pc = "idle"
    \/ /\ Busy(w)
       /\ work'[w].j = work[w].j /\ work'[w].token = work[w].token
       /\ work'[w].hb = work[w].hb
       /\ work'[w].pc = "releasing" =>
            \/ used'["error"] > 0 \/ ~Fenced(w)'
            \/ job'[work'[w].j].st \in TERMINAL_STATUSES
    \/ SamePlace(w) /\ Busy(w) /\ ~HoldsLease(w)
    \/ SamePlace(w) /\ used'["error"] > 0

SweepCase ==
    /\ \A j \in reaping' : \/ j \in reaping
                           \/ Expired(job[j]) /\ UNCHANGED <<job, work, waking>>
    /\ \A j \in waking' : \/ j \in waking
                          \/ /\ job[j].st = "retry_wait"
                             /\ UNCHANGED <<job, work, reaping>>
    /\ \A k \in FaultKinds : used'[k] \in Nat /\ used[k] \in Nat /\ used[k] <= used'[k]

MessageCase(j) ==
    \/ Undelivered(j)' <=> Undelivered(j)
    \/ /\ ~Undelivered(j)'
       /\ \/ job[j].st = "absent" \/ job'[j].st = "cancel_requested"
          \/ On(j) # {} \/ Swept(j)
    \/ ~Undelivered(j) /\ used'["drop"] > 0
    \/ \E w \in Workers : Acquire(w, j) \/ Skip(w, j)

-----------------------------------------------------------------------------
(* The fields of a row after each kind of write.                           *)
LEMMA LeaseFacts ==
    ASSUME NEW row \in JobRow, NEW s \in JobStatus
    PROVE  /\ Moved(row, s).owner = row.owner
           /\ Moved(row, s).lease = row.lease
           /\ Unleased(row).owner = NoOwner
           /\ Unleased(row).lease = "none"
           /\ Moved(Unleased(row), s).st = s
           /\ Moved(Unleased(row), s).attempt = row.attempt
           /\ Moved(Unleased(row), s).lock = row.lock + 1
           /\ Moved(Unleased(row), s).owner = NoOwner
           /\ Moved(Unleased(row), s).lease = "none"
  BY DEF JobRow, Moved, Unleased

LEMMA UnchangedRow ==
    ASSUME NEW j \in JobIds, job'[j] = job[j] PROVE RowCase(j)
  BY DEF RowCase, SameStatus, SameLease

\* A step that writes the row of one job does nothing to the others.
LEMMA OneRow ==
    ASSUME NEW i \in JobIds, RowCase(i),
           \A j \in JobIds : j # i => job'[j] = job[j]
    PROVE  \A j \in JobIds : RowCase(j)
  BY UnchangedRow

LEMMA OneExecution ==
    ASSUME NEW w \in Workers, WorkCase(w),
           \A v \in Workers : v # w => work'[v] = work[v]
    PROVE  \A v \in Workers : WorkCase(v)
  BY DEF WorkCase, SamePlace

LEMMA SameExecutions ==
    ASSUME work' = work PROVE \A v \in Workers : WorkCase(v)
  BY DEF WorkCase, SamePlace

-----------------------------------------------------------------------------
(* The row of the job an execution acquires, and the execution.            *)
LEMMA AcquireFacts ==
    ASSUME IInv, NEW w \in Workers, NEW j \in JobIds, Acquire(w, j)
    PROVE  /\ \A i \in JobIds : i # j => job'[i] = job[i]
           /\ job'[j].lock = job[j].lock + 1
           /\ job'[j].st = "running" /\ job'[j].attempt = job[j].attempt
           /\ job'[j].owner = OwnerOf[w] /\ job'[j].lease = "live"
           /\ \A v \in Workers : v # w => work'[v] = work[v]
           /\ work'[w].pc = "acquired" /\ work'[w].j = j
           /\ work'[w].token = job[j].lock + 1 /\ work'[w].hb = "on"
           /\ ~Busy(w) /\ job[j].st \in LEASEABLE_STATUSES
           /\ job[j].owner = NoOwner \/ job[j].lease = "lapsed"
           /\ OwnerOf[w] \in Owners
           /\ ~Undelivered(j)
  <1>1. /\ job[j] \in JobRow /\ job[j].lock + 1 \in Nat
        /\ job \in [JobIds -> JobRow] /\ work \in [Workers -> Execution]
        /\ outbox[j] \in Nat /\ msgs[j] \in Nat /\ OwnerOf[w] \in Owners
    BY JobsAssumption DEF IInv, TypeOK, JobRow
  <1>2. /\ \A i \in JobIds : i # j => job'[i] = job[i]
        /\ job'[j].lock = job[j].lock + 1
        /\ job'[j].st = "running" /\ job'[j].attempt = job[j].attempt
        /\ job'[j].owner = OwnerOf[w] /\ job'[j].lease = "live"
    BY <1>1 DEF Acquire, JobRow, Moved
  <1>3. /\ \A v \in Workers : v # w => work'[v] = work[v]
        /\ work'[w] = Started(j, job[j].lock + 1)
    BY <1>1 DEF Acquire
  <1>4. Started(j, job[j].lock + 1).hb = "on"
    BY DEF Started, Idle
  <1>5. ~Busy(w) /\ ~Undelivered(j)
    BY <1>1 DEF Acquire, Busy, Undelivered
  <1> QED
    BY <1>1, <1>2, <1>3, <1>4, <1>5, StartedType DEF Acquire, Acquirable, Leased

LEMMA NextRows ==
    ASSUME IInv, Next, TypeOK' PROVE \A j \in JobIds : RowCase(j)
  <1>0. /\ job \in [JobIds -> JobRow] /\ work \in [Workers -> Execution]
        /\ outbox \in [JobIds -> Nat] /\ msgs \in [JobIds -> Nat]
        /\ msgs' \in [JobIds -> Nat] /\ used \in [FaultKinds -> Nat]
    BY DEF IInv, TypeOK
  <1>1. ASSUME NEW i \in JobIds, Accept(i) PROVE \A j \in JobIds : RowCase(j)
    <2>1. SameLease(i) /\ job[i].st = "absent" /\ job'[i].st = "accepted"
          /\ job'[i].attempt = job[i].attempt /\ job'[i].lock = job[i].lock
      BY <1>0, <1>1 DEF Accept, SameLease, JobRow
    <2>2. ~Undelivered(i)'
      BY <1>0, <1>1 DEF Accept, Undelivered
    <2> QED
      BY <1>0, <1>1, <2>1, <2>2, OneRow DEF Accept, RowCase
  <1>14. ASSUME NEW i \in JobIds, EngineSettles(i)
         PROVE  \A j \in JobIds : RowCase(j)
    <2>1. PICK s \in TERMINAL_STATUSES : job' = [job EXCEPT ![i].st = s]
      BY <1>14 DEF EngineSettles
    <2>2. SettleCase(i)
      BY <1>0, <1>14, <2>1
         DEF EngineSettles, SettleCase, SettledByEngine, SameLease, JobRow
    <2> QED
      BY <1>0, <2>1, <2>2, OneRow DEF RowCase
  <1>2. ASSUME NEW i \in JobIds, NEW s \in JobStatus,
               job' = [job EXCEPT ![i] = Moved(@, s)],
               \/ job[i].st # "absent" /\ s = "cancel_requested"
               \/ s = "failed" /\ On(i) # {}
        PROVE  \A j \in JobIds : RowCase(j)
    <2>1. job'[i] = Moved(job[i], s) /\ job[i] \in JobRow
      BY <1>0, <1>2
    <2>2. MoveCase(i)
      BY <1>2, <2>1, RowFacts, LeaseFacts DEF MoveCase, SameLease
    <2> QED
      BY <1>0, <1>2, <2>2, OneRow DEF RowCase
  <1>3. ASSUME NEW i \in JobIds, RequestCancel(i)
        PROVE  \A j \in JobIds : RowCase(j)
    BY <1>2, <1>3 DEF RequestCancel, JobStatus, IInv, CancelsFit
  <1>15. ASSUME NEW i \in JobIds, CancelReads(i)
         PROVE  \A j \in JobIds : RowCase(j)
    <2>1. SameStatus(i) /\ SameLease(i)
      BY <1>0, <1>15 DEF CancelReads, SameStatus, SameLease, JobRow
    <2> QED
      BY <1>0, <1>15, <2>1, OneRow DEF CancelReads, RowCase
  <1>4. ASSUME NEW w \in Workers, MarkJobFailed(w)
        PROVE  \A j \in JobIds : RowCase(j)
    <2>1. work[w].j \in JobIds /\ w \in On(work[w].j)
      BY <1>4, BusyHasJob DEF IInv, MarkJobFailed, On
    <2> QED
      BY <1>2, <1>4, <2>1 DEF MarkJobFailed, JobStatus
  <1>5. ASSUME NEW w \in Workers, NEW i \in JobIds, Acquire(w, i)
        PROVE  \A j \in JobIds : RowCase(j)
    BY <1>5, AcquireFacts, OneRow DEF RowCase
  <1>6. ASSUME NEW w \in Workers, Commit(w) PROVE \A j \in JobIds : RowCase(j)
    <2> DEFINE i == work[w].j
               done == Moved(job[i], work[w].out)
    <2>1. /\ i \in JobIds /\ w \in On(i) /\ job[i] \in JobRow
          /\ work[w].out \in Outcomes /\ work[w].out \in JobStatus
          /\ work[w].att + 1 \in Nat /\ work[w].pc = "committing"
      BY <1>0, <1>6, BusyHasJob DEF IInv, Commit, On, Execution, Outcomes, JobStatus
    <2>2. done \in JobRow
      BY <2>1, RowTypes
    <2>3. CASE job' = job
      BY <2>3, UnchangedRow
    <2>4. CASE job' # job
      <3>1. Fenced(w)
        BY <1>6, <2>4 DEF Commit
      <3>2. work[w].att = job[i].attempt
        BY <2>1, <3>1 DEF IInv, AttemptsExact
      <3>3. job'[i] = IF work[w].out = "retry_wait"
                      THEN [done EXCEPT !.attempt = work[w].att + 1,
                                        !.backoff = "waiting"]
                      ELSE done
        BY <1>0, <1>6, <2>1, <2>4 DEF Commit
      <3>4. /\ done.st = work[w].out /\ done.lock = job[i].lock + 1
            /\ done.owner = job[i].owner /\ done.lease = job[i].lease
            /\ done.attempt = job[i].attempt
        BY <2>1, RowFacts, LeaseFacts
      <3> HIDE DEF done
      <3>5. /\ job'[i].st = work[w].out /\ job'[i].lock = job[i].lock + 1
            /\ job'[i].owner = job[i].owner /\ job'[i].lease = job[i].lease
            /\ job'[i].attempt = IF work[w].out = "retry_wait"
                                 THEN job[i].attempt + 1 ELSE job[i].attempt
        BY <2>2, <3>2, <3>3, <3>4 DEF JobRow
      <3>6. MoveCase(i)
        BY <2>1, <3>1, <3>5 DEF MoveCase, SameLease
      <3>7. \A j \in JobIds : j # i => job'[j] = job[j]
        BY <1>0, <1>6 DEF Commit
      <3> QED
        BY <2>1, <3>6, <3>7, OneRow DEF RowCase
    <2> QED
      BY <2>3, <2>4
  <1>7. ASSUME NEW w \in Workers, Release(w) PROVE \A j \in JobIds : RowCase(j)
    <2>1. work[w].j \in JobIds /\ w \in On(work[w].j) /\ work[w].pc = "releasing"
      BY <1>7, BusyHasJob DEF IInv, Release, On
    <2>2. work'[w].pc = "idle"
      BY <1>0, <1>7 DEF Release, Idle
    <2>3. CASE HoldsLease(w)
      <3>1. /\ job'[work[w].j] = Unleased(job[work[w].j])
            /\ \A j \in JobIds : j # work[w].j => job'[j] = job[j]
            /\ job[work[w].j] \in JobRow
        BY <1>0, <1>7, <2>1, <2>3 DEF Release
      <3>2. SameStatus(work[w].j) /\ Freed(work[w].j)
        BY <3>1 DEF SameStatus, Freed, Unleased, JobRow
      <3> QED
        BY <2>1, <2>2, <2>3, <3>1, <3>2, OneRow DEF RowCase
    <2>4. CASE ~HoldsLease(w)
      BY <1>7, <2>4, UnchangedRow DEF Release
    <2> QED
      BY <2>3, <2>4
  <1>8. ASSUME NEW w \in Workers, Heartbeat(w) PROVE \A j \in JobIds : RowCase(j)
    <2>1. work[w].j \in JobIds /\ w \in On(work[w].j)
      BY <1>8, BusyHasJob DEF IInv, Heartbeat, On
    <2>2. CASE HoldsLease(w)
      <3>1. /\ job'[work[w].j] = [job[work[w].j] EXCEPT !.lease = "live"]
            /\ \A j \in JobIds : j # work[w].j => job'[j] = job[j]
            /\ job[work[w].j] \in JobRow
        BY <1>0, <1>8, <2>1, <2>2 DEF Heartbeat
      <3>2. /\ SameStatus(work[w].j) /\ job'[work[w].j].lease = "live"
            /\ job'[work[w].j].owner = job[work[w].j].owner
        BY <3>1 DEF SameStatus, JobRow
      <3> QED
        BY <2>1, <2>2, <3>1, <3>2, OneRow DEF RowCase
    <2>3. CASE ~HoldsLease(w)
      BY <1>8, <2>3, UnchangedRow DEF Heartbeat
    <2> QED
      BY <2>2, <2>3
  <1>9. ASSUME NEW i \in JobIds, LeaseLapses(i) \/ HeartbeatStalls(i)
        PROVE  \A j \in JobIds : RowCase(j)
    <2>1. /\ job' = [job EXCEPT ![i].lease = "lapsed"] /\ job[i].lease = "live"
          /\ job[i] \in JobRow
      BY <1>0, <1>9 DEF LeaseLapses, HeartbeatStalls
    <2>2. used'["stall"] > 0 \/ (~Renewed(i) /\ ~Swept(i))
      BY <1>0, <1>9 DEF LeaseLapses, HeartbeatStalls, Spend, FaultKinds
    <2>3. /\ SameStatus(i) /\ job'[i].lease = "lapsed"
          /\ job'[i].owner = job[i].owner
      BY <1>0, <2>1 DEF SameStatus, JobRow
    <2> QED
      BY <1>0, <2>1, <2>2, <2>3, OneRow DEF RowCase
  <1>10. ASSUME NEW i \in JobIds, BackoffElapses(i)
         PROVE  \A j \in JobIds : RowCase(j)
    <2>1. SameStatus(i) /\ SameLease(i)
      BY <1>0, <1>10 DEF BackoffElapses, SameStatus, SameLease, JobRow
    <2> QED
      BY <1>0, <1>10, <2>1, OneRow DEF BackoffElapses, RowCase
  <1>11. CASE Reap
    <2> SUFFICES ASSUME NEW j \in JobIds PROVE RowCase(j)
      OBVIOUS
    <2>1. CASE j \in reaping /\ job[j].st = "running"
      <3>1. job'[j] = Moved(Unleased(job[j]), "queued") /\ outbox'[j] = outbox[j] + 1
            /\ msgs'[j] = msgs[j] /\ reaping' = {}
        BY <1>11, <2>1 DEF Reap
      <3>2. "queued" \in JobStatus /\ job[j] \in JobRow
        BY <1>0 DEF JobStatus
      <3>3. /\ job'[j].st = "queued" /\ job'[j].attempt = job[j].attempt
            /\ job'[j].lock = job[j].lock + 1 /\ Freed(j)
        BY <3>1, <3>2, LeaseFacts DEF Freed
      <3>4. ~Undelivered(j)'
        BY <1>0, <3>1 DEF Undelivered
      <3> QED
        BY <2>1, <3>1, <3>3, <3>4 DEF RowCase
    <2>2. CASE ~(j \in reaping /\ job[j].st = "running")
      BY <1>11, <2>2, UnchangedRow DEF Reap
    <2> QED
      BY <2>1, <2>2
  <1>12. CASE Wake
    <2> SUFFICES ASSUME NEW j \in JobIds PROVE RowCase(j)
      OBVIOUS
    <2>1. CASE j \in waking
      <3>1. job'[j] = Moved(job[j], "queued") /\ job[j] \in JobRow /\ waking' = {}
        BY <1>0, <1>12, <2>1 DEF Wake
      <3>2. "queued" \in JobStatus
        BY DEF JobStatus
      <3>3. MoveCase(j)
        BY <2>1, <3>1, <3>2, RowFacts, LeaseFacts DEF MoveCase, SameLease
      <3> QED
        BY <3>3 DEF RowCase
    <2>2. CASE j \notin waking
      BY <1>12, <2>2, UnchangedRow DEF Wake
    <2> QED
      BY <2>1, <2>2
  <1>13. CASE UNCHANGED job
    BY <1>13, UnchangedRow
  <1> QED
    BY <1>1, <1>3, <1>4, <1>5, <1>6, <1>7, <1>8, <1>9, <1>10, <1>11, <1>12, <1>13,
       <1>14, <1>15
       DEF Next, ClientStep, TimeStep, BrokerStep, Dispatch, DispatchTwice,
           LoseDelivery, Receive, Skip, Proceed, Load, HandlerEnds, WorkerFault,
           MarkJobFailedErrs, StepErrs, ReleaseErrs, ReleaseSkipped, HeartbeatErrs,
           Crash, BeatStep, ReapSelects, WakeSelects, SweepDies

LEMMA NextExecutions ==
    ASSUME IInv, Next, TypeOK' PROVE \A w \in Workers : WorkCase(w)
  <1>0. /\ job \in [JobIds -> JobRow] /\ work \in [Workers -> Execution]
        /\ used \in [FaultKinds -> Nat] /\ "error" \in FaultKinds
    BY DEF IInv, TypeOK, FaultKinds
  <1>1. ASSUME NEW w \in Workers, NEW j \in JobIds, Acquire(w, j)
        PROVE  \A v \in Workers : WorkCase(v)
    <2>1. WorkCase(w)
      BY <1>1 DEF WorkCase
    <2> QED
      BY <2>1, <1>1, AcquireFacts, OneExecution
  <1>2. ASSUME NEW w \in Workers, Load(w) PROVE \A v \in Workers : WorkCase(v)
    <2>1. CASE job[work[w].j].st \in TERMINAL_STATUSES
      <3>2. work' = [work EXCEPT ![w].pc = "releasing"] /\ job' = job
        BY <1>2, <2>1 DEF Load
      <3>3. /\ work'[w].j = work[w].j /\ work'[w].token = work[w].token
            /\ work'[w].hb = work[w].hb
        BY <1>0, <3>2 DEF Execution
      <3>4. job'[work'[w].j].st \in TERMINAL_STATUSES
        BY <2>1, <3>2, <3>3
      <3>5. WorkCase(w)
        BY <1>2, <3>3, <3>4 DEF WorkCase, Load, Busy
      <3> QED
        BY <1>0, <3>2, <3>5, OneExecution
    <2>2. CASE job[work[w].j].st \notin TERMINAL_STATUSES
      <3>1. work' = [work EXCEPT ![w] = [@ EXCEPT !.pc = "running",
                                           !.att = job[work[w].j].attempt]]
        BY <1>2, <2>2 DEF Load
      <3>2. /\ work'[w].j = work[w].j /\ work'[w].token = work[w].token
            /\ work'[w].hb = work[w].hb /\ work'[w].pc = "running"
        BY <1>0, <3>1 DEF Execution
      <3>3. WorkCase(w)
        BY <1>2, <3>2 DEF WorkCase, Load, Busy
      <3> QED
        BY <1>0, <3>1, <3>3, OneExecution
    <2> QED
      BY <2>1, <2>2
  <1>3. ASSUME NEW w \in Workers, HandlerEnds(w)
        PROVE  \A v \in Workers : WorkCase(v)
    <2>1. PICK out \in Outcomes, marks \in BOOLEAN :
            work' = [work EXCEPT ![w].out = out,
                       ![w].pc = IF marks THEN "marking" ELSE "committing"]
      BY <1>3 DEF HandlerEnds
    <2>2. /\ work'[w].j = work[w].j /\ work'[w].token = work[w].token
          /\ work'[w].hb = work[w].hb /\ work'[w].pc # "releasing"
      BY <1>0, <2>1 DEF Execution
    <2>3. WorkCase(w)
      BY <1>3, <2>2 DEF WorkCase, HandlerEnds, Busy
    <2> QED
      BY <1>0, <2>1, <2>3, OneExecution
  <1>4. ASSUME NEW w \in Workers, MarkJobFailed(w) \/ MarkJobFailedErrs(w)
        PROVE  \A v \in Workers : WorkCase(v)
    <2>1. work' = [work EXCEPT ![w].pc = "committing"] /\ Busy(w)
      BY <1>4 DEF MarkJobFailed, MarkJobFailedErrs, Busy
    <2>2. /\ work'[w].j = work[w].j /\ work'[w].token = work[w].token
          /\ work'[w].hb = work[w].hb /\ work'[w].pc # "releasing"
      BY <1>0, <2>1 DEF Execution
    <2>3. WorkCase(w)
      BY <2>1, <2>2 DEF WorkCase
    <2> QED
      BY <1>0, <2>1, <2>3, OneExecution
  <1>5. ASSUME NEW w \in Workers, Commit(w) PROVE \A v \in Workers : WorkCase(v)
    <2>1. work' = [work EXCEPT ![w].pc = "releasing"] /\ Busy(w)
      BY <1>5 DEF Commit, Busy
    <2>2. /\ work'[w].j = work[w].j /\ work'[w].token = work[w].token
          /\ work'[w].hb = work[w].hb
      BY <1>0, <2>1 DEF Execution
    <2>3. /\ work[w].j \in JobIds /\ job[work[w].j] \in JobRow
          /\ work[w].out \in JobStatus /\ job[work[w].j].lock \in Nat
      BY <1>0, <1>5, BusyHasJob DEF IInv, Commit, Execution, Outcomes, JobStatus, JobRow
    <2>4. ~Fenced(w)' \/ job'[work'[w].j].st \in TERMINAL_STATUSES
      <3>3. CASE job' = job /\ job[work[w].j].st \in TERMINAL_STATUSES
        BY <2>2, <3>3
      <3>1. CASE Fenced(w) /\ ~(job' = job /\ job[work[w].j].st \in TERMINAL_STATUSES)
        <4>1. /\ \/ job[work[w].j].st = "running"
                 \/ job[work[w].j].st \in TERMINAL_STATUSES
              /\ "running" \notin TERMINAL_STATUSES
          BY <1>5, <3>1
             DEF IInv, FencingInv, CurrentTokenRuns, Commit, TERMINAL_STATUSES
        <4> DEFINE done == Moved(job[work[w].j], work[w].out)
        <4>2. \/ job'[work[w].j] = done
              \/ job'[work[w].j] = [done EXCEPT !.attempt = work[w].att + 1,
                                                !.backoff = "waiting"]
          BY <1>0, <1>5, <2>3, <3>1, <4>1 DEF Commit
        <4>3. done \in JobRow /\ done.lock = job[work[w].j].lock + 1
          BY <2>3, RowTypes, RowFacts
        <4> HIDE DEF done
        <4>4. job'[work[w].j].lock = job[work[w].j].lock + 1
          BY <4>2, <4>3 DEF JobRow
        <4> QED
          BY <2>2, <2>3, <3>1, <4>4 DEF Fenced
      <3>2. CASE ~Fenced(w)
        BY <1>5, <2>2, <3>2 DEF Commit, Fenced
      <3> QED
        BY <3>1, <3>2, <3>3
    <2>5. WorkCase(w)
      BY <2>1, <2>2, <2>4 DEF WorkCase
    <2> QED
      BY <1>0, <2>1, <2>5, OneExecution
  <1>6. ASSUME NEW w \in Workers, StepErrs(w) PROVE \A v \in Workers : WorkCase(v)
    <2>1. /\ work' = [work EXCEPT ![w].pc = "releasing"] /\ Busy(w)
          /\ used'["error"] > 0
      BY <1>0, <1>6 DEF StepErrs, Busy, Spend
    <2>2. /\ work'[w].j = work[w].j /\ work'[w].token = work[w].token
          /\ work'[w].hb = work[w].hb
      BY <1>0, <2>1 DEF Execution
    <2>3. WorkCase(w)
      BY <2>1, <2>2 DEF WorkCase
    <2> QED
      BY <1>0, <2>1, <2>3, OneExecution
  <1>7. ASSUME NEW w \in Workers,
               Release(w) \/ ReleaseSkipped(w) \/ ReleaseErrs(w) \/ Crash(w)
        PROVE  \A v \in Workers : WorkCase(v)
    <2>1. work' = [work EXCEPT ![w] = Idle]
      BY <1>7 DEF Release, ReleaseSkipped, ReleaseErrs, Crash
    <2>2. WorkCase(w)
      BY <1>0, <2>1 DEF WorkCase, Idle
    <2> QED
      BY <1>0, <2>1, <2>2, OneExecution
  <1>8. ASSUME NEW w \in Workers, Heartbeat(w)
        PROVE  \A v \in Workers : WorkCase(v)
    <2>1. CASE HoldsLease(w)
      BY <1>8, <2>1, SameExecutions DEF Heartbeat
    <2>2. CASE ~HoldsLease(w)
      <3>1. work' = [work EXCEPT ![w].hb = "off"] /\ Busy(w)
        BY <1>8, <2>2 DEF Heartbeat, Busy
      <3>2. SamePlace(w)
        BY <1>0, <3>1 DEF SamePlace, Execution
      <3>3. WorkCase(w)
        BY <2>2, <3>1, <3>2 DEF WorkCase
      <3> QED
        BY <1>0, <3>1, <3>3, OneExecution
    <2> QED
      BY <2>1, <2>2
  <1>9. ASSUME NEW w \in Workers, HeartbeatErrs(w)
        PROVE  \A v \in Workers : WorkCase(v)
    <2>1. work' = [work EXCEPT ![w].hb = "failed"] /\ used'["error"] > 0
      BY <1>0, <1>9 DEF HeartbeatErrs, Spend
    <2>2. SamePlace(w)
      BY <1>0, <2>1 DEF SamePlace, Execution
    <2>3. WorkCase(w)
      BY <2>1, <2>2 DEF WorkCase
    <2> QED
      BY <1>0, <2>1, <2>3, OneExecution
  <1>10. CASE UNCHANGED work
    BY <1>10, SameExecutions
  <1> QED
    BY <1>1, <1>2, <1>3, <1>4, <1>5, <1>6, <1>7, <1>8, <1>9, <1>10
       DEF Next, ClientStep, Accept, CancelReads, RequestCancel, EngineSettles, BrokerStep,
           Dispatch, DispatchTwice, LoseDelivery, TimeStep, LeaseLapses, HeartbeatStalls,
           BackoffElapses, Receive, Skip, Proceed, WorkerFault, BeatStep,
           ReapSelects, Reap, WakeSelects, Wake, SweepDies

LEMMA NextSweeps == ASSUME IInv, Next PROVE SweepCase
  <1>1. \A k \in FaultKinds : used'[k] \in Nat /\ used[k] \in Nat /\ used[k] <= used'[k]
    <2>0. used \in [FaultKinds -> Nat]
      BY DEF IInv, TypeOK
    <2>1. used' = used \/ \E k \in FaultKinds : Spend(k)
      BY DEF Next, ClientStep, Accept, CancelReads, RequestCancel, EngineSettles, BrokerStep,
             Dispatch, DispatchTwice, LoseDelivery, TimeStep, LeaseLapses, HeartbeatStalls,
             BackoffElapses, Receive, Acquire, Skip, Proceed, Load, HandlerEnds,
             MarkJobFailed, Commit, Release, ReleaseSkipped, Heartbeat, WorkerFault,
             MarkJobFailedErrs, StepErrs, ReleaseErrs, HeartbeatErrs, Crash,
             BeatStep, ReapSelects, Reap, WakeSelects, Wake, SweepDies, FaultKinds
    <2> QED
      BY <2>0, <2>1 DEF Spend
  <1>2. reaping' \subseteq reaping \/ ReapSelects
    BY DEF Next, ClientStep, Accept, CancelReads, RequestCancel, EngineSettles, BrokerStep,
           Dispatch, DispatchTwice, LoseDelivery, TimeStep, LeaseLapses, HeartbeatStalls,
           BackoffElapses, Receive, Acquire, Skip, Proceed, Load, HandlerEnds,
           MarkJobFailed, Commit, Release, ReleaseSkipped, Heartbeat, WorkerFault,
           MarkJobFailedErrs, StepErrs, ReleaseErrs, HeartbeatErrs, Crash,
           BeatStep, Reap, WakeSelects, Wake, SweepDies
  <1>3. waking' \subseteq waking \/ WakeSelects
    BY DEF Next, ClientStep, Accept, CancelReads, RequestCancel, EngineSettles, BrokerStep,
           Dispatch, DispatchTwice, LoseDelivery, TimeStep, LeaseLapses, HeartbeatStalls,
           BackoffElapses, Receive, Acquire, Skip, Proceed, Load, HandlerEnds,
           MarkJobFailed, Commit, Release, ReleaseSkipped, Heartbeat, WorkerFault,
           MarkJobFailedErrs, StepErrs, ReleaseErrs, HeartbeatErrs, Crash,
           BeatStep, ReapSelects, Reap, Wake, SweepDies
  <1> QED
    BY <1>1, <1>2, <1>3 DEF SweepCase, ReapSelects, WakeSelects

LEMMA NextMessages == ASSUME IInv, Next PROVE \A j \in JobIds : MessageCase(j)
  <1>0. /\ job \in [JobIds -> JobRow] /\ work \in [Workers -> Execution]
        /\ outbox \in [JobIds -> Nat] /\ msgs \in [JobIds -> Nat]
        /\ used \in [FaultKinds -> Nat]
    BY DEF IInv, TypeOK
  <1>1. ASSUME NEW j \in JobIds, outbox'[j] = outbox[j], msgs'[j] = msgs[j]
        PROVE  MessageCase(j)
    BY <1>1 DEF MessageCase, Undelivered
  <1>2. ASSUME NEW j \in JobIds, outbox'[j] = outbox[j] + 1, msgs'[j] = msgs[j],
               \/ job[j].st = "absent" \/ job'[j].st = "cancel_requested"
               \/ On(j) # {} \/ Swept(j)
        PROVE  MessageCase(j)
    <2>1. ~Undelivered(j)'
      BY <1>0, <1>2 DEF Undelivered
    <2> QED
      BY <1>2, <2>1 DEF MessageCase
  <1>3. ASSUME NEW i \in JobIds, Accept(i) \/ RequestCancel(i)
        PROVE  \A j \in JobIds : MessageCase(j)
    <2>1. \A j \in JobIds : j # i => outbox'[j] = outbox[j]
      BY <1>0, <1>3 DEF Accept, RequestCancel
    <2>2. outbox'[i] = outbox[i] + 1 /\ msgs' = msgs
      BY <1>0, <1>3 DEF Accept, RequestCancel
    <2>3. Moved(job[i], "cancel_requested").st = "cancel_requested"
      BY <1>0, RowFacts DEF JobStatus
    <2>4. job[i].st = "absent" \/ job'[i].st = "cancel_requested"
      BY <1>0, <1>3, <2>3 DEF Accept, RequestCancel
    <2> QED
      BY <1>1, <1>2, <2>1, <2>2, <2>4
  <1>4. ASSUME NEW i \in JobIds, Dispatch(i) \/ DispatchTwice(i)
        PROVE  \A j \in JobIds : MessageCase(j)
    <2>1. \A j \in JobIds : j # i => outbox'[j] = outbox[j] /\ msgs'[j] = msgs[j]
      BY <1>0, <1>4 DEF Dispatch, DispatchTwice
    <2>2. Undelivered(i)' <=> Undelivered(i)
      BY <1>0, <1>4 DEF Dispatch, DispatchTwice, Undelivered
    <2>3. MessageCase(i)
      BY <2>2 DEF MessageCase
    <2> QED
      BY <1>1, <2>1, <2>3
  <1>5. ASSUME NEW i \in JobIds, LoseDelivery(i)
        PROVE  \A j \in JobIds : MessageCase(j)
    <2>1. used'["drop"] > 0 /\ ~Undelivered(i)
      BY <1>0, <1>5 DEF LoseDelivery, Spend, FaultKinds, Undelivered
    <2>2. \A j \in JobIds : j # i => outbox'[j] = outbox[j] /\ msgs'[j] = msgs[j]
      BY <1>0, <1>5 DEF LoseDelivery
    <2>3. MessageCase(i)
      BY <2>1 DEF MessageCase
    <2> QED
      BY <1>1, <2>2, <2>3
  <1>6. ASSUME NEW w \in Workers, NEW i \in JobIds, Receive(w, i)
        PROVE  \A j \in JobIds : MessageCase(j)
    <2>1. \A j \in JobIds : j # i => outbox'[j] = outbox[j] /\ msgs'[j] = msgs[j]
      BY <1>0, <1>6 DEF Receive, Acquire, Skip
    <2>2. MessageCase(i)
      BY <1>6 DEF Receive, MessageCase
    <2> QED
      BY <1>1, <2>1, <2>2
  <1>7. ASSUME NEW w \in Workers, Commit(w) PROVE \A j \in JobIds : MessageCase(j)
    <2>1. work[w].j \in JobIds /\ w \in On(work[w].j)
      BY <1>7, BusyHasJob DEF IInv, Commit, On
    <2>2. \A j \in JobIds : j # work[w].j => outbox'[j] = outbox[j]
      BY <1>0, <1>7 DEF Commit
    <2>3. \/ outbox'[work[w].j] = outbox[work[w].j]
          \/ outbox'[work[w].j] = outbox[work[w].j] + 1
      BY <1>0, <1>7, <2>1 DEF Commit
    <2>4. msgs' = msgs
      BY <1>7 DEF Commit
    <2> QED
      BY <1>1, <1>2, <2>1, <2>2, <2>3, <2>4
  <1>8. ASSUME NEW w \in Workers, Crash(w) PROVE \A j \in JobIds : MessageCase(j)
    <2>1. PICK i \in JobIds : work[w].j = i
      BY <1>8, BusyHasJob DEF IInv, Crash
    <2>2. /\ \A j \in JobIds : j # i => msgs'[j] = msgs[j]
          /\ msgs'[i] = msgs[i] + 1
          /\ outbox' = outbox
      BY <1>0, <1>8, <2>1 DEF Crash
    <2>3. ~Undelivered(i)' /\ On(i) # {}
      BY <1>0, <2>1, <2>2 DEF Undelivered, On
    <2>4. MessageCase(i)
      BY <2>3 DEF MessageCase
    <2> QED
      BY <1>1, <2>2, <2>4
  <1>9. CASE Reap
    BY <1>1, <1>2, <1>9 DEF Reap, Swept
  <1>10. CASE Wake
    BY <1>1, <1>2, <1>10 DEF Wake, Swept
  <1>11. CASE UNCHANGED <<outbox, msgs>>
    BY <1>1, <1>11
  <1> QED
    BY <1>3, <1>4, <1>5, <1>6, <1>7, <1>8, <1>9, <1>10, <1>11
       DEF Next, ClientStep, CancelReads, EngineSettles, BrokerStep, TimeStep, LeaseLapses,
           HeartbeatStalls, BackoffElapses, Proceed, Load, HandlerEnds, MarkJobFailed, Release,
           ReleaseSkipped, Heartbeat, WorkerFault, MarkJobFailedErrs, StepErrs,
           ReleaseErrs, HeartbeatErrs, BeatStep, ReapSelects, WakeSelects, SweepDies

\* A worker that is busy after a step was busy on the same job before it, with
\* the same token, unless the step is its Acquire.
LEMMA BusyBefore ==
    ASSUME NEW w \in Workers, WorkCase(w), Busy(w)',
           ~\E j \in JobIds : Acquire(w, j)
    PROVE  /\ Busy(w)
           /\ work'[w].j = work[w].j /\ work'[w].token = work[w].token
  BY DEF WorkCase, SamePlace, Busy

\* The workers on a job, as states and steps see them.
LEMMA OnBusy ==
    ASSUME TypeOK, NEW j \in JobIds, NEW w \in Workers
    PROVE  w \in On(j) <=> Busy(w) /\ work[w].j = j
  BY DEF TypeOK, On, Busy

-----------------------------------------------------------------------------
(* A worker that is running a job can be reaped.  A busy worker that holds *)
(* the lease of a running job holds its current version; when it releases, *)
(* it does not any more, or the flow engine has settled its job; so the    *)
(* lease it frees is never a running job's.                                *)
HolderFenced ==
    \A w \in Workers :
        (Busy(w) /\ HoldsLease(w) /\ job[work[w].j].st = "running") => Fenced(w)

ReleasesStale ==
    \A w \in Workers : work[w].pc = "releasing" =>
        ~Fenced(w) \/ job[work[w].j].st \in TERMINAL_STATUSES

ReapableInv ==
    (OwnersDistinct /\ used["error"] = 0) =>
        /\ HolderFenced
        /\ ReleasesStale
        /\ \A j \in JobIds : job[j].st = "running" => Leased(job[j])

LEMMA ReapableInit == Init => ReapableInv
  BY DEF Init, ReapableInv, HolderFenced, ReleasesStale, Busy, Idle

LEMMA ReapableNext == IInv /\ IInv' /\ ReapableInv /\ Next => ReapableInv'
  <1> SUFFICES ASSUME IInv, IInv', ReapableInv, Next,
                      OwnersDistinct, used'["error"] = 0
               PROVE  /\ HolderFenced'
                      /\ ReleasesStale'
                      /\ \A j \in JobIds : job'[j].st = "running" => Leased(job'[j])
    BY DEF ReapableInv, OwnersDistinct, Leased
  <1>0. /\ TypeOK /\ TypeOK'
        /\ \A j \in JobIds : RowCase(j)
        /\ \A w \in Workers : WorkCase(w)
    BY NextRows, NextExecutions DEF IInv
  <1>1. used["error"] = 0
    <2>1. used'["error"] \in Nat /\ used["error"] \in Nat /\ used["error"] <= used'["error"]
      BY NextSweeps DEF SweepCase, FaultKinds
    <2> QED
      BY <2>1
  <1>2. /\ HolderFenced /\ ReleasesStale
        /\ \A j \in JobIds : job[j].st = "running" => Leased(job[j])
    BY <1>1 DEF ReapableInv
  <1>3. /\ \A j \in JobIds : job[j].lock \in Nat
        /\ \A w \in Workers : work[w].token \in Nat
    BY <1>0 DEF TypeOK, JobRow, Execution
  <1>4. HolderFenced'
    <2> SUFFICES ASSUME NEW w \in Workers, Busy(w)', HoldsLease(w)',
                        job'[work'[w].j].st = "running"
                 PROVE  Fenced(w)'
      BY DEF HolderFenced
    <2>1. ASSUME NEW j \in JobIds, Acquire(w, j) PROVE Fenced(w)'
      BY <2>1, AcquireFacts DEF Fenced
    <2>2. CASE ~\E j \in JobIds : Acquire(w, j)
      <3>1. Busy(w) /\ work'[w].j = work[w].j /\ work'[w].token = work[w].token
        BY <1>0, <2>2, BusyBefore
      <3>2. PICK j \in JobIds : work[w].j = j
        BY <1>0, <3>1 DEF TypeOK, Busy
      <3>3. job'[j].owner = OwnerOf[w] /\ job'[j].st = "running"
        BY <3>1, <3>2 DEF HoldsLease
      <3>4. ASSUME SameStatus(j), job'[j].owner = job[j].owner PROVE Fenced(w)'
        <4>1. Fenced(w)
          BY <1>2, <3>1, <3>2, <3>3, <3>4 DEF HolderFenced, HoldsLease, SameStatus
        <4> QED
          BY <3>1, <3>2, <3>4, <4>1 DEF Fenced, SameStatus
      <3>5. ASSUME NEW v \in Workers, Acquire(v, j) PROVE FALSE
        <4>1. v # w
          BY <2>2, <3>5
        <4> QED
          BY <3>3, <3>5, <4>1, AcquireFacts DEF OwnersDistinct
      <3>6. ~Freed(j)
        BY <3>3, JobsAssumption DEF Freed
      <3>7. ~MoveCase(j)
        BY <3>3 DEF MoveCase, Outcomes
      <3>8. ~SettleCase(j)
        BY <3>3 DEF SettleCase, SettledByEngine, TERMINAL_STATUSES
      <3> QED
        BY <1>0, <3>3, <3>4, <3>5, <3>6, <3>7, <3>8 DEF RowCase, SameLease
    <2> QED
      BY <2>1, <2>2
  <1>5. ReleasesStale'
    <2> SUFFICES ASSUME NEW w \in Workers, work'[w].pc = "releasing"
                 PROVE  ~Fenced(w)' \/ job'[work'[w].j].st \in TERMINAL_STATUSES
      BY DEF ReleasesStale
    <2>1. ASSUME NEW j \in JobIds, Acquire(w, j) PROVE FALSE
      BY <2>1, AcquireFacts
    <2>2. CASE work[w].pc = "releasing" /\ SamePlace(w)
      <3>1. PICK j \in JobIds : work[w].j = j
        BY <1>0, <2>2 DEF TypeOK
      <3>2. /\ work[w].token <= job[j].lock
            /\ work[w].token < job[j].lock \/ job[j].st \in TERMINAL_STATUSES
        BY <1>2, <1>3, <2>2, <3>1
           DEF ReleasesStale, Fenced, IInv, FencingInv, TokensNotAhead
      <3>3. /\ job[j].lock <= job'[j].lock
            /\ (job[j].st \in TERMINAL_STATUSES /\ job'[j].lock = job[j].lock)
                 => job'[j].st \in TERMINAL_STATUSES
        BY <1>0, <1>3, AcquireFacts
           DEF RowCase, SameStatus, MoveCase, SettleCase, SettledByEngine,
               TERMINAL_STATUSES
      <3>4. job'[j].lock \in Nat
        BY <1>0 DEF TypeOK, JobRow
      <3> QED
        BY <1>3, <2>2, <3>1, <3>2, <3>3, <3>4 DEF SamePlace, Fenced
    <2> QED
      BY <1>0, <2>1, <2>2 DEF WorkCase, SamePlace
  <1>6. ASSUME NEW j \in JobIds, job'[j].st = "running" PROVE Leased(job'[j])
    <2>1. ASSUME SameStatus(j), job'[j].owner = job[j].owner PROVE Leased(job'[j])
      BY <1>2, <1>6, <2>1 DEF SameStatus, Leased
    <2>2. ASSUME NEW w \in On(j), work[w].pc = "releasing", HoldsLease(w), SameStatus(j)
          PROVE  FALSE
      <3>1. Busy(w) /\ work[w].j = j /\ w \in Workers
        BY <2>2 DEF On, Busy
      <3> QED
        BY <1>2, <1>6, <2>2, <3>1
           DEF HolderFenced, ReleasesStale, SameStatus, TERMINAL_STATUSES
    <2>3. ASSUME NEW w \in Workers, Acquire(w, j) PROVE Leased(job'[j])
      BY <2>3, AcquireFacts, JobsAssumption DEF Leased
    <2>4. ~MoveCase(j)
      BY <1>6 DEF MoveCase, Outcomes
    <2>5. ~SettleCase(j)
      BY <1>6 DEF SettleCase, SettledByEngine, TERMINAL_STATUSES
    <2> QED
      BY <1>0, <1>6, <2>1, <2>2, <2>3, <2>4, <2>5 DEF RowCase, SameLease
  <1> QED
    BY <1>4, <1>5, <1>6

(* With distinct owner ids and no failed commit, a running job always has  *)
(* an owner, so its lease can lapse and the reaper find it.                *)
THEOREM RunningReapable == Spec => []RunningJobReapable
  <1>1. UNCHANGED vars /\ ReapableInv => ReapableInv'
    BY DEF vars, ReapableInv, HolderFenced, ReleasesStale, Busy, HoldsLease, Fenced,
           Leased, OwnersDistinct
  <1>2. ReapableInv => RunningJobReapable
    BY DEF ReapableInv, RunningJobReapable
  <1>3. IInv /\ IInv' /\ ReapableInv /\ [Next]_vars => ReapableInv'
    BY <1>1, ReapableNext
  <1> QED
    BY <1>2, <1>3, InitInv, NextInv, ReapableInit, PTL DEF Spec

-----------------------------------------------------------------------------
(* A job that waits for its first start has an event or a message.         *)
FreshInv ==
    /\ \A j \in JobIds :
         (job[j].attempt = 0 /\ job[j].st \in {"absent", "accepted", "queued"})
             => job[j].owner = NoOwner
    /\ \A j \in JobIds :
         (j \in waking \/ job[j].st = "retry_wait") => job[j].attempt > 0
    /\ FreshJobsCovered

LEMMA FreshInit == Init => FreshInv
  BY DEF Init, FreshInv, FreshJobsCovered

LEMMA FreshNext == IInv /\ IInv' /\ FreshInv /\ Next => FreshInv'
  <1> SUFFICES ASSUME IInv, IInv', FreshInv, Next PROVE FreshInv'
    OBVIOUS
  <1>0. /\ TypeOK /\ TypeOK' /\ SweepCase
        /\ \A j \in JobIds : RowCase(j)
        /\ \A j \in JobIds : MessageCase(j)
        /\ \A j \in JobIds : job[j].attempt \in Nat /\ job'[j].attempt \in Nat
    BY NextRows, NextSweeps, NextMessages DEF IInv, TypeOK, JobRow
  <1>1. ASSUME NEW j \in JobIds
        PROVE  job'[j].attempt >= job[j].attempt
    BY <1>0, AcquireFacts DEF RowCase, SameStatus, MoveCase, SettleCase
  <1>2. ASSUME NEW j \in JobIds, NEW w \in Workers, Acquire(w, j)
        PROVE  job'[j].st = "running"
    BY <1>2, AcquireFacts
  <1>3. ASSUME NEW j \in JobIds, job'[j].attempt = 0,
               job'[j].st \in {"absent", "accepted", "queued"}
        PROVE  job'[j].owner = NoOwner
    <2>1. job[j].attempt = 0 /\ j \notin waking
      BY <1>0, <1>1, <1>3 DEF FreshInv
    <2>2. ~MoveCase(j)
      BY <1>3, <2>1 DEF MoveCase, Outcomes
    <2>3. ~SettleCase(j)
      BY <1>3 DEF SettleCase, SettledByEngine, TERMINAL_STATUSES
    <2> QED
      BY <1>0, <1>2, <1>3, <2>1, <2>2, <2>3
         DEF RowCase, SameStatus, SameLease, Freed, FreshInv
  <1>4. ASSUME NEW j \in JobIds, j \in waking' \/ job'[j].st = "retry_wait"
        PROVE  job'[j].attempt > 0
    <2>1. CASE j \in waking \/ job[j].st = "retry_wait"
      BY <1>0, <1>1, <2>1 DEF FreshInv
    <2>2. CASE ~(j \in waking \/ job[j].st = "retry_wait")
      <3>1. job'[j].st = "retry_wait"
        BY <1>0, <1>4, <2>2 DEF SweepCase
      <3> QED
        BY <1>0, <1>2, <2>2, <3>1
           DEF RowCase, SameStatus, MoveCase, Outcomes, SettleCase,
               SettledByEngine, TERMINAL_STATUSES
    <2> QED
      BY <2>1, <2>2
  <1>5. FreshJobsCovered'
    <2> SUFFICES ASSUME used'["drop"] = 0, NEW j \in JobIds,
                        job'[j].st \in {"accepted", "queued"}, job'[j].attempt = 0
                 PROVE  ~Undelivered(j)'
      BY DEF FreshJobsCovered
    <2>1. job[j].attempt = 0 /\ j \notin waking /\ used["drop"] = 0
      <3>1. used'["drop"] \in Nat /\ used["drop"] \in Nat /\ used["drop"] <= used'["drop"]
        BY <1>0 DEF SweepCase, FaultKinds
      <3> QED
        BY <1>0, <1>1, <3>1 DEF FreshInv
    <2>2. ~MoveCase(j)
      BY <2>1 DEF MoveCase, Outcomes
    <2>3. CASE SameStatus(j)
      <3>1. ~Undelivered(j) /\ job[j].owner = NoOwner
        BY <2>1, <2>3 DEF SameStatus, FreshInv, FreshJobsCovered
      <3>2. ASSUME NEW w \in Workers, Skip(w, j) PROVE FALSE
        BY <2>3, <3>1, <3>2
           DEF Skip, Acquirable, LEASEABLE_STATUSES, Leased, SameStatus
      <3>3. ASSUME NEW w \in Workers, Acquire(w, j) PROVE FALSE
        BY <1>2, <3>3
      <3> QED
        BY <1>0, <3>1, <3>2, <3>3 DEF MessageCase
    <2>4. ~SettleCase(j)
      BY DEF SettleCase, SettledByEngine, TERMINAL_STATUSES
    <2> QED
      BY <1>0, <1>2, <2>2, <2>3, <2>4 DEF RowCase
  <1> QED
    BY <1>3, <1>4, <1>5 DEF FreshInv

(* As long as no message is lost, an accepted or requeued job that has not *)
(* been retried has an undelivered event or a message.                     *)
THEOREM FreshCovered == Spec => []FreshJobsCovered
  <1>1. UNCHANGED vars /\ FreshInv => FreshInv'
    BY DEF vars, FreshInv, FreshJobsCovered, Undelivered
  <1>2. FreshInv => FreshJobsCovered
    BY DEF FreshInv
  <1>3. IInv /\ IInv' /\ FreshInv /\ [Next]_vars => FreshInv'
    BY <1>1, FreshNext
  <1> QED
    BY <1>2, <1>3, InitInv, NextInv, FreshInit, PTL DEF Spec

-----------------------------------------------------------------------------
(* One handler at a time.  While no heartbeat stalls or dies, every busy   *)
(* worker renews a live lease of its own, so no other worker can acquire   *)
(* its job; a job selected by the reaper has no worker and cannot be       *)
(* started before the reaper's update; and the lease of a job that runs    *)
(* does not lapse under an open retry_wait transaction.  Nothing is        *)
(* assumed of the owner ids: two workers may share one.                    *)
Beating ==
    \A w \in Workers : Busy(w) => /\ work[w].hb = "on"
                                  /\ HoldsLease(w)
                                  /\ job[work[w].j].lease = "live"

Alone ==
    \A v, w \in Workers :
        (Busy(v) /\ Busy(w) /\ work[v].j = work[w].j) => v = w

ReapingIdle ==
    \A j \in reaping : /\ On(j) = {} /\ j \notin waking
                       /\ job[j].st \notin LEASEABLE_STATUSES \cup {"absent"}

WakingLive == \A j \in waking : job[j].st = "running" => job[j].lease # "lapsed"

CalmInv ==
    used["stall"] + used["error"] = 0 =>
        Beating /\ Alone /\ ReapingIdle /\ WakingLive

LEMMA CalmInit == Init => CalmInv
  BY DEF Init, CalmInv, Beating, Alone, ReapingIdle, WakingLive, Busy, Idle

LEMMA CalmNext == IInv /\ IInv' /\ CalmInv /\ Next => CalmInv'
  <1> SUFFICES ASSUME IInv, IInv', CalmInv, Next,
                      used'["stall"] + used'["error"] = 0
               PROVE  Beating' /\ Alone' /\ ReapingIdle' /\ WakingLive'
    BY DEF CalmInv
  <1>0. /\ TypeOK /\ TypeOK' /\ SweepCase
        /\ \A j \in JobIds : RowCase(j)
        /\ \A w \in Workers : WorkCase(w)
    BY NextRows, NextExecutions, NextSweeps DEF IInv
  <1>1. /\ used["stall"] + used["error"] = 0
        /\ used'["stall"] = 0 /\ used'["error"] = 0
    <2>1. /\ used'["error"] \in Nat /\ used["error"] \in Nat /\ used["error"] <= used'["error"]
          /\ used'["stall"] \in Nat /\ used["stall"] \in Nat /\ used["stall"] <= used'["stall"]
      BY <1>0 DEF SweepCase, FaultKinds
    <2> QED
      BY <2>1
  <1>2. Beating /\ Alone /\ ReapingIdle /\ WakingLive
    BY <1>1 DEF CalmInv
  <1>3. ASSUME NEW v \in Workers, NEW w \in Workers, NEW j \in JobIds,
               Acquire(v, j), Busy(w), work[w].j = j
        PROVE  FALSE
    <2>1. job[j].lease = "live" /\ job[j].owner = OwnerOf[w]
      BY <1>2, <1>3 DEF Beating, HoldsLease
    <2>2. OwnerOf[w] # NoOwner
      BY JobsAssumption
    <2> QED
      BY <1>3, <2>1, <2>2, AcquireFacts
  <1>4. Beating'
    <2> SUFFICES ASSUME NEW w \in Workers, Busy(w)'
                 PROVE  /\ work'[w].hb = "on" /\ HoldsLease(w)'
                        /\ job'[work'[w].j].lease = "live"
      BY DEF Beating
    <2>1. ASSUME NEW j \in JobIds, Acquire(w, j)
          PROVE  /\ work'[w].hb = "on" /\ HoldsLease(w)'
                 /\ job'[work'[w].j].lease = "live"
      BY <2>1, AcquireFacts DEF HoldsLease
    <2>2. CASE ~\E j \in JobIds : Acquire(w, j)
      <3>1. Busy(w) /\ work'[w].j = work[w].j
        BY <1>0, <2>2, BusyBefore
      <3>2. PICK j \in JobIds : work[w].j = j
        BY <1>0, <3>1 DEF TypeOK, Busy
      <3>3. /\ work[w].hb = "on" /\ HoldsLease(w) /\ w \in On(j)
            /\ job[j].lease = "live" /\ job[j].owner = OwnerOf[w]
        BY <1>2, <3>1, <3>2 DEF Beating, HoldsLease, On
      <3>4. work'[w].hb = "on"
        BY <1>0, <1>1, <2>2, <3>1, <3>3 DEF WorkCase, Busy
      <3>5. Renewed(j)
        BY <3>3 DEF Renewed
      <3>6. ASSUME NEW v \in On(j), work'[v].pc = "idle", work[v].pc = "releasing"
            PROVE  FALSE
        <4>1. v \in Workers /\ Busy(v) /\ work[v].j = j
          BY <3>6 DEF On, Busy
        <4>2. v = w
          BY <1>2, <3>1, <3>2, <4>1 DEF Alone
        <4> QED
          BY <3>6, <4>2 DEF Busy
      <3>7. ~\E v \in Workers : Acquire(v, j)
        BY <1>3, <3>1, <3>2
      <3>8. j \notin reaping
        BY <1>2, <3>3 DEF ReapingIdle
      <3>9. job'[j].lease = "live" /\ job'[j].owner = OwnerOf[w]
        BY <1>0, <1>1, <3>3, <3>5, <3>6, <3>7, <3>8
           DEF RowCase, SameLease, MoveCase, SettleCase
      <3> QED
        BY <3>1, <3>2, <3>4, <3>9 DEF HoldsLease
    <2> QED
      BY <2>1, <2>2
  <1>5. Alone'
    <2> SUFFICES ASSUME NEW v \in Workers, NEW w \in Workers, Busy(v)', Busy(w)',
                        work'[v].j = work'[w].j, v # w
                 PROVE  FALSE
      BY DEF Alone
    <2>1. ASSUME NEW x \in Workers, NEW y \in Workers, x # y, Busy(y)',
                 work'[y].j = work'[x].j, NEW j \in JobIds, Acquire(x, j)
          PROVE  FALSE
      <3>1. work'[x].j = j /\ work'[y] = work[y]
        BY <2>1, AcquireFacts
      <3>2. Busy(y) /\ work[y].j = j
        BY <2>1, <3>1 DEF Busy
      <3> QED
        BY <1>3, <2>1, <3>2
    <2>2. /\ ~\E j \in JobIds : Acquire(v, j)
          /\ ~\E j \in JobIds : Acquire(w, j)
      BY <2>1
    <2>3. Busy(v) /\ Busy(w) /\ work[v].j = work[w].j
      BY <1>0, <2>2, BusyBefore
    <2> QED
      BY <1>2, <2>3 DEF Alone
  <1>6. ReapingIdle'
    <2> SUFFICES ASSUME NEW j \in JobIds, j \in reaping'
                 PROVE  /\ On(j)' = {} /\ j \notin waking'
                        /\ job'[j].st \notin LEASEABLE_STATUSES \cup {"absent"}
      BY <1>0 DEF ReapingIdle, TypeOK
    <2>1. CASE j \in reaping
      <3>1. /\ On(j) = {} /\ j \notin waking
            /\ job[j].st \notin LEASEABLE_STATUSES \cup {"absent"}
        BY <1>2, <2>1 DEF ReapingIdle
      <3>2. ~\E w \in Workers : Acquire(w, j)
        BY <3>1, AcquireFacts
      <3>3. On(j)' = {}
        <4> SUFFICES ASSUME NEW w \in Workers, work'[w].j = j PROVE FALSE
          BY DEF On
        <4>1. Busy(w)'
          BY <1>0 DEF TypeOK, Busy
        <4>2. ~\E i \in JobIds : Acquire(w, i)
          BY <3>2, AcquireFacts
        <4> QED
          BY <1>0, <3>1, <4>1, <4>2, BusyBefore DEF On
      <3>4. j \notin waking'
        BY <1>0, <3>1 DEF SweepCase, LEASEABLE_STATUSES
      <3>5. job'[j].st \notin LEASEABLE_STATUSES \cup {"absent"}
        BY <1>0, <2>1, <3>1, <3>2
           DEF RowCase, SameStatus, MoveCase, SettleCase, SettledByEngine,
               LEASEABLE_STATUSES, TERMINAL_STATUSES
      <3> QED
        BY <3>3, <3>4, <3>5
    <2>2. CASE j \notin reaping
      <3>1. Expired(job[j]) /\ UNCHANGED <<job, work, waking>>
        BY <1>0, <2>2 DEF SweepCase
      <3>2. On(j) = {}
        <4> SUFFICES ASSUME NEW w \in Workers, w \in On(j) PROVE FALSE
          BY DEF On
        <4>1. Busy(w) /\ work[w].j = j
          BY <1>0, OnBusy
        <4> QED
          BY <1>2, <3>1, <4>1 DEF Beating, Expired
      <3>3. On(j)' = {}
        BY <3>1, <3>2 DEF On
      <3>4. j \notin waking
        BY <1>2, <3>1 DEF WakingLive, Expired
      <3> QED
        BY <3>1, <3>3, <3>4 DEF Expired, LEASEABLE_STATUSES
    <2> QED
      BY <2>1, <2>2
  <1>7. WakingLive'
    <2> SUFFICES ASSUME NEW j \in JobIds, j \in waking', job'[j].st = "running"
                 PROVE  job'[j].lease # "lapsed"
      BY <1>0 DEF WakingLive, TypeOK
    <2>1. CASE j \in waking
      <3>1. job[j].st = "running" => job[j].lease # "lapsed"
        BY <1>2, <2>1 DEF WakingLive
      <3>2. Swept(j)
        BY <2>1 DEF Swept
      <3>3. ASSUME NEW w \in Workers, Acquire(w, j) PROVE job'[j].lease # "lapsed"
        BY <3>3, AcquireFacts
      <3>4. ~MoveCase(j)
        BY DEF MoveCase, Outcomes
      <3>5. ~SettleCase(j)
        BY DEF SettleCase, SettledByEngine, TERMINAL_STATUSES
      <3> QED
        BY <1>0, <1>1, <3>1, <3>2, <3>3, <3>4, <3>5 DEF RowCase, SameStatus, SameLease, Freed
    <2>2. CASE j \notin waking
      BY <1>0, <2>2 DEF SweepCase
    <2> QED
      BY <2>1, <2>2
  <1> QED
    BY <1>4, <1>5, <1>6, <1>7

(* As long as no heartbeat stalls or dies, at most one execution runs the  *)
(* handler of a job, through crashes, lost messages, cancels, the reaper   *)
(* and stale requeues, however the owner ids are assigned.                 *)
THEOREM Exclusive == Spec => []ExclusiveUnlessStalled
  <1>1. UNCHANGED vars /\ CalmInv => CalmInv'
    BY DEF vars, CalmInv, Beating, Alone, ReapingIdle, WakingLive, Busy, HoldsLease, On
  <1>2. IInv /\ CalmInv => ExclusiveUnlessStalled
    <2> SUFFICES ASSUME TypeOK, Alone, NEW j \in JobIds
                 PROVE  Cardinality(InHandler(j)) <= 1
      BY DEF CalmInv, ExclusiveUnlessStalled, IInv
    <2>1. \A v, w \in InHandler(j) : v = w
      BY DEF InHandler, On, Alone, Busy
    <2>2. CASE InHandler(j) = {}
      BY <2>2, FS_EmptySet
    <2>3. CASE InHandler(j) # {}
      <3>1. PICK w : InHandler(j) = {w}
        BY <2>1, <2>3
      <3> QED
        BY <3>1, FS_Singleton
    <2> QED
      BY <2>2, <2>3
  <1>3. IInv /\ IInv' /\ CalmInv /\ [Next]_vars => CalmInv'
    BY <1>1, CalmNext
  <1> QED
    BY <1>2, <1>3, InitInv, NextInv, CalmInit, PTL DEF Spec

-----------------------------------------------------------------------------
LEMMA StrandedNext ==
    ASSUME IInv, IInv', Next, NEW j \in JobIds, Stranded(j),
           job'[j].st # "cancel_requested", ~SettledByEngine(j)
    PROVE  Stranded(j)'
  <1>0. /\ TypeOK /\ TypeOK' /\ SweepCase /\ RowCase(j) /\ MessageCase(j)
        /\ \A w \in Workers : WorkCase(w)
    BY NextRows, NextExecutions, NextSweeps, NextMessages DEF IInv
  <1>1. /\ On(j) = {} /\ j \notin waking /\ j \notin reaping
        /\ \/ job[j].st \in {"accepted", "queued"} /\ Undelivered(j)
           \/ job[j].st = "running" /\ job[j].lease = "none"
    BY DEF Stranded, Swept
  <1>2. ASSUME NEW w \in Workers, Acquire(w, j) PROVE FALSE
    BY <1>1, <1>2, AcquireFacts DEF LEASEABLE_STATUSES
  <1>3. On(j)' = {}
    <2> SUFFICES ASSUME NEW w \in Workers, work'[w].j = j PROVE FALSE
      BY DEF On
    <2>1. Busy(w)'
      BY <1>0 DEF TypeOK, Busy
    <2>2. ~\E i \in JobIds : Acquire(w, i)
      BY <1>2, AcquireFacts
    <2> QED
      BY <1>0, <1>1, <2>1, <2>2, BusyBefore DEF On
  <1>4. ~Swept(j)'
    BY <1>0, <1>1 DEF Swept, SweepCase, Expired
  <1>5. SameStatus(j) /\ (job[j].st = "running" => SameLease(j))
    <2>1. ~MoveCase(j)
      BY <1>1 DEF MoveCase
    <2> QED
      BY <1>0, <1>1, <1>2, <2>1 DEF RowCase, SettleCase
  <1>6. Undelivered(j) /\ job[j].st \in {"accepted", "queued"} => Undelivered(j)'
    <2>1. ASSUME NEW w \in Workers, Skip(w, j) PROVE ~Undelivered(j)
      BY <1>0, <2>1 DEF Skip, Undelivered, TypeOK
    <2> QED
      BY <1>0, <1>1, <1>2, <2>1 DEF MessageCase, Swept
  <1> QED
    BY <1>1, <1>3, <1>4, <1>5, <1>6 DEF Stranded, SameStatus, SameLease

(* A stranded job stays stranded unless it is cancelled or its flow run is *)
(* resumed or retried in a request: neither the reaper nor retry_wait_jobs,*)
(* a dispatcher or a worker finds it again.                                *)
THEOREM StrandedStays == Spec => StrandedForGood
  <1>1. IInv /\ IInv' /\ [Next]_vars =>
          [\A j \in JobIds : Stranded(j) =>
             \/ Stranded(j)' \/ job'[j].st = "cancel_requested"
             \/ SettledByEngine(j)]_vars
    BY StrandedNext
  <1> QED
    BY <1>1, InitInv, NextInv, PTL DEF Spec, StrandedForGood

-----------------------------------------------------------------------------
\* A version never goes down.
LEMMA LockGrows ==
    ASSUME IInv, Next, TypeOK', NEW j \in JobIds
    PROVE  job'[j].lock >= job[j].lock
  <1>1. job[j] \in JobRow /\ job'[j] \in JobRow
    BY DEF IInv, TypeOK
  <1>2. RowCase(j)
    BY NextRows
  <1>3. (\E w \in Workers : Acquire(w, j)) => job'[j].lock = job[j].lock + 1
    BY AcquireFacts
  <1> QED
    BY <1>1, <1>2, <1>3
       DEF RowCase, SameStatus, MoveCase, SettleCase, SettledByEngine, JobRow

(* Once an execution's token is behind its row, it stays behind: tokens are*)
(* never renewed, versions only grow, and none was ahead (TokensNotAhead). *)
THEOREM OnceFencedOff == Spec => FencedOffForGood
  <1>1. ASSUME IInv, IInv', Next, NEW w \in Workers,
               work[w].pc # "idle", ~Fenced(w), work'[w].pc # "idle"
        PROVE  /\ work'[w].j = work[w].j /\ work'[w].token = work[w].token
               /\ ~Fenced(w)'
    <2>1. /\ work[w].j \in JobIds /\ work[w] \in Execution
          /\ job[work[w].j] \in JobRow /\ job'[work[w].j] \in JobRow
      BY <1>1 DEF IInv, TypeOK
    <2>2. work[w].token < job[work[w].j].lock
      BY <1>1, <2>1 DEF IInv, FencingInv, TokensNotAhead, Fenced, Execution, JobRow
    <2>3. job'[work[w].j].lock >= job[work[w].j].lock
      BY <1>1, <2>1, LockGrows DEF IInv
    <2>4. work'[w].j = work[w].j /\ work'[w].token = work[w].token
      <3>1. ~\E j \in JobIds : Acquire(w, j)
        BY <1>1, AcquireFacts DEF Busy
      <3> QED
        BY <1>1, <3>1, NextExecutions DEF IInv, WorkCase, SamePlace
    <2> QED
      BY <2>1, <2>2, <2>3, <2>4 DEF Fenced, Execution, JobRow
  <1>2. IInv /\ IInv' /\ [Next]_vars =>
          [\A w \in Workers :
             work[w].pc # "idle" /\ ~Fenced(w) /\ work'[w].pc # "idle" =>
                /\ work'[w].j = work[w].j /\ work'[w].token = work[w].token
                /\ ~Fenced(w)']_vars
    BY <1>1
  <1> QED
    BY <1>2, InitInv, NextInv, PTL DEF Spec, FencedOffForGood
================================================================================
