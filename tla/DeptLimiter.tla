----------------------------- MODULE DeptLimiter -----------------------------
(***************************************************************************)
(* The limit on concurrent tasks of one department: DeptConcurrencyLimiter *)
(* (packages/jobs/dept_concurrency.py) as the worker tasks jobs.execute    *)
(* and the legacy research run use it.  The counter is a Redis key with an *)
(* expiry; every command on it is atomic, what a task does between two     *)
(* commands is not.                                                        *)
(*                                                                         *)
(* Redis, from the commands used: INCR and DECR create a missing key at 0  *)
(* without an expiry and otherwise keep the one it has; EXPIRE does        *)
(* nothing to a missing key; SET removes the expiry.                       *)
(*                                                                         *)
(* The expiry is 7200 s and a task is killed after 3600 s (1800 s for the  *)
(* research task): the key cannot lapse under a task whose EXPIRE, or a    *)
(* later one, has reached it.  It can lapse between two commands of a task *)
(* that comes after two quiet hours.                                       *)
(***************************************************************************)
EXTENDS Integers, FiniteSets

CONSTANTS
    Tasks,     \* task slots of the worker processes, for one department
    Max,       \* max_per_dept
    Budget     \* combinations of deaths that may happen, counted by kind

FaultKinds == {"death", "cut"}

ASSUME LimiterAssumption ==
    /\ IsFiniteSet(Tasks)
    /\ Max \in Nat \ {0}
    /\ Budget \subseteq [FaultKinds -> Nat]

VARIABLES
    count,     \* the key's value, 0 if there is no key
    ttl,       \* whether the key exists and expires
    pc,        \* where each task is
    seen,      \* what its INCR returned
    leaked,    \* history: slots in the key whose tasks are dead
    torn,      \* history: has the key lapsed between two commands of a task?
    used       \* faults spent, by kind

vars == <<count, ttl, pc, seen, leaked, torn, used>>

Stages == {"idle", "asked", "serving", "resetting"}

At(stage) == {t \in Tasks : pc[t] = stage}
Held == At("asked") \cup At("serving")
\* Tasks that acquire is about to admit.
Pending == {t \in At("asked") : seen[t] <= Max}

Touched == IF ttl = "absent" THEN "forever" ELSE ttl

Goto(t, stage) == pc' = [pc EXCEPT ![t] = stage] /\ UNCHANGED seen
\* The task has ended; its variables are gone.
Leave(t) ==
    /\ pc' = [pc EXCEPT ![t] = "idle"]
    /\ seen' = [seen EXCEPT ![t] = 0]

Spend(k) ==
    /\ used' = [used EXCEPT ![k] = @ + 1]
    /\ used' \in Budget

Init ==
    /\ count = 0
    /\ ttl = "absent"
    /\ pc = [t \in Tasks |-> "idle"]
    /\ seen = [t \in Tasks |-> 0]
    /\ leaked = 0
    /\ torn = "no"
    /\ used = [k \in FaultKinds |-> 0]

-----------------------------------------------------------------------------
(* acquire and release, one action per Redis command.                      *)

\* acquire: INCR.
Ask(t) ==
    /\ pc[t] = "idle"
    /\ count' = count + 1
    /\ ttl' = Touched
    /\ pc' = [pc EXCEPT ![t] = "asked"]
    /\ seen' = [seen EXCEPT ![t] = count + 1]
    /\ UNCHANGED <<leaked, torn, used>>

\* The answer is taken before the counter is set back.
Slip_RefuseKeeps(t) ==
    /\ pc[t] = "asked"
    /\ seen[t] > Max
    /\ Leave(t)
    /\ UNCHANGED <<count, ttl, leaked, torn, used>>

\* finally releases whether or not the slot was acquired.
Slip_RefuseReleases(t) ==
    /\ pc[t] = "asked"
    /\ seen[t] > Max
    /\ count' = count - 2
    /\ ttl' = Touched
    /\ IF count - 2 < 0 THEN Goto(t, "resetting") ELSE Leave(t)
    /\ UNCHANGED <<leaked, torn, used>>

\* acquire: over the limit, DECR and return False.
Refuse(t) ==
    /\ pc[t] = "asked"
    /\ seen[t] > Max
    /\ count' = count - 1
    /\ ttl' = Touched
    /\ Leave(t)
    /\ UNCHANGED <<leaked, torn, used>>

Slip_AdmitOneMore(t) ==
    /\ pc[t] = "asked"
    /\ seen[t] <= Max + 1
    /\ ttl' = IF ttl = "absent" THEN "absent" ELSE "expiring"
    /\ Goto(t, "serving")
    /\ UNCHANGED <<count, leaked, torn, used>>

Slip_AdmitForever(t) ==
    /\ pc[t] = "asked"
    /\ seen[t] <= Max
    /\ Goto(t, "serving")
    /\ UNCHANGED <<count, ttl, leaked, torn, used>>

\* acquire: EXPIRE and return True.
Admit(t) ==
    /\ pc[t] = "asked"
    /\ seen[t] <= Max
    /\ ttl' = IF ttl = "absent" THEN "absent" ELSE "expiring"
    /\ Goto(t, "serving")
    /\ UNCHANGED <<count, leaked, torn, used>>

\* release: DECR ...
Release(t) ==
    /\ pc[t] = "serving"
    /\ count' = count - 1
    /\ ttl' = Touched
    /\ IF count - 1 < 0 THEN Goto(t, "resetting") ELSE Leave(t)
    /\ UNCHANGED <<leaked, torn, used>>

\* ... and SET 0 if that made it negative.
Reset(t) ==
    /\ pc[t] = "resetting"
    /\ count' = 0
    /\ ttl' = "forever"
    /\ Leave(t)
    /\ UNCHANGED <<leaked, torn, used>>

-----------------------------------------------------------------------------
(* The worker, and the expiry.                                             *)

\* The worker is killed, or loses Redis, while the task is at work ...
Die(t) ==
    /\ pc[t] = "serving"
    /\ Spend("death")
    /\ leaked' = leaked + 1
    /\ Leave(t)
    /\ UNCHANGED <<count, ttl, torn>>

\* ... or between two commands.
Cut(t) ==
    /\ pc[t] \in {"asked", "resetting"}
    /\ Spend("cut")
    /\ leaked' = IF pc[t] = "asked" THEN leaked + 1 ELSE leaked
    /\ Leave(t)
    /\ UNCHANGED <<count, ttl, torn>>

\* Two hours have passed since the last EXPIRE.
Lapse ==
    /\ ttl = "expiring"
    /\ At("serving") = {}
    /\ count' = 0
    /\ ttl' = "absent"
    /\ leaked' = 0
    /\ torn' = IF \A t \in Tasks : pc[t] = "idle" THEN torn ELSE "yes"
    /\ UNCHANGED <<pc, seen, used>>

Next ==
    \/ \E t \in Tasks : \/ Ask(t) \/ Refuse(t) \/ Admit(t)
                        \/ Release(t) \/ Reset(t)
                        \/ Die(t) \/ Cut(t)
    \/ Lapse

Spec == Init /\ [][Next]_vars

\* A task that has begun goes on to its next command, or is killed; time passes.
Fairness ==
    /\ \A t \in Tasks : WF_vars(Refuse(t) \/ Admit(t) \/ Release(t) \/ Reset(t))
    /\ WF_vars(Lapse)

FairSpec == Spec /\ Fairness

-----------------------------------------------------------------------------
(* Properties.                                                             *)

\* A missing key counts as zero, only what acquire let pass is at work, and
\* only a lapse inside a task's commands makes the counter negative.
TypeOK ==
    /\ count \in Int
    /\ ttl \in {"absent", "forever", "expiring"}
    /\ pc \in [Tasks -> Stages]
    /\ seen \in [Tasks -> Int]
    /\ leaked \in Nat
    /\ torn \in {"no", "yes"}
    /\ used \in [FaultKinds -> Nat]
    /\ ttl = "absent" => count = 0
    /\ \A t \in At("serving") : seen[t] <= Max

\* Only a worker's death loses a slot: the counter never stands above the
\* tasks that hold a slot and those that died with one, whatever refusals,
\* resets and lapses come in between.
SlotsNotLost == count <= Cardinality(Held) + leaked

\* No more than Max tasks of the department are at work, unless the key has
\* lapsed between two commands of a task.
WithinLimit == torn = "no" => Cardinality(At("serving")) <= Max

\* A counter that holds slots has an expiry or is about to get one, so a dead
\* worker's slot cannot stay for ever, unless a task was cut off between its
\* INCR and its EXPIRE.
ExpiryArmed ==
    used["cut"] = 0 /\ count > 0 /\ Pending = {} =>
        ttl = "expiring"

\* A department whose slots are all taken gets one back, even if every task
\* that held one is dead.
Unblocks ==
    (count >= Max /\ used["cut"] = 0) ~> (count < Max \/ used["cut"] > 0)
=============================================================================
