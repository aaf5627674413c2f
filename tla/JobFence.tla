------------------------------ MODULE JobFence ------------------------------
(***************************************************************************)
(* What the job engine promises about one row of the job table, whatever   *)
(* its workers, broker and beat tasks do: versions only grow, each         *)
(* execution is granted a version of its own, and a job succeeds only when *)
(* the execution that was granted the current version says so.  The jobs   *)
(* in Unfenced have a second writer, who asks for no version.              *)
(***************************************************************************)
EXTENDS Naturals

CONSTANTS
    JobIds,
    Unfenced   \* jobs whose verdict may also be written without a version

VARIABLES
    version,   \* lock_version of each job
    granted,   \* versions held by executions that are still alive
    verdict    \* what the row says of the outcome

Verdicts == {"open", "succeeded", "failed"}

Init ==
    /\ version = [j \in JobIds |-> 0]
    /\ granted = [j \in JobIds |-> {}]
    /\ verdict = [j \in JobIds |-> "open"]

\* A new execution gets the next version; only an open job is started.
Grant(j) ==
    /\ verdict[j] = "open"
    /\ version' = [version EXCEPT ![j] = @ + 1]
    /\ granted' = [granted EXCEPT ![j] = @ \cup {version[j] + 1}]
    /\ UNCHANGED verdict

\* The holder of the current version reports; the version is used up.
Report(j) ==
    /\ version[j] \in granted[j]
    /\ verdict[j] = "open" \/ j \in Unfenced
    /\ version' = [version EXCEPT ![j] = @ + 1]
    /\ \E v \in Verdicts : verdict' = [verdict EXCEPT ![j] = v]
    /\ UNCHANGED granted

\* An execution ends or dies.
Forget(j) ==
    /\ \E t \in granted[j] : granted' = [granted EXCEPT ![j] = @ \ {t}]
    /\ UNCHANGED <<version, verdict>>

\* Cancel, reap and requeue take the version from whoever held it; a job may be
\* reopened or marked failed on the way, but never marked succeeded.
Revoke(S) ==
    /\ S # {} /\ S \subseteq JobIds
    /\ version' = [j \in JobIds |-> IF j \in S THEN version[j] + 1
                                               ELSE version[j]]
    /\ verdict' \in [JobIds -> Verdicts]
    /\ \A j \in JobIds : /\ j \notin S => verdict'[j] = verdict[j]
                         /\ j \in S => verdict'[j] # "succeeded"
    /\ UNCHANGED granted

\* The other writer decides; the version stays with its holder.
Overwrite(j) ==
    /\ j \in Unfenced
    /\ \E v \in Verdicts : verdict' = [verdict EXCEPT ![j] = v]
    /\ UNCHANGED <<version, granted>>

Next ==
    \/ \E j \in JobIds : Grant(j) \/ Report(j) \/ Forget(j) \/ Overwrite(j)
    \/ \E S \in SUBSET JobIds : Revoke(S)

Spec == Init /\ [][Next]_<<version, granted, verdict>>
=============================================================================
