----------------------------- MODULE FlowVerdict -----------------------------
(***************************************************************************)
(* What a flow run promises to whoever reads its row: the run succeeded    *)
(* only if each of its nodes has succeeded at least once, what a node has  *)
(* achieved is never taken back, and a run that was deleted never returns. *)
(* Everything else about the status is left open: runs are started again   *)
(* after a failure, a cancellation or a success.                           *)
(***************************************************************************)
CONSTANT Nodes

VARIABLES
    st,     \* status of the run
    done    \* nodes that have succeeded

vars == <<st, done>>

Closed == {"succeeded", "failed", "cancelled"}
Present == {"pending", "running"} \cup Closed

Init == st = "absent" /\ done = {}

Create == st = "absent" /\ st' = "pending" /\ UNCHANGED done

\* Somebody begins to execute the run, whatever its status was.
Start == st \in Present /\ st' = "running" /\ UNCHANGED done

Achieve ==
    /\ st \in Present
    /\ \E n \in Nodes : done' = done \cup {n}
    /\ UNCHANGED st

Close ==
    /\ st \in Present
    /\ st' \in Closed
    /\ st' = "succeeded" => done = Nodes
    /\ UNCHANGED done

Delete == st \in Present /\ st' = "deleted" /\ done' = {}

Next == Create \/ Start \/ Achieve \/ Close \/ Delete

Spec == Init /\ [][Next]_vars
=============================================================================
