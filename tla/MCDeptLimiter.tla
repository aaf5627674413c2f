---------------------------- MODULE MCDeptLimiter ----------------------------
(* Three task slots for a department that may have two tasks at a time.     *)
EXTENDS DeptLimiter, TLC

CONSTANTS t1, t2, t3

ThreeTasks == {t1, t2, t3}
\* Two deaths of one kind and one of the other.
Deaths == {u \in [FaultKinds -> 0..2] : u["cut"] <= 1}
=============================================================================
