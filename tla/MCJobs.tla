------------------------------- MODULE MCJobs -------------------------------
(* Instances of Jobs for TLC: the fault budgets of the runs.               *)
EXTENDS Jobs, TLC

CONSTANTS w1, w2

\* Two processes with ids of their own.
OwnOwner == [w \in Workers |-> w]

\* At most one fault of each kind, and at most n faults, of the kinds K.
AtMost(n, K) == {u \in [FaultKinds -> {0, 1}] :
                    {k \in FaultKinds : u[k] = 1} \in {S \in SUBSET K : Cardinality(S) <= n}}

\* ... or two database errors: both of a flow job's attempts are then retried.
TwoErrors == [k \in FaultKinds |-> IF k = "error" THEN 2 ELSE 0]
AnyThree == AtMost(3, FaultKinds) \cup {TwoErrors}
TwoOfCrashStallCancel == AtMost(2, {"crash", "stall", "cancel"})

\* Processes with ids of their own are alike and never compared.
Symmetry == Permutations(Workers)
=============================================================================
