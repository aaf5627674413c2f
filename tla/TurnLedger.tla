------------------------------ MODULE TurnLedger ------------------------------
(***************************************************************************)
(* What the timeline promises to who pays for the model and to who reads   *)
(* the answers: a run is ordered once, for one turn and one plan; it is    *)
(* handed to one worker at most, however often its message is delivered;   *)
(* only that worker answers the turn, after it has analysed that plan, and *)
(* a turn is answered once; the answer alone orders an extraction, which   *)
(* is handed out once as well.  A run may be withdrawn before anybody has  *)
(* taken it, and whoever holds something may lose it without an outcome.   *)
(***************************************************************************)
EXTENDS Naturals

CONSTANTS Turns, Plans, Runs, Workers, NoTurn

VARIABLES
    order,     \* the turn and the plan a run was ordered for
    waiting,   \* runs nobody has taken yet
    offered,   \* runs whose extraction nobody has taken yet
    desk,      \* what each worker holds
    studied,   \* plans that were analysed
    answer     \* the run that answered the turn, or 0

vars == <<order, waiting, offered, desk, studied, answer>>

NoOrder == [t |-> NoTurn, p |-> 0]
Free == [job |-> "none", r |-> 0]
Held(j, r) == [job |-> j, r |-> r]

Init ==
    /\ order = [r \in Runs |-> NoOrder]
    /\ waiting = {}
    /\ offered = {}
    /\ desk = [w \in Workers |-> Free]
    /\ studied = {}
    /\ answer = [t \in Turns |-> 0]

\* Nothing else is waiting in the workspace.
Order(r, t, p) ==
    /\ order[r] = NoOrder
    /\ waiting = {}
    /\ order' = [order EXCEPT ![r] = [t |-> t, p |-> p]]
    /\ waiting' = {r}
    /\ UNCHANGED <<offered, desk, studied, answer>>

Withdraw(r) ==
    /\ waiting' = waiting \ {r}
    /\ UNCHANGED <<order, offered, desk, studied, answer>>

TakeRun(w, r) ==
    /\ r \in waiting /\ desk[w] = Free
    /\ waiting' = waiting \ {r}
    /\ desk' = [desk EXCEPT ![w] = Held("run", r)]
    /\ UNCHANGED <<order, offered, studied, answer>>

Study(w, r) ==
    /\ desk[w] = Held("run", r)
    /\ studied' = studied \cup {order[r].p}
    /\ UNCHANGED <<order, waiting, offered, desk, answer>>

Answer(w, r) ==
    /\ desk[w] = Held("run", r)
    /\ order[r].p \in studied
    /\ answer[order[r].t] = 0
    /\ answer' = [answer EXCEPT ![order[r].t] = r]
    /\ offered' = offered \cup {r}
    /\ desk' = [desk EXCEPT ![w] = Free]
    /\ UNCHANGED <<order, waiting, studied>>

TakeExtraction(w, r) ==
    /\ r \in offered /\ desk[w] = Free
    /\ offered' = offered \ {r}
    /\ desk' = [desk EXCEPT ![w] = Held("ext", r)]
    /\ UNCHANGED <<order, waiting, studied, answer>>

Drop(w) ==
    /\ desk' = [desk EXCEPT ![w] = Free]
    /\ UNCHANGED <<order, waiting, offered, studied, answer>>

Next ==
    \/ \E w \in Workers : Drop(w)
    \/ \E r \in Runs :
       \/ \E t \in Turns, p \in Plans : Order(r, t, p)
       \/ Withdraw(r)
       \/ \E w \in Workers : \/ TakeRun(w, r) \/ Study(w, r) \/ Answer(w, r)
                             \/ TakeExtraction(w, r)

Spec == Init /\ [][Next]_vars
=============================================================================
