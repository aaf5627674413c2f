-------------------------- MODULE DeptLimiterProofs --------------------------
(***************************************************************************)
(* Proofs about DeptLimiter, for any number of tasks, any limit and any    *)
(* number of dead workers.  While no lapse has torn a task's commands the  *)
(* counter is exactly the slots held by live and dead tasks; afterwards it *)
(* is at most that.                                                        *)
(***************************************************************************)
EXTENDS DeptLimiter, FiniteSetTheorems, TLAPS

\* The slots that are, or will be, at work.
Admitted == Pending \cup At("serving")

Exact ==
    torn = "no" =>
        /\ count = Cardinality(Held) + leaked
        /\ At("resetting") = {}
        /\ Cardinality(Admitted) <= Max

LimInv ==
    /\ TypeOK
    /\ SlotsNotLost
    /\ Exact
    /\ ExpiryArmed

-----------------------------------------------------------------------------
(* Sets of tasks.                                                          *)

\* Adding a task to a set of tasks, and taking one out.
LEMMA CountTasks ==
    ASSUME NEW S, S \subseteq Tasks, NEW t \in Tasks
    PROVE  /\ IsFiniteSet(S)
           /\ Cardinality(S) \in Nat
           /\ t \notin S => Cardinality(S \cup {t}) = Cardinality(S) + 1
           /\ t \in S => Cardinality(S \ {t}) = Cardinality(S) - 1
<1>1. IsFiniteSet(S)
  BY LimiterAssumption, FS_Subset
<1>2. Cardinality(S) \in Nat
  BY <1>1, FS_CardinalityType
<1>3. Cardinality(S \cup {t}) = IF t \in S THEN Cardinality(S)
                                           ELSE Cardinality(S) + 1
  BY <1>1, FS_AddElement
<1>4. Cardinality(S \ {t}) = IF t \in S THEN Cardinality(S) - 1
                                        ELSE Cardinality(S)
  BY <1>1, FS_RemoveElement
<1>5. QED BY <1>1, <1>2, <1>3, <1>4

LEMMA SubsetCount ==
    ASSUME NEW S, NEW T, S \subseteq T, T \subseteq Tasks
    PROVE  /\ Cardinality(S) \in Nat
           /\ Cardinality(T) \in Nat
           /\ Cardinality(S) <= Cardinality(T)
<1>1. IsFiniteSet(T)
  BY LimiterAssumption, FS_Subset
<1>2. IsFiniteSet(S) /\ Cardinality(S) <= Cardinality(T)
  BY <1>1, FS_Subset
<1>3. QED BY <1>1, <1>2, FS_CardinalityType

\* The sets of tasks, and their sizes.
LEMMA Sets ==
    ASSUME TypeOK
    PROVE  /\ Held \subseteq Tasks
           /\ Admitted \subseteq Held
           /\ At("serving") \subseteq Admitted
           /\ Cardinality(Held) \in Nat
           /\ Cardinality(Admitted) \in Nat
           /\ Cardinality(At("serving")) \in Nat
           /\ Cardinality(Admitted) <= Cardinality(Held)
           /\ Cardinality(At("serving")) <= Cardinality(Admitted)
<1>1. /\ Held \subseteq Tasks
      /\ Admitted \subseteq Held
      /\ At("serving") \subseteq Admitted
  BY DEF Held, Admitted, At, Pending
<1>2. Admitted \subseteq Tasks
  BY <1>1
<1>3. QED BY <1>1, <1>2, SubsetCount

\* What a task's change of stage does to the sets.
LEMMA MovedSets ==
    ASSUME TypeOK, NEW t \in Tasks, NEW stage \in Stages, NEW n \in Int,
           pc' = [pc EXCEPT ![t] = stage],
           seen' = [seen EXCEPT ![t] = n]
    PROVE  /\ pc' \in [Tasks -> Stages] /\ seen' \in [Tasks -> Int]
           /\ pc'[t] = stage /\ seen'[t] = n
           /\ \A u \in Tasks : u # t => pc'[u] = pc[u] /\ seen'[u] = seen[u]
           /\ Held' = IF stage \in {"asked", "serving"} THEN Held \cup {t}
                                                        ELSE Held \ {t}
           /\ Pending' = IF stage = "asked" /\ n <= Max
                         THEN Pending \cup {t} ELSE Pending \ {t}
           /\ At("serving")' = IF stage = "serving"
                               THEN At("serving") \cup {t}
                               ELSE At("serving") \ {t}
           /\ At("resetting")' = IF stage = "resetting"
                                 THEN At("resetting") \cup {t}
                                 ELSE At("resetting") \ {t}
<1>1. /\ pc' \in [Tasks -> Stages] /\ seen' \in [Tasks -> Int]
      /\ pc'[t] = stage /\ seen'[t] = n
      /\ \A u \in Tasks : u # t => pc'[u] = pc[u] /\ seen'[u] = seen[u]
  BY DEF TypeOK
<1>2. Held' = IF stage \in {"asked", "serving"} THEN Held \cup {t}
                                                ELSE Held \ {t}
  BY <1>1 DEF Held, At
<1>3. Pending' = IF stage = "asked" /\ n <= Max
                 THEN Pending \cup {t} ELSE Pending \ {t}
  BY <1>1 DEF Pending, At
<1>4. At("serving")' = IF stage = "serving" THEN At("serving") \cup {t}
                                            ELSE At("serving") \ {t}
  BY <1>1 DEF At
<1>5. At("resetting")' = IF stage = "resetting"
                         THEN At("resetting") \cup {t}
                         ELSE At("resetting") \ {t}
  BY <1>1 DEF At
<1>6. QED BY <1>1, <1>2, <1>3, <1>4, <1>5

\* The same for a stage change that leaves the task's other variables alone.
LEMMA GotoSets ==
    ASSUME TypeOK, NEW t \in Tasks, NEW stage \in Stages, Goto(t, stage)
    PROVE  /\ pc' = [pc EXCEPT ![t] = stage]
           /\ seen' = [seen EXCEPT ![t] = seen[t]]
           /\ seen[t] \in Int
BY DEF Goto, TypeOK

\* Touching a missing key creates it.
LEMMA TouchedIs ==
    ASSUME TypeOK
    PROVE  /\ Touched \in {"forever", "expiring"}
           /\ ttl = "expiring" => Touched = "expiring"
BY DEF Touched, TypeOK

LEMMA SpendTypes ==
    ASSUME TypeOK, NEW k \in FaultKinds, Spend(k)
    PROVE  /\ used' \in [FaultKinds -> Nat]
           /\ used'[k] = used[k] + 1
           /\ \A j \in FaultKinds : j # k => used'[j] = used[j]
BY DEF Spend, TypeOK

-----------------------------------------------------------------------------
(* The invariant holds initially and every step preserves it.              *)

LEMMA LimInvInit == Init => LimInv
<1> SUFFICES ASSUME Init PROVE LimInv
  OBVIOUS
<1>1. TypeOK
  BY DEF Init, TypeOK, Stages, At
<1>2. Held = {} /\ Pending = {} /\ At("serving") = {} /\ At("resetting") = {}
  BY DEF Init, Held, Pending, At
<1>3. Cardinality({}) = 0
  BY FS_EmptySet
<1>4. SlotsNotLost
  BY <1>2, <1>3 DEF Init, SlotsNotLost
<1>5. Exact
  <2>1. Admitted = {}
    BY <1>2 DEF Admitted
  <2>2. QED BY <1>2, <1>3, <2>1, LimiterAssumption DEF Init, Exact
<1>6. ExpiryArmed
  BY DEF Init, ExpiryArmed
<1>7. QED BY <1>1, <1>4, <1>5, <1>6 DEF LimInv

LEMMA LimInvAsk ==
    ASSUME LimInv, NEW t \in Tasks, Ask(t)
    PROVE  LimInv'
<1>1. TypeOK
  BY DEF LimInv
<1>2. /\ pc[t] = "idle"
      /\ count' = count + 1
      /\ ttl' = Touched
      /\ pc' = [pc EXCEPT ![t] = "asked"]
      /\ seen' = [seen EXCEPT ![t] = count + 1]
      /\ UNCHANGED <<leaked, torn, used>>
  BY DEF Ask
<1>3. "asked" \in Stages /\ count + 1 \in Int /\ count \in Int /\ leaked \in Nat
      /\ Max \in Nat \ {0}
  BY <1>1, LimiterAssumption DEF Stages, TypeOK
<1>4. /\ pc' \in [Tasks -> Stages] /\ seen' \in [Tasks -> Int]
      /\ Held' = Held \cup {t}
      /\ Pending' = IF count + 1 <= Max THEN Pending \cup {t} ELSE Pending \ {t}
      /\ At("serving")' = At("serving") \ {t}
      /\ At("resetting")' = At("resetting") \ {t}
      /\ \A u \in Tasks : u # t => pc'[u] = pc[u] /\ seen'[u] = seen[u]
      /\ pc'[t] = "asked"
  BY <1>1, <1>2, <1>3, MovedSets
<1>5. t \notin Held /\ t \notin Pending /\ t \notin At("serving")
      /\ t \notin Admitted
  BY <1>2 DEF Held, Pending, At, Admitted
<1>6. /\ Held \subseteq Tasks /\ Admitted \subseteq Tasks
      /\ Cardinality(Held) \in Nat /\ Cardinality(Admitted) \in Nat
      /\ Cardinality(Admitted) <= Cardinality(Held)
  BY <1>1, Sets
<1>7. /\ Cardinality(Held') = Cardinality(Held) + 1
      /\ Cardinality(Admitted \cup {t}) = Cardinality(Admitted) + 1
  BY <1>4, <1>5, <1>6, CountTasks
<1>8. TypeOK'
  <2>1. ttl' \in {"forever", "expiring"}
    BY <1>1, <1>2, TouchedIs
  <2>2. \A u \in At("serving")' : seen'[u] <= Max
    <3>1. At("serving")' = At("serving")
      BY <1>4, <1>5
    <3>2. QED BY <3>1, <1>1, <1>4, <1>5 DEF TypeOK, At
  <2>3. QED BY <2>1, <2>2, <1>1, <1>2, <1>3, <1>4 DEF TypeOK
<1>9. SlotsNotLost'
  BY <1>2, <1>3, <1>6, <1>7 DEF LimInv, SlotsNotLost
<1>10. Exact'
  <2>1. SUFFICES ASSUME torn = "no"
                 PROVE  /\ count' = Cardinality(Held') + leaked
                        /\ At("resetting")' = {}
                        /\ Cardinality(Admitted') <= Max
    BY <1>2 DEF Exact
  <2>2. /\ count = Cardinality(Held) + leaked
        /\ At("resetting") = {}
        /\ Cardinality(Admitted) <= Max
    BY <2>1 DEF LimInv, Exact
  <2>3. count' = Cardinality(Held') + leaked
    BY <2>2, <1>2, <1>3, <1>6, <1>7
  <2>4. CASE count + 1 <= Max
    <3>1. Admitted' = Admitted \cup {t}
      BY <2>4, <1>4, <1>5 DEF Admitted
    <3>2. Cardinality(Admitted') <= Max
      BY <3>1, <2>2, <2>4, <1>3, <1>6, <1>7
    <3>3. QED BY <3>2, <2>2, <2>3, <1>4
  <2>5. CASE ~ (count + 1 <= Max)
    <3>1. Admitted' = Admitted
      BY <2>5, <1>4, <1>5 DEF Admitted
    <3>2. QED BY <3>1, <2>2, <2>3, <1>4
  <2>6. QED BY <2>4, <2>5
<1>11. ExpiryArmed'
  <2>1. SUFFICES ASSUME used["cut"] = 0, Pending' = {}
                 PROVE  ttl' = "expiring"
    BY <1>2 DEF ExpiryArmed
  <2>2. ~ (count + 1 <= Max)
    BY <2>1, <1>4
  <2>3. count > 0
    BY <2>2, <1>3
  <2>4. Pending = {}
    BY <2>1, <2>2, <1>4, <1>5
  <2>5. ttl = "expiring"
    BY <2>1, <2>3, <2>4 DEF LimInv, ExpiryArmed
  <2>6. QED BY <2>5, <1>1, <1>2, TouchedIs
<1>12. QED BY <1>8, <1>9, <1>10, <1>11 DEF LimInv

\* A task leaves with a decrement: refused, or done.
LEMMA LimInvLeave ==
    ASSUME LimInv, NEW t \in Held, Leave(t),
           pc[t] = "asked" => seen[t] > Max,
           count' = count - 1, ttl' = Touched, UNCHANGED <<leaked, torn, used>>
    PROVE  LimInv'
<1>1. TypeOK /\ t \in Tasks
  BY DEF LimInv, Held, At
<1>2. /\ pc' = [pc EXCEPT ![t] = "idle"]
      /\ seen' = [seen EXCEPT ![t] = 0]
  BY DEF Leave
<1>3. "idle" \in Stages /\ count \in Int /\ leaked \in Nat /\ Max \in Nat \ {0}
  BY <1>1, LimiterAssumption DEF Stages, TypeOK
<1>4. /\ pc' \in [Tasks -> Stages] /\ seen' \in [Tasks -> Int]
      /\ Held' = Held \ {t}
      /\ Pending' = Pending \ {t}
      /\ At("serving")' = At("serving") \ {t}
      /\ At("resetting")' = At("resetting") \ {t}
      /\ \A u \in Tasks : u # t => pc'[u] = pc[u] /\ seen'[u] = seen[u]
  <2>1. 0 \in Int
    OBVIOUS
  <2>2. /\ pc' \in [Tasks -> Stages] /\ seen' \in [Tasks -> Int]
        /\ \A u \in Tasks : u # t => pc'[u] = pc[u] /\ seen'[u] = seen[u]
        /\ Held' = IF "idle" \in {"asked", "serving"} THEN Held \cup {t}
                                                       ELSE Held \ {t}
        /\ Pending' = IF "idle" = "asked" /\ 0 <= Max
                      THEN Pending \cup {t} ELSE Pending \ {t}
        /\ At("serving")' = IF "idle" = "serving" THEN At("serving") \cup {t}
                                                  ELSE At("serving") \ {t}
        /\ At("resetting")' = IF "idle" = "resetting"
                              THEN At("resetting") \cup {t}
                              ELSE At("resetting") \ {t}
    BY <1>1, <1>2, <1>3, <2>1, MovedSets
  <2>3. QED BY <2>2
<1>5. /\ Held \subseteq Tasks /\ Admitted \subseteq Tasks
      /\ Cardinality(Held) \in Nat /\ Cardinality(Admitted) \in Nat
  BY <1>1, Sets
<1>6. Cardinality(Held') = Cardinality(Held) - 1
  BY <1>1, <1>4, <1>5, CountTasks
<1>7. /\ Admitted' \subseteq Admitted
      /\ Cardinality(Admitted') <= Cardinality(Admitted)
      /\ Cardinality(Admitted') \in Nat
  <2>1. Admitted' \subseteq Admitted
    BY <1>4 DEF Admitted
  <2>2. QED BY <2>1, <1>5, SubsetCount
<1>8. t \notin Pending
  BY <1>1, <1>3 DEF Pending, At, TypeOK
<1>9. TypeOK'
  <2>1. ttl' \in {"forever", "expiring"}
    BY <1>1, TouchedIs
  <2>2. \A u \in At("serving")' : seen'[u] <= Max
    BY <1>1, <1>4 DEF TypeOK, At
  <2>3. QED BY <2>1, <2>2, <1>1, <1>3, <1>4 DEF TypeOK
<1>10. SlotsNotLost'
  BY <1>3, <1>5, <1>6 DEF LimInv, SlotsNotLost
<1>11. Exact'
  <2>1. SUFFICES ASSUME torn = "no"
                 PROVE  /\ count' = Cardinality(Held') + leaked
                        /\ At("resetting")' = {}
                        /\ Cardinality(Admitted') <= Max
    BY DEF Exact
  <2>2. /\ count = Cardinality(Held) + leaked
        /\ At("resetting") = {}
        /\ Cardinality(Admitted) <= Max
    BY <2>1 DEF LimInv, Exact
  <2>3. QED BY <2>2, <1>3, <1>4, <1>5, <1>6, <1>7
<1>12. ExpiryArmed'
  <2>1. SUFFICES ASSUME used["cut"] = 0, count - 1 > 0, Pending' = {}
                 PROVE  ttl' = "expiring"
    BY DEF ExpiryArmed
  <2>2. count > 0 /\ Pending = {}
    BY <2>1, <1>3, <1>4, <1>8
  <2>3. ttl = "expiring"
    BY <2>1, <2>2 DEF LimInv, ExpiryArmed
  <2>4. QED BY <2>3, <1>1, TouchedIs
<1>13. QED BY <1>9, <1>10, <1>11, <1>12 DEF LimInv

LEMMA LimInvRefuse ==
    ASSUME LimInv, NEW t \in Tasks, Refuse(t)
    PROVE  LimInv'
<1>1. t \in Held
  BY DEF Refuse, Held, At
<1>2. QED BY <1>1, LimInvLeave DEF Refuse

LEMMA LimInvAdmit ==
    ASSUME LimInv, NEW t \in Tasks, Admit(t)
    PROVE  LimInv'
<1>1. TypeOK
  BY DEF LimInv
<1>2. /\ pc[t] = "asked" /\ seen[t] <= Max
      /\ ttl' = IF ttl = "absent" THEN "absent" ELSE "expiring"
      /\ Goto(t, "serving")
      /\ UNCHANGED <<count, leaked, torn, used>>
  BY DEF Admit
<1>3. "serving" \in Stages
  BY DEF Stages
<1>4. /\ pc' = [pc EXCEPT ![t] = "serving"]
      /\ seen' = [seen EXCEPT ![t] = seen[t]]
      /\ seen[t] \in Int
  BY <1>1, <1>2, <1>3, GotoSets
<1>5. /\ pc' \in [Tasks -> Stages] /\ seen' \in [Tasks -> Int]
      /\ Held' = Held \cup {t}
      /\ Pending' = Pending \ {t}
      /\ At("serving")' = At("serving") \cup {t}
      /\ At("resetting")' = At("resetting") \ {t}
      /\ \A u \in Tasks : u # t => pc'[u] = pc[u] /\ seen'[u] = seen[u]
      /\ seen'[t] = seen[t]
  BY <1>1, <1>3, <1>4, MovedSets
<1>6. t \in Held /\ t \in Pending /\ t \in Admitted
  BY <1>2 DEF Held, Pending, At, Admitted
<1>7. Held' = Held
  BY <1>5, <1>6
<1>8. Admitted' = Admitted
  BY <1>5, <1>6 DEF Admitted
<1>9. TypeOK'
  <2>1. ttl' \in {"absent", "forever", "expiring"}
    BY <1>2
  <2>2. ttl' = "absent" => count' = 0
    BY <1>1, <1>2 DEF TypeOK
  <2>3. \A u \in At("serving")' : seen'[u] <= Max
    BY <1>1, <1>2, <1>5 DEF TypeOK, At
  <2>4. QED BY <2>1, <2>2, <2>3, <1>1, <1>2, <1>5 DEF TypeOK
<1>10. SlotsNotLost'
  BY <1>2, <1>7 DEF LimInv, SlotsNotLost
<1>11. Exact'
  <2>1. SUFFICES ASSUME torn = "no"
                 PROVE  /\ count = Cardinality(Held) + leaked
                        /\ At("resetting")' = {}
                        /\ Cardinality(Admitted) <= Max
    BY <1>2, <1>7, <1>8 DEF Exact
  <2>2. QED BY <2>1, <1>5 DEF LimInv, Exact
<1>12. ExpiryArmed'
  <2>1. SUFFICES ASSUME count > 0
                 PROVE  ttl' = "expiring"
    BY <1>2 DEF ExpiryArmed
  <2>2. ttl # "absent"
    BY <2>1, <1>1 DEF TypeOK
  <2>3. QED BY <2>2, <1>2
<1>13. QED BY <1>9, <1>10, <1>11, <1>12 DEF LimInv

\* Before any lapse has torn a task, release never finds the counter negative.
LEMMA LimInvRelease ==
    ASSUME LimInv, NEW t \in Tasks, Release(t)
    PROVE  LimInv'
<1>1. TypeOK
  BY DEF LimInv
<1>2. /\ pc[t] = "serving"
      /\ count' = count - 1
      /\ ttl' = Touched
      /\ IF count - 1 < 0 THEN Goto(t, "resetting") ELSE Leave(t)
      /\ UNCHANGED <<leaked, torn, used>>
  BY DEF Release
<1>3. t \in Held
  BY <1>2 DEF Held, At
<1>4. CASE ~ (count - 1 < 0)
  <2>1. Leave(t)
    BY <1>2, <1>4
  <2>2. QED BY <2>1, <1>2, <1>3, LimInvLeave
<1>5. CASE count - 1 < 0
  <2>1. Goto(t, "resetting")
    BY <1>2, <1>5
  <2>2. "resetting" \in Stages /\ count \in Int /\ leaked \in Nat
    BY <1>1 DEF Stages, TypeOK
  <2>3. /\ pc' = [pc EXCEPT ![t] = "resetting"]
        /\ seen' = [seen EXCEPT ![t] = seen[t]]
        /\ seen[t] \in Int
    BY <1>1, <2>1, <2>2, GotoSets
  <2>4. /\ pc' \in [Tasks -> Stages] /\ seen' \in [Tasks -> Int]
        /\ Held' = Held \ {t}
        /\ Pending' = Pending \ {t}
        /\ At("serving")' = At("serving") \ {t}
        /\ \A u \in Tasks : u # t => pc'[u] = pc[u] /\ seen'[u] = seen[u]
    BY <1>1, <2>2, <2>3, MovedSets
  <2>5. /\ Held \subseteq Tasks
        /\ Cardinality(Held) \in Nat
    BY <1>1, Sets
  <2>6. Cardinality(Held') = Cardinality(Held) - 1
    BY <1>3, <2>4, <2>5, CountTasks
  <2>7. torn # "no"
    <3>1. SUFFICES ASSUME torn = "no" PROVE FALSE
      OBVIOUS
    <3>2. count = Cardinality(Held) + leaked
      BY <3>1 DEF LimInv, Exact
    <3>3. Cardinality(Held) # 0
      BY <1>3, <2>5, CountTasks, FS_EmptySet
    <3>4. QED BY <3>2, <3>3, <2>2, <2>5, <1>5
  <2>8. TypeOK'
    <3>1. ttl' \in {"forever", "expiring"}
      BY <1>1, <1>2, TouchedIs
    <3>2. \A u \in At("serving")' : seen'[u] <= Max
      BY <1>1, <2>4 DEF TypeOK, At
    <3>3. QED BY <3>1, <3>2, <1>1, <1>2, <2>2, <2>4 DEF TypeOK
  <2>9. SlotsNotLost'
    BY <1>2, <2>2, <2>5, <2>6 DEF LimInv, SlotsNotLost
  <2>10. Exact'
    BY <1>2, <2>7 DEF Exact
  <2>11. ExpiryArmed'
    BY <1>2, <1>5 DEF ExpiryArmed
  <2>12. QED BY <2>8, <2>9, <2>10, <2>11 DEF LimInv
<1>6. QED BY <1>4, <1>5

LEMMA LimInvReset ==
    ASSUME LimInv, NEW t \in Tasks, Reset(t)
    PROVE  LimInv'
<1>1. TypeOK
  BY DEF LimInv
<1>2. /\ pc[t] = "resetting"
      /\ count' = 0
      /\ ttl' = "forever"
      /\ pc' = [pc EXCEPT ![t] = "idle"]
      /\ seen' = [seen EXCEPT ![t] = 0]
      /\ UNCHANGED <<leaked, torn, used>>
  BY DEF Reset, Leave
<1>3. "idle" \in Stages /\ 0 \in Int
  BY DEF Stages
<1>4. /\ pc' \in [Tasks -> Stages] /\ seen' \in [Tasks -> Int]
      /\ At("serving")' = IF "idle" = "serving" THEN At("serving") \cup {t}
                                                ELSE At("serving") \ {t}
      /\ \A u \in Tasks : u # t => pc'[u] = pc[u] /\ seen'[u] = seen[u]
  BY <1>1, <1>2, <1>3, MovedSets
<1>5. At("serving")' \subseteq At("serving") \ {t}
  BY <1>4
<1>6. torn # "no"
  BY <1>2 DEF LimInv, Exact, At
<1>7. TypeOK'
  <2>1. \A u \in At("serving")' : seen'[u] <= Max
    BY <1>1, <1>4, <1>5 DEF TypeOK, At
  <2>2. QED BY <2>1, <1>1, <1>2, <1>4 DEF TypeOK
<1>8. SlotsNotLost'
  <2>1. Held' \subseteq Tasks
    BY DEF Held, At
  <2>2. Cardinality(Held') \in Nat
    BY <2>1, SubsetCount
  <2>3. leaked \in Nat
    BY <1>1 DEF TypeOK
  <2>4. QED BY <2>2, <2>3, <1>2 DEF SlotsNotLost
<1>9. Exact'
  BY <1>2, <1>6 DEF Exact
<1>10. ExpiryArmed'
  BY <1>2 DEF ExpiryArmed
<1>11. QED BY <1>7, <1>8, <1>9, <1>10 DEF LimInv

\* A task dies with its slot.
LEMMA LimInvDead ==
    ASSUME LimInv, NEW t \in Held, Leave(t),
           leaked' = leaked + 1, UNCHANGED <<count, ttl, torn>>,
           used' \in [FaultKinds -> Nat],
           used'["cut"] = 0 => used["cut"] = 0 /\ pc[t] = "serving"
    PROVE  LimInv'
<1>1. TypeOK /\ t \in Tasks
  BY DEF LimInv, Held, At
<1>2. /\ pc' = [pc EXCEPT ![t] = "idle"]
      /\ seen' = [seen EXCEPT ![t] = 0]
  BY DEF Leave
<1>3. "idle" \in Stages /\ 0 \in Int /\ count \in Int /\ leaked \in Nat
      /\ Max \in Nat \ {0}
  BY <1>1, LimiterAssumption DEF Stages, TypeOK
<1>4. /\ pc' \in [Tasks -> Stages] /\ seen' \in [Tasks -> Int]
      /\ Held' = Held \ {t}
      /\ Pending' = Pending \ {t}
      /\ At("serving")' = At("serving") \ {t}
      /\ At("resetting")' = At("resetting") \ {t}
      /\ \A u \in Tasks : u # t => pc'[u] = pc[u] /\ seen'[u] = seen[u]
  <2>1. /\ pc' \in [Tasks -> Stages] /\ seen' \in [Tasks -> Int]
        /\ \A u \in Tasks : u # t => pc'[u] = pc[u] /\ seen'[u] = seen[u]
        /\ Held' = IF "idle" \in {"asked", "serving"} THEN Held \cup {t}
                                                       ELSE Held \ {t}
        /\ Pending' = IF "idle" = "asked" /\ 0 <= Max
                      THEN Pending \cup {t} ELSE Pending \ {t}
        /\ At("serving")' = IF "idle" = "serving" THEN At("serving") \cup {t}
                                                  ELSE At("serving") \ {t}
        /\ At("resetting")' = IF "idle" = "resetting"
                              THEN At("resetting") \cup {t}
                              ELSE At("resetting") \ {t}
    BY <1>1, <1>2, <1>3, MovedSets
  <2>2. QED BY <2>1
<1>5. /\ Held \subseteq Tasks /\ Admitted \subseteq Tasks
      /\ Cardinality(Held) \in Nat /\ Cardinality(Admitted) \in Nat
  BY <1>1, Sets
<1>6. Cardinality(Held') = Cardinality(Held) - 1
  BY <1>1, <1>4, <1>5, CountTasks
<1>7. /\ Cardinality(Admitted') <= Cardinality(Admitted)
      /\ Cardinality(Admitted') \in Nat
  <2>1. Admitted' \subseteq Admitted
    BY <1>4 DEF Admitted
  <2>2. QED BY <2>1, <1>5, SubsetCount
<1>8. TypeOK'
  <2>1. \A u \in At("serving")' : seen'[u] <= Max
    BY <1>1, <1>4 DEF TypeOK, At
  <2>2. QED BY <2>1, <1>1, <1>3, <1>4 DEF TypeOK
<1>9. SlotsNotLost'
  BY <1>3, <1>5, <1>6 DEF LimInv, SlotsNotLost
<1>10. Exact'
  <2>1. SUFFICES ASSUME torn = "no"
                 PROVE  /\ count = Cardinality(Held') + (leaked + 1)
                        /\ At("resetting")' = {}
                        /\ Cardinality(Admitted') <= Max
    BY <1>3 DEF Exact
  <2>2. /\ count = Cardinality(Held) + leaked
        /\ At("resetting") = {}
        /\ Cardinality(Admitted) <= Max
    BY <2>1 DEF LimInv, Exact
  <2>3. QED BY <2>2, <1>3, <1>4, <1>5, <1>6, <1>7
<1>11. ExpiryArmed'
  <2>1. SUFFICES ASSUME used'["cut"] = 0, count > 0, Pending' = {}
                 PROVE  ttl = "expiring"
    BY DEF ExpiryArmed
  <2>2. used["cut"] = 0 /\ pc[t] = "serving"
    BY <2>1
  <2>3. t \notin Pending
    BY <2>2 DEF Pending, At
  <2>4. Pending = {}
    BY <2>1, <2>3, <1>4
  <2>5. QED BY <2>1, <2>2, <2>4 DEF LimInv, ExpiryArmed
<1>12. QED BY <1>8, <1>9, <1>10, <1>11 DEF LimInv

LEMMA LimInvDie ==
    ASSUME LimInv, NEW t \in Tasks, Die(t)
    PROVE  LimInv'
<1>1. /\ pc[t] = "serving"
      /\ Spend("death")
      /\ leaked' = leaked + 1
      /\ Leave(t)
      /\ UNCHANGED <<count, ttl, torn>>
  BY DEF Die
<1>2. "death" \in FaultKinds /\ "cut" \in FaultKinds /\ TypeOK
  BY DEF FaultKinds, LimInv
<1>3. used' \in [FaultKinds -> Nat] /\ used'["cut"] = used["cut"]
  BY <1>1, <1>2, SpendTypes
<1>4. t \in Held
  BY <1>1 DEF Held, At
<1>5. QED BY <1>1, <1>3, <1>4, LimInvDead

LEMMA LimInvCut ==
    ASSUME LimInv, NEW t \in Tasks, Cut(t)
    PROVE  LimInv'
<1>1. /\ pc[t] \in {"asked", "resetting"}
      /\ Spend("cut")
      /\ leaked' = IF pc[t] = "asked" THEN leaked + 1 ELSE leaked
      /\ Leave(t)
      /\ UNCHANGED <<count, ttl, torn>>
  BY DEF Cut
<1>2. "cut" \in FaultKinds /\ TypeOK
  BY DEF FaultKinds, LimInv
<1>3. used' \in [FaultKinds -> Nat] /\ used'["cut"] = used["cut"] + 1
  BY <1>1, <1>2, SpendTypes
<1>4. used["cut"] \in Nat
  BY <1>2 DEF TypeOK
<1>5. used'["cut"] # 0
  BY <1>3, <1>4
<1>6. CASE pc[t] = "asked"
  <2>1. t \in Held
    BY <1>6 DEF Held, At
  <2>2. leaked' = leaked + 1
    BY <1>1, <1>6
  <2>3. QED BY <2>1, <2>2, <1>1, <1>3, <1>5, LimInvDead
<1>7. CASE pc[t] = "resetting"
  <2>1. leaked' = leaked /\ torn # "no"
    BY <1>1, <1>7 DEF LimInv, Exact, At
  <2>2. /\ pc' = [pc EXCEPT ![t] = "idle"]
        /\ seen' = [seen EXCEPT ![t] = 0]
    BY <1>1 DEF Leave
  <2>3. "idle" \in Stages /\ 0 \in Int
    BY DEF Stages
  <2>4. /\ pc' \in [Tasks -> Stages] /\ seen' \in [Tasks -> Int]
        /\ pc'[t] = "idle"
        /\ \A u \in Tasks : u # t => pc'[u] = pc[u] /\ seen'[u] = seen[u]
    BY <1>2, <2>2, <2>3, MovedSets
  <2>5. Held' = Held /\ At("serving")' = At("serving")
    BY <1>7, <2>4 DEF Held, At
  <2>6. TypeOK'
    <3>1. \A u \in At("serving")' : seen'[u] <= Max
      BY <1>2, <1>7, <2>4, <2>5 DEF TypeOK, At
    <3>2. QED BY <3>1, <1>1, <1>2, <1>3, <2>1, <2>4 DEF TypeOK
  <2>7. SlotsNotLost' /\ Exact' /\ ExpiryArmed'
    BY <1>1, <1>5, <2>1, <2>5 DEF LimInv, SlotsNotLost, Exact, ExpiryArmed
  <2>8. QED BY <2>6, <2>7 DEF LimInv
<1>8. QED BY <1>1, <1>6, <1>7

LEMMA LimInvLapse ==
    ASSUME LimInv, Lapse
    PROVE  LimInv'
<1>1. /\ At("serving") = {}
      /\ count' = 0
      /\ ttl' = "absent"
      /\ leaked' = 0
      /\ torn' = IF \A t \in Tasks : pc[t] = "idle" THEN torn ELSE "yes"
      /\ UNCHANGED <<pc, seen, used>>
  BY DEF Lapse
<1>2. TypeOK
  BY DEF LimInv
<1>3. /\ Held' = Held /\ Pending' = Pending
      /\ At("serving")' = At("serving")
      /\ At("resetting")' = At("resetting")
  BY <1>1 DEF Held, Pending, At
<1>4. TypeOK'
  BY <1>1, <1>2, <1>3 DEF TypeOK
<1>5. Cardinality(Held) \in Nat
  BY <1>2, Sets
<1>6. SlotsNotLost'
  BY <1>1, <1>3, <1>5 DEF SlotsNotLost
<1>7. Exact'
  <2>1. SUFFICES ASSUME torn' = "no"
                 PROVE  /\ 0 = Cardinality(Held') + 0
                        /\ At("resetting")' = {}
                        /\ Cardinality(Admitted') <= Max
    BY <1>1 DEF Exact
  <2>2. \A t \in Tasks : pc[t] = "idle"
    BY <2>1, <1>1
  <2>3. Held = {} /\ Pending = {} /\ At("resetting") = {}
    BY <2>2 DEF Held, Pending, At
  <2>4. Admitted' = {}
    BY <1>1, <1>3, <2>3 DEF Admitted
  <2>5. Cardinality({}) = 0
    BY FS_EmptySet
  <2>6. QED BY <1>3, <2>3, <2>4, <2>5, LimiterAssumption
<1>8. ExpiryArmed'
  BY <1>1 DEF ExpiryArmed
<1>9. QED BY <1>4, <1>6, <1>7, <1>8 DEF LimInv

LEMMA LimInvStep == LimInv /\ [Next]_vars => LimInv'
<1> SUFFICES ASSUME LimInv, [Next]_vars PROVE LimInv'
  OBVIOUS
<1>1. ASSUME NEW t \in Tasks, Ask(t) PROVE LimInv'
  BY <1>1, LimInvAsk
<1>2. ASSUME NEW t \in Tasks, Refuse(t) PROVE LimInv'
  BY <1>2, LimInvRefuse
<1>3. ASSUME NEW t \in Tasks, Admit(t) PROVE LimInv'
  BY <1>3, LimInvAdmit
<1>4. ASSUME NEW t \in Tasks, Release(t) PROVE LimInv'
  BY <1>4, LimInvRelease
<1>5. ASSUME NEW t \in Tasks, Reset(t) PROVE LimInv'
  BY <1>5, LimInvReset
<1>6. ASSUME NEW t \in Tasks, Die(t) PROVE LimInv'
  BY <1>6, LimInvDie
<1>7. ASSUME NEW t \in Tasks, Cut(t) PROVE LimInv'
  BY <1>7, LimInvCut
<1>8. CASE Lapse
  BY <1>8, LimInvLapse
<1>9. CASE UNCHANGED vars
  <2>1. UNCHANGED <<count, ttl, pc, seen, leaked, torn, used>>
    BY <1>9 DEF vars
  <2>2. /\ Held' = Held /\ Pending' = Pending /\ Admitted' = Admitted
        /\ At("serving")' = At("serving")
        /\ At("resetting")' = At("resetting")
    BY <2>1 DEF Held, Pending, At, Admitted
  <2>3. TypeOK'
    BY <2>1, <2>2 DEF LimInv, TypeOK
  <2>4. SlotsNotLost' /\ Exact' /\ ExpiryArmed'
    BY <2>1, <2>2 DEF LimInv, SlotsNotLost, Exact, ExpiryArmed
  <2>5. QED BY <2>3, <2>4 DEF LimInv
<1>10. QED BY <1>1, <1>2, <1>3, <1>4, <1>5, <1>6, <1>7, <1>8, <1>9 DEF Next

THEOREM LimInvariant == Spec => []LimInv
<1>1. QED BY LimInvInit, LimInvStep, PTL DEF Spec

-----------------------------------------------------------------------------
(* What follows for the properties.                                        *)

\* For any number of tasks: a missing key stands for zero and acquire admits
\* only at or below the limit.
THEOREM LimiterTypes == Spec => []TypeOK
<1>1. LimInv => TypeOK
  BY DEF LimInv
<1>2. QED BY <1>1, LimInvariant, PTL

\* Refusals, releases, resets and lapses never leave the counter above the
\* slots of live tasks and of dead ones.
THEOREM LimiterLosesNoSlot == Spec => []SlotsNotLost
<1>1. LimInv => SlotsNotLost
  BY DEF LimInv
<1>2. QED BY <1>1, LimInvariant, PTL

\* Without a lapse in the middle of a task's commands, release never resets the
\* counter and no more than Max tasks of the department are at work.
THEOREM LimiterHolds == Spec => []WithinLimit
<1>1. ASSUME LimInv, torn = "no"
      PROVE  Cardinality(At("serving")) <= Max
  <2>1. TypeOK /\ Cardinality(Admitted) <= Max
    BY <1>1 DEF LimInv, Exact
  <2>2. QED BY <2>1, Sets, LimiterAssumption
<1>2. LimInv => WithinLimit
  BY <1>1 DEF WithinLimit
<1>3. QED BY <1>2, LimInvariant, PTL

\* Unless a task was cut off between INCR and EXPIRE, slots in the counter are
\* under an expiry once every task that asked has its answer.
THEOREM LimiterExpires == Spec => []ExpiryArmed
<1>1. LimInv => ExpiryArmed
  BY DEF LimInv
<1>2. QED BY <1>1, LimInvariant, PTL

=============================================================================
