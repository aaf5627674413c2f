--------------------------- MODULE PublicationProofs ---------------------------
(***************************************************************************)
(* Proofs about Publication, for any number of requests in flight, any     *)
(* access types and any bounds.                                            *)
(*                                                                         *)
(* The properties are inductive only with ReadsHold, which says what is    *)
(* still true of the things a request has read: numbers only grow, so a    *)
(* number that is still the highest was never overtaken, and what stood    *)
(* beside it stands.                                                       *)
(***************************************************************************)
EXTENDS Publication, SequenceTheorems, TLAPS

\* What a request has read of the versions and of the revisions.
VersionsHold(q) ==
    /\ q.pc \in {"versioning", "superseding", "withdrawing"} =>
          q.base <= Len(versions)
    /\ q.pc = "superseding" =>
          /\ q.old \notin firm
          /\ q.base = Len(versions) /\ q.base \in Active => q.old = q.base

RevisionsHold(q) ==
    q.pc = "sharing" =>
        /\ q.base <= Len(revisions)
        /\ q.base = Len(revisions) =>
              q.asked.previous = IF revisions = <<>> THEN "none"
                                 ELSE Last(revisions).acl

ReadsHold ==
    /\ ~Exists => DOMAIN versions = {} /\ revisions = <<>>
    /\ status = "absent" =>
          \A x \in Requests : req[x].pc \in {"idle", "deleting"}
    /\ Exists =>
          \A x \in Requests : VersionsHold(req[x]) /\ RevisionsHold(req[x])

PubInv ==
    /\ TypeOK
    /\ RowsAgree
    /\ WithdrawalHolds
    /\ ReadsHold

-----------------------------------------------------------------------------
(* Lists.                                                                  *)

\* A function with the domain of a sequence is a sequence of its length.
LEMMA SameDomain ==
    ASSUME NEW S, NEW s \in Seq(S), NEW t \in [DOMAIN s -> S]
    PROVE  t \in Seq(S) /\ Len(t) = Len(s) /\ DOMAIN t = DOMAIN s
<1>1. Len(s) \in Nat /\ DOMAIN s = 1 .. Len(s)
  BY LenProperties
<1>2. t \in [1 .. Len(s) -> S]
  BY <1>1
<1>3. t \in Seq(S)
  BY <1>1, <1>2, SeqDef
<1>4. DOMAIN t = 1 .. Len(t) /\ Len(t) \in Nat
  BY <1>3, LenProperties
<1>5. DOMAIN t = 1 .. Len(s)
  BY <1>2
<1>6. Len(t) = Len(s)
  BY <1>1, <1>4, <1>5
<1>7. QED BY <1>3, <1>5, <1>6, <1>1

\* What an appended element does to a list.
LEMMA Appended ==
    ASSUME NEW S, NEW s \in Seq(S), NEW x \in S
    PROVE  /\ Append(s, x) \in Seq(S)
           /\ Len(s) \in Nat
           /\ Len(Append(s, x)) = Len(s) + 1
           /\ DOMAIN s = 1 .. Len(s)
           /\ DOMAIN Append(s, x) = 1 .. Len(s) + 1
           /\ Append(s, x)[Len(s) + 1] = x
           /\ \A k \in 1 .. Len(s) : Append(s, x)[k] = s[k]
           /\ Append(s, x) # <<>>
<1> DEFINE t == Append(s, x)
<1>1. /\ t \in Seq(S)
      /\ Len(t) = Len(s) + 1
      /\ t[Len(s) + 1] = x
      /\ \A k \in 1 .. Len(s) : t[k] = s[k]
  BY AppendProperties
<1>2. Len(s) \in Nat /\ DOMAIN s = 1 .. Len(s)
  BY LenProperties
<1>3. DOMAIN t = 1 .. Len(s) + 1
  BY <1>1, LenProperties
<1> HIDE DEF t
<1>4. t # <<>>
  BY <1>1, <1>2, EmptySeq
<1>5. QED BY <1>1, <1>2, <1>3, <1>4 DEF t

\* What TypeOK says of the two lists.
LEMMA Lists ==
    ASSUME TypeOK
    PROVE  /\ Len(versions) \in Nat /\ DOMAIN versions = 1 .. Len(versions)
           /\ Len(revisions) \in Nat
           /\ DOMAIN revisions = 1 .. Len(revisions)
           /\ revisions # <<>> => Len(revisions) > 0
           /\ revisions = <<>> => Len(revisions) = 0
           /\ Active \subseteq 1 .. Len(versions)
           /\ firm \subseteq 1 .. Len(versions)
<1>1. versions \in Seq(VersionStatus) /\ revisions \in Seq(Revision)
  BY DEF TypeOK
<1>2. /\ Len(versions) \in Nat /\ DOMAIN versions = 1 .. Len(versions)
      /\ Len(revisions) \in Nat /\ DOMAIN revisions = 1 .. Len(revisions)
  BY <1>1, LenProperties
<1>3. /\ revisions # <<>> => Len(revisions) \in Nat \ {0}
      /\ Len(<<>>) = 0
  BY <1>1, EmptySeq
<1>4. QED BY <1>2, <1>3 DEF TypeOK, Active

\* A list of one.
LEMMA Single ==
    ASSUME NEW S, NEW x \in S
    PROVE  /\ <<x>> \in Seq(S)
           /\ Len(<<x>>) = 1
           /\ DOMAIN <<x>> = 1 .. 1
           /\ <<x>>[1] = x
           /\ <<x>> # <<>>
  OBVIOUS

-----------------------------------------------------------------------------
(* Requests.                                                               *)

\* Request r goes on to q.
LEMMA Moves ==
    ASSUME TypeOK, NEW r \in Requests, NEW q \in Request, Step(r, q)
    PROVE  /\ req' \in [Requests -> Request]
           /\ req'[r] = q
           /\ \A x \in Requests : x # r => req'[x] = req[x]
  BY DEF TypeOK, Step

\* The record a request starts with.
LEMMA IdleIsRequest == Idle \in Request /\ Idle.pc = "idle"
<1>1. [acl |-> "private", previous |-> "none"] \in Revision
  BY PublicationAssumption DEF Revision
<1>2. QED BY <1>1 DEF Idle, Request, Stages

\* The rows stay, and request r goes on to q: everything holds if what q has
\* read holds.
LEMMA OnlyReads ==
    ASSUME PubInv, NEW r \in Requests, NEW q \in Request, Step(r, q),
           UNCHANGED <<status, current, acl, versions, revisions, firm>>,
           status = "absent" => q.pc \in {"idle", "deleting"},
           Exists => VersionsHold(q) /\ RevisionsHold(q),
           q.pc = "withdrawing" =>
              \A n \in Active : n \in q.seen \/ q.base < n
    PROVE  PubInv'
<1>1. TypeOK /\ RowsAgree /\ WithdrawalHolds /\ ReadsHold
  BY DEF PubInv
<1>2. /\ req' \in [Requests -> Request]
      /\ req'[r] = q
      /\ \A x \in Requests : x # r => req'[x] = req[x]
  BY <1>1, Moves
<1>3. /\ Exists' = Exists
      /\ Active' = Active
  BY DEF Exists, Active
<1>4. \A s : \A x \in At(s)' : x = r \/ x \in At(s)
  BY <1>2 DEF At
<1>5. TypeOK'
  BY <1>1, <1>2 DEF TypeOK
<1>6. RowsAgree'
  BY <1>1, <1>3 DEF RowsAgree, Last
<1>7. WithdrawalHolds'
  <2>1. ASSUME NEW x \in At("withdrawing")', NEW n \in Active'
        PROVE  n \in req'[x].seen \/ req'[x].base < n
    <3>1. x \in Requests
      BY <2>1 DEF At
    <3>2. CASE x = r
      <4>1. q.pc = "withdrawing"
        BY <2>1, <3>2, <1>2 DEF At
      <4>2. n \in q.seen \/ q.base < n
        BY <4>1, <2>1, <1>3
      <4>3. QED BY <4>2, <3>2, <1>2
    <3>3. CASE x # r
      <4>1. req'[x] = req[x] /\ x \in At("withdrawing") /\ n \in Active
        BY <3>3, <3>1, <2>1, <1>2, <1>3, <1>4
      <4>2. QED BY <4>1, <1>1 DEF WithdrawalHolds
    <3>4. QED BY <3>2, <3>3
  <2>2. QED BY <2>1, <1>1 DEF WithdrawalHolds
<1>8. ReadsHold'
  <2>1. ASSUME Exists, NEW x \in Requests
        PROVE  (VersionsHold(req[x]) /\ RevisionsHold(req[x]))'
    <3>1. VersionsHold(req'[x]) /\ RevisionsHold(req'[x])
      BY <2>1, <1>1, <1>2 DEF ReadsHold
    <3>2. QED BY <3>1, <1>3 DEF VersionsHold, RevisionsHold
  <2>2. ASSUME status = "absent", NEW x \in Requests
        PROVE  req'[x].pc \in {"idle", "deleting"}
    BY <2>2, <1>1, <1>2 DEF ReadsHold
  <2>3. ~Exists => DOMAIN versions = {} /\ revisions = <<>>
    BY <1>1 DEF ReadsHold
  <2>4. QED BY <2>1, <2>2, <2>3, <1>3 DEF ReadsHold
<1>9. QED BY <1>5, <1>6, <1>7, <1>8 DEF PubInv

\* A request reads, or is rolled back.
LEMMA ReadsPreserve ==
    ASSUME PubInv, NEW r \in Requests, Reads(r) \/ RollsBack(r)
    PROVE  PubInv'
<1>1. TypeOK /\ RowsAgree /\ WithdrawalHolds /\ ReadsHold
  BY DEF PubInv
<1>2. req[r] \in Request
  BY <1>1 DEF TypeOK
<1>3. /\ Len(versions) \in Nat /\ Len(revisions) \in Nat
      /\ current \in Nat
      /\ Active \subseteq 1 .. Len(versions)
      /\ DOMAIN revisions = 1 .. Len(revisions)
      /\ revisions # <<>> => Len(revisions) > 0
  BY <1>1, Lists DEF TypeOK
<1>4. CASE NewVersionReads(r)
  <2> DEFINE q == [Idle EXCEPT !.pc = "versioning", !.base = current]
  <2>1. Step(r, q) /\ q \in Request /\ q.pc = "versioning" /\ q.base = current
    BY <1>4, <1>3, IdleIsRequest DEF NewVersionReads, Request, Stages, Idle
  <2>2. Exists /\ status # "absent"
    BY <1>4 DEF NewVersionReads, Exists
  <2>3. UNCHANGED <<status, current, acl, versions, revisions, firm>>
    BY <1>4 DEF NewVersionReads
  <2>4. current = Len(versions)
    BY <2>2, <1>1 DEF RowsAgree
  <2> HIDE DEF q
  <2>5. VersionsHold(q) /\ RevisionsHold(q)
    BY <2>1, <2>4, <1>3 DEF VersionsHold, RevisionsHold
  <2>6. QED BY <2>1, <2>2, <2>3, <2>5, OnlyReads
<1>5. CASE NewVersionLooks(r)
  <2> DEFINE v == IF Len(versions) \in Active THEN Len(versions) ELSE 0
             q == [req[r] EXCEPT !.pc = "superseding", !.old = v]
  <2>1. v \in Nat
    BY <1>3
  <2>2. /\ Step(r, q) /\ q \in Request /\ q.pc = "superseding"
        /\ q.base = req[r].base /\ q.old = v
    BY <1>5, <1>2, <2>1 DEF NewVersionLooks, Request, Stages
  <2>3. req[r].pc = "versioning"
    BY <1>5 DEF NewVersionLooks
  <2>4. UNCHANGED <<status, current, acl, versions, revisions, firm>>
    BY <1>5 DEF NewVersionLooks
  <2>5. status # "absent"
    BY <2>3, <1>1 DEF ReadsHold
  <2>6. v \notin firm
    <3>1. firm \subseteq 1 .. Len(versions)
      BY <1>1, Lists
    <3>2. CASE Len(versions) \in Active
      BY <3>2, <1>1 DEF WithdrawalHolds, Active
    <3>3. CASE Len(versions) \notin Active
      BY <3>1, <3>3
    <3>4. QED BY <3>2, <3>3
  <2>7. ASSUME Exists PROVE VersionsHold(q) /\ RevisionsHold(q)
    <3>1. q.base <= Len(versions)
      BY <2>7, <2>2, <2>3, <1>1 DEF ReadsHold, VersionsHold
    <3>2. q.base = Len(versions) /\ q.base \in Active => q.old = q.base
      BY <2>2
    <3> HIDE DEF q, v
    <3>3. QED BY <3>1, <3>2, <2>2, <2>6 DEF VersionsHold, RevisionsHold
  <2> HIDE DEF q
  <2>8. QED BY <2>2, <2>3, <2>4, <2>5, <2>7, OnlyReads
<1>6. CASE WithdrawReads(r)
  <2> DEFINE q == [Idle EXCEPT !.pc = "withdrawing", !.base = Len(versions),
                               !.seen = Active]
  <2>1. Active \in SUBSET Nat
    BY <1>3
  <2>2. /\ Step(r, q) /\ q \in Request /\ q.pc = "withdrawing"
        /\ q.base = Len(versions) /\ q.seen = Active
    BY <1>6, <1>3, <2>1, IdleIsRequest
    DEF WithdrawReads, Request, Stages, Idle
  <2>3. Exists /\ status # "absent"
    BY <1>6 DEF WithdrawReads, Exists
  <2>4. UNCHANGED <<status, current, acl, versions, revisions, firm>>
    BY <1>6 DEF WithdrawReads
  <2> HIDE DEF q
  <2>5. VersionsHold(q) /\ RevisionsHold(q)
    BY <2>2, <1>3 DEF VersionsHold, RevisionsHold
  <2>6. QED BY <2>2, <2>3, <2>4, <2>5, OnlyReads
<1>7. CASE DeletionCounts(r)
  <2> DEFINE q == [Idle EXCEPT !.pc = "deleting"]
  <2>1. Step(r, q) /\ q \in Request /\ q.pc = "deleting"
    BY <1>7, IdleIsRequest DEF DeletionCounts, Request, Stages, Idle
  <2>2. UNCHANGED <<status, current, acl, versions, revisions, firm>>
    BY <1>7 DEF DeletionCounts
  <2> HIDE DEF q
  <2>3. VersionsHold(q) /\ RevisionsHold(q)
    BY <2>1 DEF VersionsHold, RevisionsHold
  <2>4. QED BY <2>1, <2>2, <2>3, OnlyReads
<1>8. ASSUME NEW a \in Acls, ShareReads(r, a) PROVE PubInv'
  <2> DEFINE p == IF revisions = <<>> THEN "none" ELSE Last(revisions).acl
             q == [Idle EXCEPT !.pc = "sharing", !.base = Len(revisions),
                               !.asked = [acl |-> a, previous |-> p]]
  <2>1. p \in Acls \cup {"none"}
    <3>1. ASSUME revisions # <<>> PROVE Last(revisions) \in Revision
      <4>1. Len(revisions) \in 1 .. Len(revisions)
        BY <3>1, <1>3
      <4>2. revisions \in Seq(Revision)
        BY <1>1 DEF TypeOK
      <4>3. QED BY <4>1, <4>2, ElementOfSeq DEF Last
    <3>2. QED BY <3>1 DEF Revision
  <2> HIDE DEF p
  <2>2. [acl |-> a, previous |-> p] \in Revision
    BY <2>1, <1>8 DEF Revision
  <2>3. Step(r, q)
    BY <1>8 DEF ShareReads, p
  <2>4. /\ q \in Request /\ q.pc = "sharing"
        /\ q.base = Len(revisions) /\ q.asked.previous = p
    BY <1>3, <2>2, IdleIsRequest DEF Request, Stages, Idle
  <2>5. Exists /\ status # "absent"
    BY <1>8 DEF ShareReads, Exists
  <2>6. UNCHANGED <<status, current, acl, versions, revisions, firm>>
    BY <1>8 DEF ShareReads
  <2> HIDE DEF q
  <2>7. VersionsHold(q) /\ RevisionsHold(q)
    BY <2>4, <1>3 DEF VersionsHold, RevisionsHold, p
  <2>8. QED BY <2>3, <2>4, <2>5, <2>6, <2>7, OnlyReads
<1>9. CASE RollsBack(r)
  <2>1. Step(r, Idle)
    BY <1>9 DEF RollsBack
  <2>2. UNCHANGED <<status, current, acl, versions, revisions, firm>>
    BY <1>9 DEF RollsBack
  <2>3. VersionsHold(Idle) /\ RevisionsHold(Idle)
    BY IdleIsRequest DEF VersionsHold, RevisionsHold
  <2>4. QED BY <2>1, <2>2, <2>3, IdleIsRequest, OnlyReads
<1>10. QED BY <1>4, <1>5, <1>6, <1>7, <1>8, <1>9 DEF Reads

-----------------------------------------------------------------------------
(* Rows change: every request stays as it is or ends.                      *)

Keeps ==
    /\ req' \in [Requests -> Request]
    /\ \A x \in Requests : req'[x] = req[x] \/ req'[x] = Idle

LEMMA KeptSets ==
    ASSUME Keeps, NEW s, s # "idle", NEW x \in At(s)'
    PROVE  x \in Requests /\ x \in At(s) /\ req'[x] = req[x]
  BY IdleIsRequest DEF Keeps, At

\* A request that ends, and a step that no request takes.
LEMMA Ends ==
    ASSUME TypeOK, NEW r \in Requests, Step(r, Idle)
    PROVE  Keeps
<1>1. /\ req' \in [Requests -> Request]
      /\ req'[r] = Idle
      /\ \A x \in Requests : x # r => req'[x] = req[x]
  BY Moves, IdleIsRequest
<1>2. QED BY <1>1, IdleIsRequest DEF Keeps, At

LEMMA NobodyMoves ==
    ASSUME TypeOK, req' = req
    PROVE  Keeps
  BY DEF TypeOK, Keeps, At

\* Withdraw, with or without the result.
LEMMA Withdrawals ==
    ASSUME PubInv, NEW S, Withdraw(S), Keeps,
           status' \in {status, IF Exists THEN "withdrawn" ELSE status},
           UNCHANGED <<current, acl, revisions>>
    PROVE  PubInv'
<1>1. TypeOK /\ RowsAgree /\ WithdrawalHolds /\ ReadsHold
  BY DEF PubInv
<1>2. /\ Exists' = Exists
      /\ status' = "absent" => status = "absent"
      /\ status' = "published" => status = "published"
      /\ status' \in ResultStatus
  BY <1>1 DEF Exists, TypeOK, ResultStatus
<1>3. /\ versions \in Seq(VersionStatus)
      /\ versions' \in [DOMAIN versions -> VersionStatus]
  <2>1. \A n \in DOMAIN versions : versions[n] \in VersionStatus
    BY <1>1, LenProperties, ElementOfSeq DEF TypeOK
  <2>2. QED BY <2>1, <1>1 DEF Withdraw, TypeOK, VersionStatus
<1>4. /\ versions' \in Seq(VersionStatus)
      /\ Len(versions') = Len(versions)
      /\ DOMAIN versions' = DOMAIN versions
  BY <1>3, SameDomain
<1>5. \A n \in DOMAIN versions :
         versions'[n] = IF n \in S THEN "withdrawn" ELSE versions[n]
  BY DEF Withdraw
<1>6. Active' \subseteq Active
  BY <1>4, <1>5 DEF Active
<1>7. /\ firm' \subseteq DOMAIN versions
      /\ \A n \in firm' : n \in firm \/ n \in S
      /\ At("superseding") # {} => firm' = firm
  BY <1>1 DEF Withdraw, TypeOK
<1>8. TypeOK'
  BY <1>1, <1>2, <1>4, <1>7 DEF TypeOK, Keeps
<1>9. RowsAgree'
  BY <1>1, <1>2, <1>4, <1>6 DEF RowsAgree, Last
<1>10. WithdrawalHolds'
  <2>1. ASSUME NEW n \in firm' PROVE versions'[n] = "withdrawn"
    BY <1>1, <1>5, <1>7 DEF WithdrawalHolds
  <2>2. ASSUME NEW x \in At("withdrawing")', NEW n \in Active'
        PROVE  n \in req'[x].seen \/ req'[x].base < n
    <3>1. x \in At("withdrawing") /\ req'[x] = req[x] /\ n \in Active
      BY <2>2, <1>6, KeptSets
    <3>2. QED BY <3>1, <1>1 DEF WithdrawalHolds
  <2>3. QED BY <2>1, <2>2 DEF WithdrawalHolds
<1>11. ReadsHold'
  <2>1. ASSUME Exists, NEW x \in Requests
        PROVE  (VersionsHold(req[x]) /\ RevisionsHold(req[x]))'
    <3>1. CASE req'[x] = Idle
      BY <3>1, IdleIsRequest DEF VersionsHold, RevisionsHold
    <3>2. CASE req'[x] = req[x]
      <4>1. VersionsHold(req[x]) /\ RevisionsHold(req[x])
        BY <2>1, <1>1 DEF ReadsHold
      <4>2. req[x].pc = "superseding" => firm' = firm
        BY <1>7 DEF At
      <4>3. VersionsHold(req[x])'
        BY <4>1, <4>2, <3>2, <1>4, <1>6 DEF VersionsHold
      <4>4. RevisionsHold(req[x])'
        BY <4>1, <3>2 DEF RevisionsHold, Last
      <4>5. QED BY <4>3, <4>4
    <3>3. QED BY <3>1, <3>2 DEF Keeps
  <2>2. ASSUME status = "absent", NEW x \in Requests
        PROVE  req'[x].pc \in {"idle", "deleting"}
    BY <2>2, <1>1, IdleIsRequest DEF ReadsHold, Keeps
  <2>3. ~Exists => DOMAIN versions' = {} /\ revisions' = <<>>
    BY <1>1, <1>4 DEF ReadsHold
  <2>4. QED BY <2>1, <2>2, <2>3, <1>2 DEF ReadsHold
<1>12. QED BY <1>8, <1>9, <1>10, <1>11 DEF PubInv

\* Only the result's status changes: hidden, or republished.
LEMMA StatusChanges ==
    ASSUME PubInv, HideResult \/ RepublishResult
    PROVE  PubInv'
<1>1. TypeOK /\ RowsAgree /\ WithdrawalHolds /\ ReadsHold
  BY DEF PubInv
<1>2. /\ Exists /\ Exists'
      /\ status' \in ResultStatus /\ status' # "absent"
      /\ UNCHANGED <<current, acl, versions, revisions, req, firm>>
  BY DEF HideResult, RepublishResult, Exists, ResultStatus
<1>3. /\ Active' = Active
      /\ \A s : At(s)' = At(s)
  BY <1>2 DEF Active, At
<1>4. TypeOK'
  BY <1>1, <1>2, <1>3 DEF TypeOK
<1>5. RowsAgree'
  BY <1>1, <1>2, <1>3 DEF RowsAgree, Last
<1>6. WithdrawalHolds'
  BY <1>1, <1>2, <1>3 DEF WithdrawalHolds
<1>7. ReadsHold'
  <2>1. ASSUME NEW x \in Requests
        PROVE  (VersionsHold(req[x]) /\ RevisionsHold(req[x]))'
    <3>1. VersionsHold(req[x]) /\ RevisionsHold(req[x])
      BY <1>1, <1>2 DEF ReadsHold
    <3>2. QED BY <3>1, <1>2, <1>3 DEF VersionsHold, RevisionsHold, Last
  <2>2. QED BY <2>1, <1>2 DEF ReadsHold
<1>8. QED BY <1>4, <1>5, <1>6, <1>7 DEF PubInv

\* The result's row goes.
LEMMA Erasures ==
    ASSUME PubInv, Erase, Keeps
    PROVE  PubInv'
<1>1. TypeOK
  BY DEF PubInv
<1>2. /\ status' = "deleted" /\ versions' = <<>> /\ revisions' = <<>>
      /\ firm' = {} /\ UNCHANGED <<current, acl>>
  BY DEF Erase
<1>3. ~Exists' /\ DOMAIN versions' = {} /\ Active' = {}
  BY <1>2 DEF Exists, Active
<1>4. TypeOK'
  <2>1. versions' \in Seq(VersionStatus) /\ revisions' \in Seq(Revision)
    BY <1>2, EmptySeq
  <2>2. QED BY <1>1, <1>2, <2>1 DEF TypeOK, ResultStatus, Keeps
<1>5. RowsAgree'
  <2>1. Len(revisions') = 0
    BY <1>2, EmptySeq
  <2>2. \A k \in 2 .. Len(revisions') :
           revisions'[k].previous = revisions'[k - 1].acl
    BY <2>1
  <2>3. QED BY <2>2, <1>2, <1>3 DEF RowsAgree
<1>6. WithdrawalHolds'
  BY <1>2, <1>3 DEF WithdrawalHolds
<1>7. ReadsHold'
  BY <1>2, <1>3 DEF ReadsHold
<1>8. QED BY <1>4, <1>5, <1>6, <1>7 DEF PubInv

\* The result is published for the first time.
LEMMA Births ==
    ASSUME PubInv,
           PublishConclusion \/ \E a \in Acls : PublishResult(a)
    PROVE  PubInv'
<1>1. TypeOK /\ RowsAgree /\ WithdrawalHolds /\ ReadsHold
  BY DEF PubInv
<1>2. /\ status = "absent" /\ status' = "published" /\ current' = 1
      /\ versions' = <<"active">>
      /\ UNCHANGED <<req, firm>>
  BY DEF PublishConclusion, PublishResult
<1>3. /\ DOMAIN versions = {} /\ revisions = <<>>
      /\ \A x \in Requests : req[x].pc \in {"idle", "deleting"}
  BY <1>1, <1>2 DEF ReadsHold, Exists
<1>4. /\ versions' \in Seq(VersionStatus) /\ Len(versions') = 1
      /\ DOMAIN versions' = 1 .. 1 /\ Active' \subseteq 1 .. 1
  <2>1. "active" \in VersionStatus
    BY DEF VersionStatus
  <2>2. QED BY <2>1, <1>2, Single DEF Active
<1>5. /\ acl' \in Acls
      /\ \/ revisions' = <<>> /\ acl' = "private"
         \/ \E v \in Revision : revisions' = <<v>> /\ acl' = v.acl
  <2>1. CASE PublishConclusion
    BY <2>1, <1>3, PublicationAssumption DEF PublishConclusion
  <2>2. ASSUME NEW a \in Acls, PublishResult(a)
        PROVE  \E v \in Revision : revisions' = <<v>> /\ acl' = v.acl
    <3> DEFINE v == [acl |-> a, previous |-> "none"]
    <3>1. v \in Revision /\ v.acl = a
      BY DEF Revision
    <3>2. revisions' = <<v>> /\ acl' = a
      BY <2>2 DEF PublishResult
    <3> HIDE DEF v
    <3>3. QED BY <3>1, <3>2
  <2>3. CASE \E a \in Acls : PublishResult(a)
    BY <2>2, <2>3 DEF PublishResult
  <2>4. QED BY <2>1, <2>2, <2>3
<1>6. /\ revisions' \in Seq(Revision)
      /\ Len(revisions') \in {0, 1}
      /\ revisions' = <<>> => acl' = "private"
      /\ revisions' # <<>> => acl' = revisions'[Len(revisions')].acl
  <2>1. CASE revisions' = <<>> /\ acl' = "private"
    BY <2>1, EmptySeq
  <2>2. ASSUME NEW v \in Revision, revisions' = <<v>>, acl' = v.acl
        PROVE  /\ revisions' \in Seq(Revision)
               /\ Len(revisions') = 1
               /\ revisions' # <<>>
               /\ acl' = revisions'[Len(revisions')].acl
    <3>1. /\ <<v>> \in Seq(Revision) /\ Len(<<v>>) = 1 /\ <<v>>[1] = v
          /\ <<v>> # <<>>
      BY Single
    <3>2. QED BY <3>1, <2>2
  <2>3. QED BY <2>1, <2>2, <1>5
<1>7. \A s : At(s)' = At(s)
  BY <1>2 DEF At
<1>8. TypeOK'
  BY <1>1, <1>2, <1>3, <1>4, <1>5, <1>6, <1>7 DEF TypeOK, ResultStatus
<1>9. RowsAgree'
  <2>1. \A k \in 2 .. Len(revisions') :
           revisions'[k].previous = revisions'[k - 1].acl
    BY <1>6
  <2>2. QED BY <2>1, <1>2, <1>4, <1>6 DEF RowsAgree, Last
<1>10. WithdrawalHolds'
  <2>1. firm' = {}
    BY <1>1, <1>2, <1>3 DEF TypeOK
  <2>2. At("withdrawing")' = {}
    BY <1>3, <1>7 DEF At
  <2>3. QED BY <2>1, <2>2 DEF WithdrawalHolds
<1>11. ReadsHold'
  <2>1. \A x \in Requests : req'[x].pc \in {"idle", "deleting"}
    BY <1>2, <1>3
  <2>2. ASSUME NEW x \in Requests
        PROVE  (VersionsHold(req[x]) /\ RevisionsHold(req[x]))'
    BY <2>1 DEF VersionsHold, RevisionsHold
  <2>3. QED BY <2>1, <2>2, <1>2 DEF ReadsHold, Exists
<1>12. QED BY <1>8, <1>9, <1>10, <1>11 DEF PubInv

\* A new version: the old one is the one the request saw, or was not active.
LEMMA NewVersions ==
    ASSUME PubInv, NEW r \in Requests, NewVersionWrites(r)
    PROVE  PubInv'
<1>1. TypeOK /\ RowsAgree /\ WithdrawalHolds /\ ReadsHold
  BY DEF PubInv
<1>2. /\ req[r].pc = "superseding" /\ Exists
      /\ req[r].base = Len(versions) /\ current' = req[r].base + 1
      /\ Step(r, Idle) /\ UNCHANGED <<status, acl, revisions, firm>>
  BY DEF NewVersionWrites
<1>3. Len(versions) \in Nat /\ DOMAIN versions = 1 .. Len(versions)
  BY <1>1, Lists
<1>4. PICK base \in Nat : base = Len(versions)
  BY <1>3
<1>5. PICK old : old = req[r].old
  OBVIOUS
<1>6. PICK s : s = [n \in DOMAIN versions |-> IF n = old THEN "superseded"
                                              ELSE versions[n]]
  OBVIOUS
<1>7. versions' = Append(s, "active")
  BY <1>5, <1>6 DEF NewVersionWrites
<1>8. /\ s \in Seq(VersionStatus) /\ Len(s) = base
      /\ DOMAIN s = DOMAIN versions
  <2>1. \A n \in DOMAIN versions : versions[n] \in VersionStatus
    BY <1>1, LenProperties, ElementOfSeq DEF TypeOK
  <2>2. s \in [DOMAIN versions -> VersionStatus]
    BY <1>6, <2>1 DEF VersionStatus
  <2>3. versions \in Seq(VersionStatus)
    BY <1>1 DEF TypeOK
  <2>4. QED BY <2>2, <2>3, SameDomain, <1>4
<1>9. /\ versions' \in Seq(VersionStatus)
      /\ Len(versions') = base + 1
      /\ DOMAIN versions' = 1 .. base + 1
      /\ \A k \in 1 .. base : versions'[k] = s[k]
  <2>1. "active" \in VersionStatus
    BY DEF VersionStatus
  <2>2. QED BY <2>1, <1>7, <1>8, Appended
<1>10. old \notin firm /\ (base \in Active => old = base)
  BY <1>1, <1>2, <1>4, <1>5 DEF ReadsHold, VersionsHold
<1>11. \A n \in Active' : n = base + 1
  <2>1. SUFFICES ASSUME NEW n \in 1 .. base, versions'[n] = "active"
                 PROVE  FALSE
    BY <1>3, <1>4, <1>9 DEF Active
  <2>2. versions[n] = "active" /\ n # old
    BY <2>1, <1>3, <1>4, <1>6, <1>9
  <2>3. n \in Active
    BY <2>1, <2>2, <1>3, <1>4 DEF Active
  <2>4. n = base
    BY <2>3, <1>1, <1>4 DEF RowsAgree
  <2>5. QED BY <2>2, <2>3, <2>4, <1>10
<1>12. Keeps /\ Exists' = Exists
  BY <1>1, <1>2, Ends DEF Exists
<1>13. TypeOK'
  <2>1. firm' \subseteq DOMAIN versions'
    BY <1>1, <1>2, <1>3, <1>4, <1>9 DEF TypeOK
  <2>2. current' \in Nat
    BY <1>2, <1>4
  <2>3. QED BY <2>1, <2>2, <1>1, <1>2, <1>9, <1>12 DEF TypeOK, Keeps
<1>14. RowsAgree'
  BY <1>1, <1>2, <1>4, <1>9, <1>11, <1>12 DEF RowsAgree, Last
<1>15. WithdrawalHolds'
  <2>1. ASSUME NEW n \in firm' PROVE versions'[n] = "withdrawn"
    <3>1. n \in firm /\ n \in 1 .. base /\ n # old
      BY <2>1, <1>1, <1>2, <1>3, <1>4, <1>10 DEF TypeOK
    <3>2. versions[n] = "withdrawn"
      BY <3>1, <1>1 DEF WithdrawalHolds
    <3>3. QED BY <3>1, <3>2, <1>3, <1>4, <1>6, <1>9
  <2>2. ASSUME NEW x \in At("withdrawing")', NEW n \in Active'
        PROVE  req'[x].base < n
    <3>1. x \in Requests /\ x \in At("withdrawing") /\ req'[x] = req[x]
      BY <1>12, KeptSets
    <3>2. req[x].base <= base
      BY <3>1, <1>1, <1>2, <1>4 DEF ReadsHold, VersionsHold, At
    <3>3. req[x].base \in Nat
      BY <3>1, <1>1 DEF TypeOK, Request
    <3>4. QED BY <3>1, <3>2, <3>3, <1>11
  <2>3. QED BY <2>1, <2>2 DEF WithdrawalHolds
<1>16. ReadsHold'
  <2>1. ASSUME NEW x \in Requests
        PROVE  (VersionsHold(req[x]) /\ RevisionsHold(req[x]))'
    <3>1. CASE req'[x] = Idle
      BY <3>1, IdleIsRequest DEF VersionsHold, RevisionsHold
    <3>2. CASE req'[x] = req[x]
      <4>1. VersionsHold(req[x]) /\ RevisionsHold(req[x])
        BY <1>1, <1>2 DEF ReadsHold
      <4>2. req[x].base \in Nat
        BY <1>1 DEF TypeOK, Request
      <4>3. req[x].pc \in {"versioning", "superseding", "withdrawing"} =>
               req[x].base <= base
        BY <4>1, <1>4 DEF VersionsHold
      <4>4. VersionsHold(req[x])'
        BY <4>1, <4>2, <4>3, <3>2, <1>2, <1>9 DEF VersionsHold
      <4>5. RevisionsHold(req[x])'
        BY <4>1, <3>2, <1>2 DEF RevisionsHold, Last
      <4>6. QED BY <4>4, <4>5
    <3>3. QED BY <3>1, <3>2, <1>12 DEF Keeps
  <2>2. status' # "absent" /\ Exists'
    BY <1>2, <1>12 DEF Exists
  <2>3. QED BY <2>1, <2>2 DEF ReadsHold
<1>17. QED BY <1>13, <1>14, <1>15, <1>16 DEF PubInv

\* A new access revision: the newest one is the one the request saw.
LEMMA NewRevisions ==
    ASSUME PubInv, NEW r \in Requests, ShareWrites(r)
    PROVE  PubInv'
<1>1. TypeOK /\ RowsAgree /\ WithdrawalHolds /\ ReadsHold
  BY DEF PubInv
<1>2. /\ req[r].pc = "sharing" /\ Exists
      /\ req[r].base = Len(revisions)
      /\ Step(r, Idle) /\ UNCHANGED <<status, current, versions, firm>>
  BY DEF ShareWrites
<1>3. /\ Len(revisions) \in Nat /\ DOMAIN revisions = 1 .. Len(revisions)
      /\ revisions # <<>> => Len(revisions) > 0
      /\ revisions = <<>> => Len(revisions) = 0
  BY <1>1, Lists
<1>4. PICK base \in Nat : base = Len(revisions)
  BY <1>3
<1>5. PICK asked \in Revision : asked = req[r].asked
  BY <1>1 DEF TypeOK, Request
<1>6. revisions' = Append(revisions, asked) /\ acl' = asked.acl
  BY <1>5 DEF ShareWrites
<1>7. /\ revisions' \in Seq(Revision)
      /\ Len(revisions') = base + 1
      /\ revisions'[base + 1] = asked
      /\ \A k \in 1 .. base : revisions'[k] = revisions[k]
      /\ revisions' # <<>>
  BY <1>1, <1>4, <1>6, Appended DEF TypeOK
<1>8. base > 0 => asked.previous = revisions[base].acl
  BY <1>1, <1>2, <1>3, <1>4, <1>5 DEF ReadsHold, RevisionsHold, Last
<1>9. /\ Keeps /\ Exists' = Exists
      /\ Active' = Active
  BY <1>1, <1>2, Ends DEF Exists, Active
<1>10. TypeOK'
  <2>1. acl' \in Acls
    BY <1>6 DEF Revision
  <2>2. QED BY <2>1, <1>1, <1>2, <1>7, <1>9 DEF TypeOK, Keeps
<1>11. RowsAgree'
  <2>1. ASSUME NEW k \in 2 .. base + 1
        PROVE  revisions'[k].previous = revisions'[k - 1].acl
    <3>1. CASE k = base + 1
      <4>1. base > 0 /\ k - 1 = base /\ base \in 1 .. base
        BY <3>1, <2>1
      <4>2. QED BY <4>1, <3>1, <1>7, <1>8
    <3>2. CASE k # base + 1
      <4>1. k \in 2 .. base /\ k \in 1 .. base /\ k - 1 \in 1 .. base
        BY <3>2, <2>1
      <4>2. revisions[k].previous = revisions[k - 1].acl
        BY <4>1, <1>1, <1>4 DEF RowsAgree
      <4>3. QED BY <4>1, <4>2, <1>7
    <3>3. QED BY <3>1, <3>2
  <2>2. acl' = Last(revisions').acl
    BY <1>6, <1>7 DEF Last
  <2>3. Exists' => current' = Len(versions') /\ current' > 0
    BY <1>1, <1>2 DEF RowsAgree
  <2>4. \A n \in Active' : n = Len(versions')
    BY <1>1, <1>2, <1>9 DEF RowsAgree
  <2>5. QED BY <2>1, <2>2, <2>3, <2>4, <1>7 DEF RowsAgree, Last
<1>12. WithdrawalHolds'
  <2>1. ASSUME NEW x \in At("withdrawing")', NEW n \in Active'
        PROVE  n \in req'[x].seen \/ req'[x].base < n
    <3>1. x \in At("withdrawing") /\ req'[x] = req[x] /\ n \in Active
      BY <2>1, <1>9, KeptSets
    <3>2. QED BY <3>1, <1>1 DEF WithdrawalHolds
  <2>2. QED BY <2>1, <1>1, <1>2 DEF WithdrawalHolds
<1>13. ReadsHold'
  <2>1. ASSUME NEW x \in Requests
        PROVE  (VersionsHold(req[x]) /\ RevisionsHold(req[x]))'
    <3>1. CASE req'[x] = Idle
      BY <3>1, IdleIsRequest DEF VersionsHold, RevisionsHold
    <3>2. CASE req'[x] = req[x]
      <4>1. VersionsHold(req[x]) /\ RevisionsHold(req[x])
        BY <1>1, <1>2 DEF ReadsHold
      <4>2. req[x].base \in Nat
        BY <1>1 DEF TypeOK, Request
      <4>3. req[x].pc = "sharing" => req[x].base <= base
        BY <4>1, <1>4 DEF RevisionsHold
      <4>4. VersionsHold(req[x])'
        BY <4>1, <3>2, <1>2, <1>9 DEF VersionsHold
      <4>5. RevisionsHold(req[x])'
        BY <4>2, <4>3, <3>2, <1>7 DEF RevisionsHold
      <4>6. QED BY <4>4, <4>5
    <3>3. QED BY <3>1, <3>2, <1>9 DEF Keeps
  <2>2. status' # "absent" /\ Exists'
    BY <1>2, <1>9 DEF Exists
  <2>3. QED BY <2>1, <2>2 DEF ReadsHold
<1>14. QED BY <1>10, <1>11, <1>12, <1>13 DEF PubInv

-----------------------------------------------------------------------------
(* The invariant.                                                          *)

LEMMA PubInit == Init => PubInv
<1> SUFFICES ASSUME Init PROVE PubInv
  OBVIOUS
<1>1. /\ versions = <<>> /\ revisions = <<>> /\ firm = {}
      /\ status = "absent" /\ acl = "private" /\ current = 0
  BY DEF Init
<1>2. \A x \in Requests : req[x] = Idle
  BY DEF Init
<1>3. ~Exists /\ Active = {} /\ At("withdrawing") = {}
  BY <1>1, <1>2, IdleIsRequest DEF Exists, Active, At
<1>4. /\ versions \in Seq(VersionStatus) /\ revisions \in Seq(Revision)
      /\ Len(revisions) = 0
  BY <1>1, EmptySeq
<1>5. TypeOK
  <2>1. req \in [Requests -> Request]
    BY IdleIsRequest DEF Init
  <2>2. QED BY <2>1, <1>1, <1>4, PublicationAssumption
            DEF TypeOK, ResultStatus
<1>6. RowsAgree
  <2>1. \A k \in 2 .. Len(revisions) :
           revisions[k].previous = revisions[k - 1].acl
    BY <1>4
  <2>2. QED BY <2>1, <1>1, <1>3 DEF RowsAgree
<1>7. WithdrawalHolds
  BY <1>1, <1>3 DEF WithdrawalHolds
<1>8. ReadsHold
  BY <1>1, <1>2, <1>3, IdleIsRequest DEF ReadsHold
<1>9. QED BY <1>5, <1>6, <1>7, <1>8 DEF PubInv

LEMMA WritesPreserve ==
    ASSUME PubInv, NEW r \in Requests, Writes(r)
    PROVE  PubInv'
<1>1. TypeOK
  BY DEF PubInv
<1>2. CASE WithdrawWrites(r)
  <2>1. req[r].pc = "withdrawing" /\ Step(r, Idle) /\ Withdraw(req[r].seen)
    BY <1>2 DEF WithdrawWrites
  <2>2. Keeps
    BY <2>1, <1>1, Ends DEF At
  <2>3. /\ status' \in {status, IF Exists THEN "withdrawn" ELSE status}
        /\ UNCHANGED <<current, acl, revisions>>
    BY <1>2 DEF WithdrawWrites
  <2>4. QED BY <2>1, <2>2, <2>3, Withdrawals
<1>3. CASE DeletionWrites(r)
  <2>1. Erase /\ Step(r, Idle)
    BY <1>3 DEF DeletionWrites
  <2>2. Keeps
    BY <2>1, <1>1, Ends
  <2>3. QED BY <2>1, <2>2, Erasures
<1>4. QED BY <1>2, <1>3, NewVersions, NewRevisions DEF Writes

LEMMA PubStep == PubInv /\ [Next]_vars => PubInv'
<1> SUFFICES ASSUME PubInv, [Next]_vars PROVE PubInv'
  OBVIOUS
<1>1. TypeOK
  BY DEF PubInv
<1>2. ASSUME NEW n \in DOMAIN versions, WithdrawVersion(n) PROVE PubInv'
  <2>1. /\ Withdraw({n}) /\ req' = req
        /\ UNCHANGED <<status, current, acl, revisions>>
    BY <1>2 DEF WithdrawVersion
  <2>2. Keeps
    BY <2>1, <1>1, NobodyMoves
  <2>3. QED BY <2>1, <2>2, Withdrawals
<1>3. CASE DeleteResult
  <2>1. Erase /\ req' = req
    BY <1>3 DEF DeleteResult
  <2>2. Keeps
    BY <2>1, <1>1, NobodyMoves
  <2>3. QED BY <2>1, <2>2, Erasures
<1>4. CASE UNCHANGED vars
  <2>1. /\ UNCHANGED <<status, current, acl, versions, revisions, req, firm>>
        /\ Exists' = Exists /\ Active' = Active
        /\ \A s : At(s)' = At(s)
    BY <1>4 DEF vars, Exists, Active, At
  <2>2. TypeOK' /\ RowsAgree'
    BY <2>1 DEF PubInv, TypeOK, RowsAgree, Last
  <2>3. WithdrawalHolds'
    BY <2>1 DEF PubInv, WithdrawalHolds
  <2>4. ASSUME NEW x \in Requests
        PROVE  /\ VersionsHold(req[x])' = VersionsHold(req[x])
               /\ RevisionsHold(req[x])' = RevisionsHold(req[x])
    BY <2>1 DEF VersionsHold, RevisionsHold, Last
  <2>5. ReadsHold'
    BY <2>1, <2>4 DEF PubInv, ReadsHold
  <2>6. QED BY <2>2, <2>3, <2>5 DEF PubInv
<1>5. QED
  BY <1>2, <1>3, <1>4, Births, StatusChanges, ReadsPreserve, WritesPreserve
  DEF Next

THEOREM PubInvariant == Spec => []PubInv
  BY PubInit, PubStep, PTL DEF Spec

\* Types: a version that is withdrawn for good exists.
THEOREM PubTypes == Spec => []TypeOK
<1>1. PubInv => TypeOK
  BY DEF PubInv
<1>2. QED BY <1>1, PubInvariant, PTL

\* The result's row agrees with its version and access histories, although
\* publish_new_version and update_acl write what they read some steps before.
THEOREM PubRows == Spec => []RowsAgree
<1>1. PubInv => RowsAgree
  BY DEF PubInv
<1>2. QED BY <1>1, PubInvariant, PTL

\* A withdrawn version stays withdrawn unless a new version was superseding it
\* already, and withdraw_result misses only newer versions.
THEOREM PubWithdrawal == Spec => []WithdrawalHolds
<1>1. PubInv => WithdrawalHolds
  BY DEF PubInv
<1>2. QED BY <1>1, PubInvariant, PTL
=============================================================================
