----------------------------- MODULE Publication -----------------------------
(***************************************************************************)
(* A published research result (packages/research/publication) and its     *)
(* second set of operations in the conclusion bar of the timeline          *)
(* (packages/research/timeline/conclusion_bar_service.py), with the        *)
(* deletion of the workspace it came from.                                 *)
(*                                                                         *)
(* Requests of the owner run at the same time in READ COMMITTED            *)
(* transactions without row locks: what a request has read may be stale    *)
(* when it writes.  Its writes touch the result's row or a version's and   *)
(* become visible together.  Two unique indexes, on the version numbers    *)
(* and on the revision numbers of a result, refuse the second of two       *)
(* inserts.  The contents of a version and the permission envelope are     *)
(* data the properties do not look at: any access type may be asked for.   *)
(* A definition Slip_X is a plausible mistake in the definition after it;  *)
(* nothing here uses it.                                                   *)
(***************************************************************************)
EXTENDS Naturals, Sequences, FiniteSets

CONSTANTS
    Requests,      \* requests that may be in flight at the same time
    Acls,          \* access types
    MaxVersions,   \* bound on the versions of the result
    MaxRevisions   \* bound on its access revisions

ASSUME PublicationAssumption ==
    /\ "private" \in Acls
    /\ "none" \notin Acls
    /\ MaxVersions \in Nat
    /\ MaxRevisions \in Nat

VARIABLES
    status,     \* research_result.status
    current,    \* research_result.current_version
    acl,        \* research_result.current_acl_type
    versions,   \* status of each research_result_version, by number
    revisions,  \* research_result_acl_revision, by number
    req,        \* what each request has read
    firm        \* history: versions withdrawn with no new version on its way

vars == <<status, current, acl, versions, revisions, req, firm>>

ResultStatus == {"absent", "published", "withdrawn", "deleted"}
VersionStatus == {"active", "superseded", "withdrawn"}
Revision == [acl: Acls, previous: Acls \cup {"none"}]
Stages == {"idle", "versioning", "superseding", "withdrawing", "sharing",
           "deleting"}

\* base is the highest version or revision number a request has seen, old the
\* version it is about to supersede (0: none), seen those it will withdraw.
Request == [pc: Stages, base: Nat, old: Nat, seen: SUBSET Nat,
            asked: Revision]

Idle == [pc |-> "idle", base |-> 0, old |-> 0, seen |-> {},
         asked |-> [acl |-> "private", previous |-> "none"]]

Exists == status \in {"published", "withdrawn"}
At(stage) == {r \in Requests : req[r].pc = stage}
Active == {n \in DOMAIN versions : versions[n] = "active"}
Last(s) == s[Len(s)]

\* Versions S get status v, and those of them that nobody is superseding are
\* withdrawn for good.
Withdraw(S) ==
    /\ versions' = [n \in DOMAIN versions |->
                      IF n \in S THEN "withdrawn" ELSE versions[n]]
    /\ firm' = IF At("superseding") = {}
               THEN firm \cup (S \cap DOMAIN versions) ELSE firm

\* The result's row goes, and by ON DELETE CASCADE what refers to it.
Erase ==
    /\ status' = "deleted"
    /\ versions' = <<>>
    /\ revisions' = <<>>
    /\ firm' = {}
    /\ UNCHANGED <<current, acl>>

Step(r, q) == req' = [req EXCEPT ![r] = q]

Init ==
    /\ status = "absent"
    /\ current = 0
    /\ acl = "private"
    /\ versions = <<>>
    /\ revisions = <<>>
    /\ req = [r \in Requests |-> Idle]
    /\ firm = {}

-----------------------------------------------------------------------------
(* Publication and new versions.                                           *)

\* publish_result: result, first version and first revision in one.
PublishResult(a) ==
    /\ status = "absent"
    /\ status' = "published"
    /\ current' = 1
    /\ acl' = a
    /\ versions' = <<"active">>
    /\ revisions' = <<[acl |-> a, previous |-> "none"]>>
    /\ UNCHANGED <<req, firm>>

\* publish_conclusion: a private result with one version and no revision.
PublishConclusion ==
    /\ status = "absent"
    /\ status' = "published"
    /\ current' = 1
    /\ acl' = "private"
    /\ versions' = <<"active">>
    /\ UNCHANGED <<revisions, req, firm>>

\* publish_new_version: the result's row first; its status is not looked at.
NewVersionReads(r) ==
    /\ req[r].pc = "idle"
    /\ Exists
    /\ Len(versions) < MaxVersions
    /\ Step(r, [Idle EXCEPT !.pc = "versioning", !.base = current])
    /\ UNCHANGED <<status, current, acl, versions, revisions, firm>>

Slip_SupersedesAny(r) ==
    /\ req[r].pc = "versioning"
    /\ Step(r, [req[r] EXCEPT !.pc = "superseding", !.old = Len(versions)])
    /\ UNCHANGED <<status, current, acl, versions, revisions, firm>>

\* After the checks of the products and the envelope, the newest version.
NewVersionLooks(r) ==
    /\ req[r].pc = "versioning"
    /\ Step(r, [req[r] EXCEPT !.pc = "superseding",
                  !.old = IF Len(versions) \in Active
                          THEN Len(versions) ELSE 0])
    /\ UNCHANGED <<status, current, acl, versions, revisions, firm>>

\* UPDATE by id, INSERT of number base + 1, UPDATE of the result.  Numbers
\* have no gaps, so the index refuses base + 1 unless base is the highest.
NewVersionWrites(r) ==
    /\ req[r].pc = "superseding"
    /\ Exists
    /\ req[r].base = Len(versions)
    /\ versions' = Append([n \in DOMAIN versions |->
                             IF n = req[r].old THEN "superseded"
                             ELSE versions[n]], "active")
    /\ current' = req[r].base + 1
    /\ Step(r, Idle)
    /\ UNCHANGED <<status, acl, revisions, firm>>

-----------------------------------------------------------------------------
(* Withdrawal, republication, deletion.                                    *)

\* withdraw_result of one version: whatever its status is, and the status of
\* the result stays.
WithdrawVersion(n) ==
    /\ Exists
    /\ n \in DOMAIN versions
    /\ Withdraw({n})
    /\ UNCHANGED <<status, current, acl, revisions, req>>

\* withdraw_result of all: the active versions of a list read before ...
WithdrawReads(r) ==
    /\ req[r].pc = "idle"
    /\ Exists
    /\ Step(r, [Idle EXCEPT !.pc = "withdrawing", !.base = Len(versions),
                            !.seen = Active])
    /\ UNCHANGED <<status, current, acl, versions, revisions, firm>>

Slip_Archives(r) ==
    /\ req[r].pc = "withdrawing"
    /\ Withdraw(req[r].seen)
    /\ status' = IF Exists THEN "archived" ELSE status
    /\ Step(r, Idle)
    /\ UNCHANGED <<current, acl, revisions>>

\* ... each by id, then the result.  Nothing is left to update in a result
\* that was deleted meanwhile.
WithdrawWrites(r) ==
    /\ req[r].pc = "withdrawing"
    /\ Withdraw(req[r].seen)
    /\ status' = IF Exists THEN "withdrawn" ELSE status
    /\ Step(r, Idle)
    /\ UNCHANGED <<current, acl, revisions>>

\* The conclusion bar's withdraw_result: the versions keep their status.
HideResult ==
    /\ Exists
    /\ status' = "withdrawn"
    /\ UNCHANGED <<current, acl, versions, revisions, req, firm>>

\* Its republish_result.
RepublishResult ==
    /\ Exists
    /\ status' = "published"
    /\ UNCHANGED <<current, acl, versions, revisions, req, firm>>

\* Its delete_result.
DeleteResult == Exists /\ Erase /\ req' = req

\* delete_workspace: no published result is counted ...
DeletionCounts(r) ==
    /\ req[r].pc = "idle"
    /\ status \in {"absent", "withdrawn"}
    /\ Step(r, [Idle EXCEPT !.pc = "deleting"])
    /\ UNCHANGED <<status, current, acl, versions, revisions, firm>>

\* ... and the workspace is deleted with its results, whatever became of them
\* since the count: one republished in between goes too.
DeletionWrites(r) ==
    /\ req[r].pc = "deleting"
    /\ Erase
    /\ Step(r, Idle)

-----------------------------------------------------------------------------
(* Access revisions.                                                       *)

\* update_acl: the newest revision.
ShareReads(r, a) ==
    /\ req[r].pc = "idle"
    /\ Exists
    /\ Len(revisions) < MaxRevisions
    /\ Step(r, [Idle EXCEPT !.pc = "sharing", !.base = Len(revisions),
                  !.asked = [acl |-> a,
                             previous |-> IF revisions = <<>> THEN "none"
                                          ELSE Last(revisions).acl]])
    /\ UNCHANGED <<status, current, acl, versions, revisions, firm>>

Slip_NoRevisionIndex(r) ==
    /\ req[r].pc = "sharing"
    /\ Exists
    /\ revisions' = Append(revisions, req[r].asked)
    /\ acl' = req[r].asked.acl
    /\ Step(r, Idle)
    /\ UNCHANGED <<status, current, versions, firm>>

\* INSERT of the next number, refused if there is one, and UPDATE.
ShareWrites(r) ==
    /\ req[r].pc = "sharing"
    /\ Exists
    /\ req[r].base = Len(revisions)
    /\ revisions' = Append(revisions, req[r].asked)
    /\ acl' = req[r].asked.acl
    /\ Step(r, Idle)
    /\ UNCHANGED <<status, current, versions, firm>>

\* A request is rolled back: an index or a foreign key refused its insert, a
\* check failed, or the client or the process went away.
RollsBack(r) ==
    /\ req[r].pc # "idle"
    /\ Step(r, Idle)
    /\ UNCHANGED <<status, current, acl, versions, revisions, firm>>

-----------------------------------------------------------------------------
Reads(r) ==
    \/ NewVersionReads(r) \/ NewVersionLooks(r) \/ WithdrawReads(r)
    \/ DeletionCounts(r) \/ \E a \in Acls : ShareReads(r, a)

Writes(r) ==
    \/ NewVersionWrites(r) \/ WithdrawWrites(r) \/ DeletionWrites(r)
    \/ ShareWrites(r)

Next ==
    \/ \E a \in Acls : PublishResult(a)
    \/ PublishConclusion
    \/ \E r \in Requests : Reads(r) \/ Writes(r) \/ RollsBack(r)
    \/ \E n \in DOMAIN versions : WithdrawVersion(n)
    \/ HideResult \/ RepublishResult \/ DeleteResult

Spec == Init /\ [][Next]_vars

-----------------------------------------------------------------------------
(* Properties.                                                             *)

\* Types; only a version that exists is withdrawn for good.
TypeOK ==
    /\ status \in ResultStatus
    /\ current \in Nat
    /\ acl \in Acls
    /\ versions \in Seq(VersionStatus)
    /\ revisions \in Seq(Revision)
    /\ req \in [Requests -> Request]
    /\ firm \subseteq DOMAIN versions

\* The result's row agrees with its two histories, whatever requests overlap:
\* current_version is the newest version, no older one is active, and
\* current_acl_type is that of the newest revision, each of which names the
\* one before it (publish_new_version, update_acl).
RowsAgree ==
    /\ Exists => current = Len(versions) /\ current > 0
    /\ \A n \in Active : n = Len(versions)
    /\ Exists /\ revisions = <<>> => acl = "private"
    /\ revisions # <<>> => acl = Last(revisions).acl
    /\ \A k \in 2 .. Len(revisions) :
          revisions[k].previous = revisions[k - 1].acl

\* A version that is withdrawn stays withdrawn, unless a new version was about
\* to supersede it when it was; and a withdrawal of all versions that is under
\* way misses only versions newer than its list (withdraw_result).
WithdrawalHolds ==
    /\ \A n \in firm : versions[n] = "withdrawn"
    /\ \A r \in At("withdrawing") : \A n \in Active :
          n \in req[r].seen \/ req[r].base < n
=============================================================================
