------------------------------ MODULE NcmDeploy ------------------------------
(***************************************************************************)
(* Candidates and their deployment: services/ncm_deploy.py and the         *)
(* candidate and deployment handlers of api/routes_ncm.py, over the        *)
(* archive of NcmArchive.                                                  *)
(*                                                                         *)
(* deploy_candidate and rollback_deployment are sequences of transactions. *)
(* Each transaction of a request takes the gate of reference_lock.py at    *)
(* its first statement and drops it when it commits: requests exclude one  *)
(* another inside transactions and interleave between them.  The one that  *)
(* talks to the device stays open until its verification backup commits.   *)
(* What a request holds in memory across a commit is a stale object that   *)
(* the session reads again, and misses when the row is gone.               *)
(*                                                                         *)
(* A configuration is abstracted to the set of candidates whose change it  *)
(* carries.                                                                *)
(***************************************************************************)
EXTENDS Integers

CONSTANTS
  Requests,     \* threads that deploy or roll back
  Admins,       \* administrators
  Candidates,   \* identities of candidates
  Devices, Schedules, Deployments, MaxSnapshots, None   \* see NcmArchive

VARIABLES
  running, snapshot, baseline, pin, writer, stage, horizon, seen, protected,
  candidate,    \* rows of ncm_candidates
  deployment,   \* rows of ncm_deployments, without their snapshot columns
  gate,         \* the request whose transaction is open across steps
  at,           \* where each request is
  mine,         \* the deployment it works on
  got           \* the snapshots it has as objects: before and after the change

Archive == INSTANCE NcmArchive WITH Contents <- SUBSET Candidates

archive == <<running, snapshot, baseline, pin, writer, stage, horizon, seen, protected>>
request == <<at, mine, got>>
vars == <<running, snapshot, baseline, pin, writer, stage, horizon, seen, protected,
          candidate, deployment, gate, at, mine, got>>

ASSUME DeployAssumption ==
  /\ MaxSnapshots \in Nat
  /\ None \notin Int
  /\ None \notin Requests \cup Admins \cup Candidates \cup Devices \cup Schedules
                   \cup Deployments
  /\ \A content \in SUBSET Candidates : content # None

-----------------------------------------------------------------------------
(* Data *)

AllowedTransitions ==
  [draft            |-> {"pending_approval", "cancelled"},
   pending_approval |-> {"approved", "rejected", "cancelled"},
   approved         |-> {"deployed", "failed", "cancelled"},
   rejected         |-> {"draft", "cancelled"},
   failed           |-> {"draft", "cancelled"},
   deployed         |-> {},
   cancelled        |-> {}]

CanTransition(c, to) ==
  candidate[c].status # "none" /\ to \in AllowedTransitions[candidate[c].status]

NoCandidate  == [status |-> "none", device |-> None, author |-> None, approver |-> None]
NoDeployment == [status |-> "none", candidate |-> None]
NoSnapshots  == [pre |-> None, post |-> None]

CandidateOf(d) == deployment[d].candidate
DeviceOf(d)    == candidate[CandidateOf(d)].device
IsThere(i)     == snapshot[i].fate = "kept"

GateIsFree == gate = None

Goto(r, place) == at' = [at EXCEPT ![r] = place]

\* The handler returns or raises.
Return(r) ==
  /\ Goto(r, "idle")
  /\ mine' = [mine EXCEPT ![r] = None]
  /\ got' = [got EXCEPT ![r] = NoSnapshots]

SetStatus(d, status) == deployment' = [deployment EXCEPT ![d].status = status]
SetCandidate(c, status) == candidate' = [candidate EXCEPT ![c].status = status]

-----------------------------------------------------------------------------
(* The life of a candidate *)

\* create_candidate
Propose(c, dev, a) ==
  /\ GateIsFree
  /\ candidate[c].status = "none"
  /\ candidate' = [candidate EXCEPT ![c] =
       [status |-> "draft", device |-> dev, author |-> a, approver |-> None]]
  /\ UNCHANGED <<archive, deployment, gate, request>>

\* submit_candidate
Submit(c) ==
  /\ GateIsFree
  /\ CanTransition(c, "pending_approval")
  /\ SetCandidate(c, "pending_approval")
  /\ UNCHANGED <<archive, deployment, gate, request>>

\* Variant with a fault: the author may approve.
ApproveOwn(c, a) ==
  /\ GateIsFree
  /\ CanTransition(c, "approved")
  /\ candidate' = [candidate EXCEPT ![c].status = "approved", ![c].approver = a]
  /\ UNCHANGED <<archive, deployment, gate, request>>

\* review_candidate
Approve(c, a) ==
  /\ GateIsFree
  /\ CanTransition(c, "approved")
  /\ candidate[c].author # a
  /\ candidate' = [candidate EXCEPT ![c].status = "approved", ![c].approver = a]
  /\ UNCHANGED <<archive, deployment, gate, request>>

Reject(c) ==
  /\ GateIsFree
  /\ CanTransition(c, "rejected")
  /\ SetCandidate(c, "rejected")
  /\ UNCHANGED <<archive, deployment, gate, request>>

-----------------------------------------------------------------------------
(* deploy_candidate *)

\* The checks and the deployment row.
Begin(r, c, d) ==
  /\ at[r] = "idle"
  /\ GateIsFree
  /\ candidate[c].status = "approved"
  /\ deployment[d].status = "none"
  /\ deployment' = [deployment EXCEPT ![d] = [status |-> "running", candidate |-> c]]
  /\ mine' = [mine EXCEPT ![r] = d]
  /\ Goto(r, "backup")
  /\ UNCHANGED <<archive, candidate, gate, got>>

\* Variant with a fault: the rollback point is pinned only afterwards.
PreBackupUnpinned(r) ==
  /\ at[r] = "backup"
  /\ GateIsFree
  /\ \E i \in Archive!Snapshots :
       /\ Archive!PlainBackup(DeviceOf(mine[r]), i)
       /\ got' = [got EXCEPT ![r].pre = i]
  /\ Goto(r, "check")
  /\ UNCHANGED <<candidate, deployment, gate, mine>>

\* Variant with a fault: the backup does not take the writer.
PreBackupUnlocked(r) ==
  /\ at[r] = "backup"
  /\ GateIsFree
  /\ \E i \in Archive!Snapshots :
       /\ Archive!PinBackupUnlocked(mine[r], "pre", DeviceOf(mine[r]), i)
       /\ got' = [got EXCEPT ![r].pre = i]
  /\ Goto(r, "check")
  /\ UNCHANGED <<candidate, deployment, gate, mine>>

\* The rollback point.
PreBackup(r) ==
  /\ at[r] = "backup"
  /\ GateIsFree
  /\ \E i \in Archive!Snapshots :
       /\ Archive!PinBackup(mine[r], "pre", DeviceOf(mine[r]), i)
       /\ got' = [got EXCEPT ![r].pre = i]
  /\ Goto(r, "check")
  /\ UNCHANGED <<candidate, deployment, gate, mine>>

\* The writer is busy or the retrieval failed: the device is not touched.
PreFailed(r) ==
  /\ at[r] = "backup"
  /\ GateIsFree
  /\ SetStatus(mine[r], "failed")
  /\ Return(r)
  /\ UNCHANGED <<archive, candidate, gate>>

\* pre.id is read again; the column it is assigned to has that value already.
CheckPre(r) ==
  /\ at[r] = "check"
  /\ GateIsFree
  /\ IsThere(got[r].pre)
  /\ Goto(r, "send")
  /\ UNCHANGED <<archive, candidate, deployment, gate, mine, got>>

\* Variant with a fault: the transaction ends before the verification.
SendAndCommit(r) ==
  /\ at[r] = "send"
  /\ GateIsFree
  /\ \E effect \in {{}, {CandidateOf(mine[r])}} :
       running' = [running EXCEPT ![DeviceOf(mine[r])] = @ \cup effect]
  /\ \E place \in {"verify", "refused"} : Goto(r, place)
  /\ UNCHANGED <<snapshot, baseline, pin, writer, stage, horizon, seen, protected,
                 candidate, deployment, gate, mine, got>>

\* The commands, which may have no effect, whether the device reports success
\* or not.  The transaction stays open.
Send(r) ==
  /\ at[r] = "send"
  /\ GateIsFree
  /\ gate' = r
  /\ \E effect \in {{}, {CandidateOf(mine[r])}} :
       running' = [running EXCEPT ![DeviceOf(mine[r])] = @ \cup effect]
  /\ \E place \in {"verify", "refused"} : Goto(r, place)
  /\ UNCHANGED <<snapshot, baseline, pin, writer, stage, horizon, seen, protected,
                 candidate, deployment, mine, got>>

RecordFailure(r) ==
  /\ at[r] = "refused"
  /\ SetStatus(mine[r], "failed")
  /\ SetCandidate(CandidateOf(mine[r]), "failed")
  /\ gate' = None
  /\ Return(r)
  /\ UNCHANGED archive

\* The verification backup; its commit ends the transaction of Send.
PostBackup(r) ==
  /\ at[r] = "verify"
  /\ \E i \in Archive!Snapshots :
       /\ Archive!PinBackup(mine[r], "post", DeviceOf(mine[r]), i)
       /\ got' = [got EXCEPT ![r].post = i]
  /\ gate' = None
  /\ Goto(r, "report")
  /\ UNCHANGED <<candidate, deployment, mine>>

\* Variant with a fault: the deployment is left for the verification to conclude.
PostSkippedHalf(r) ==
  /\ at[r] = "verify"
  /\ SetCandidate(CandidateOf(mine[r]), "deployed")
  /\ gate' = None
  /\ Return(r)
  /\ UNCHANGED <<archive, deployment>>

\* No verification: the writer is busy or the retrieval failed.
PostSkipped(r) ==
  /\ at[r] = "verify"
  /\ SetStatus(mine[r], "succeeded")
  /\ SetCandidate(CandidateOf(mine[r]), "deployed")
  /\ gate' = None
  /\ Return(r)
  /\ UNCHANGED archive

\* post.id and the digests are read again; whether they differ is recorded in
\* verified_changed, which nothing here depends on.
Report(r) ==
  /\ at[r] = "report"
  /\ GateIsFree
  /\ IsThere(got[r].pre) /\ IsThere(got[r].post)
  /\ SetStatus(mine[r], "succeeded")
  /\ SetCandidate(CandidateOf(mine[r]), "deployed")
  /\ Return(r)
  /\ UNCHANGED <<archive, gate>>

-----------------------------------------------------------------------------
(* rollback_deployment *)

\* The archived configuration is replayed as commands: what the change
\* modified is restored, what it added may stay.  A replay that fails may have
\* been carried out in part.
Rollback(r, d) ==
  /\ at[r] = "idle"
  /\ GateIsFree
  /\ deployment[d].status # "none"
  /\ pin[d].pre # None
  /\ gate' = r
  /\ mine' = [mine EXCEPT ![r] = d]
  /\ got' = [got EXCEPT ![r].pre = pin[d].pre]
  /\ LET old == running[DeviceOf(d)]
         pre == snapshot[pin[d].pre].content
     IN \E new \in SUBSET (old \cup pre) :
          /\ old \cap pre \subseteq new
          /\ running' = [running EXCEPT ![DeviceOf(d)] = new]
          /\ \/ pre \subseteq new /\ Goto(r, "replayed")
             \/ Goto(r, "not_replayed")
  /\ UNCHANGED <<snapshot, baseline, pin, writer, stage, horizon, seen, protected,
                 candidate, deployment>>

RecordRollbackFailure(r) ==
  /\ at[r] = "not_replayed"
  /\ SetStatus(mine[r], "rollback_failed")
  /\ gate' = None
  /\ Return(r)
  /\ UNCHANGED <<archive, candidate>>

RollbackBackup(r) ==
  /\ at[r] = "replayed"
  /\ \E i \in Archive!Snapshots :
       /\ Archive!PlainBackup(DeviceOf(mine[r]), i)
       /\ got' = [got EXCEPT ![r].post = i]
  /\ gate' = None
  /\ Goto(r, "compare")
  /\ UNCHANGED <<candidate, deployment, mine>>

RollbackUnverified(r) ==
  /\ at[r] = "replayed"
  /\ SetStatus(mine[r], "rolled_back")
  /\ gate' = None
  /\ Return(r)
  /\ UNCHANGED <<archive, candidate>>

RecordRollback(r) ==
  /\ at[r] = "compare"
  /\ GateIsFree
  /\ IsThere(got[r].pre) /\ IsThere(got[r].post)
  /\ SetStatus(mine[r], "rolled_back")
  /\ Return(r)
  /\ UNCHANGED <<archive, candidate, gate>>

\* The request ends where it is: its process dies, it waits too long for the
\* gate, or a snapshot it holds as an object is gone.  What it has committed
\* stays; what it has sent stays sent.
Abandon(r) ==
  /\ at[r] # "idle"
  /\ gate' = IF gate = r THEN None ELSE gate
  /\ Return(r)
  /\ UNCHANGED <<archive, candidate, deployment>>

-----------------------------------------------------------------------------
(* Everybody else at the archive *)

\* The scheduler's sessions do not take the gate.
Scheduled ==
  /\ \E s \in Schedules : Archive!ScheduledRun(s)
  /\ UNCHANGED <<candidate, deployment, gate, request>>

OtherRequest ==
  /\ GateIsFree
  /\ \/ \E dev \in Devices : Archive!ClearBaseline(dev)
     \/ \E i \in Archive!Snapshots :
          \/ Archive!DeleteConfiguration(i)
          \/ \E dev \in Devices : Archive!PlainBackup(dev, i) \/ Archive!SetBaseline(dev, i)
  /\ UNCHANGED <<candidate, deployment, gate, request>>

-----------------------------------------------------------------------------
Init ==
  /\ running = [dev \in Devices |-> {}]
  /\ snapshot = [i \in Archive!Snapshots |-> Archive!Gone("none")]
  /\ baseline = [dev \in Devices |-> Archive!NoBaseline]
  /\ pin = [d \in Deployments |-> Archive!NoPins]
  /\ writer = None
  /\ stage = [s \in Schedules |-> "idle"]
  /\ horizon = [s \in Schedules |-> 1]
  /\ seen = [s \in Schedules |-> Archive!Nothing]
  /\ protected = [s \in Schedules |-> {}]
  /\ candidate = [c \in Candidates |-> NoCandidate]
  /\ deployment = [d \in Deployments |-> NoDeployment]
  /\ gate = None
  /\ at = [r \in Requests |-> "idle"]
  /\ mine = [r \in Requests |-> None]
  /\ got = [r \in Requests |-> NoSnapshots]

Lifecycle(c) ==
  \/ \E dev \in Devices, a \in Admins : Propose(c, dev, a)
  \/ Submit(c)
  \/ \E a \in Admins : Approve(c, a)
  \/ Reject(c)

Deploy(r) ==
  \/ \E c \in Candidates, d \in Deployments : Begin(r, c, d)
  \/ PreBackup(r) \/ PreFailed(r) \/ CheckPre(r)
  \/ Send(r) \/ RecordFailure(r)
  \/ PostBackup(r) \/ PostSkipped(r) \/ Report(r)

RollBack(r) ==
  \/ \E d \in Deployments : Rollback(r, d)
  \/ RecordRollbackFailure(r)
  \/ RollbackBackup(r) \/ RollbackUnverified(r) \/ RecordRollback(r)

Next ==
  \/ \E c \in Candidates : Lifecycle(c)
  \/ \E r \in Requests : Deploy(r) \/ RollBack(r) \/ Abandon(r)
  \/ Scheduled
  \/ OtherRequest

Spec == Init /\ [][Next]_vars

-----------------------------------------------------------------------------
(* Properties *)

Places == {"idle", "backup", "check", "send", "verify", "refused", "report",
           "replayed", "not_replayed", "compare"}

\* Every variable has its type; a candidate under way has a device and an
\* author, a deployment a candidate, a request at work a deployment.
TypeOK ==
  /\ Archive!TypeOK
  /\ candidate \in [Candidates ->
       {NoCandidate} \cup
       [status : DOMAIN AllowedTransitions, device : Devices, author : Admins,
        approver : Admins \cup {None}]]
  /\ deployment \in [Deployments ->
       {NoDeployment} \cup
       [status : {"running", "succeeded", "failed", "rolled_back", "rollback_failed"},
        candidate : Candidates]]
  /\ gate \in Requests \cup {None}
  /\ at \in [Requests -> Places]
  /\ mine \in [Requests -> Deployments \cup {None}]
  /\ got \in [Requests -> [pre  : Archive!Snapshots \cup {None},
                           post : Archive!Snapshots \cup {None}]]
  /\ \A r \in Requests : at[r] # "idle" => mine[r] # None

\* Every change a device carries was approved by an administrator other than
\* its author, through whatever deployments and rollbacks it got there.
ChangesAreReviewed ==
  \A dev \in Devices : \A c \in running[dev] :
    candidate[c].approver \notin {None, candidate[c].author}

\* A candidate that counts as deployed or failed has a deployment that was
\* carried to its end.
ConclusionHasDeployment ==
  \A c \in Candidates :
    /\ candidate[c].status = "deployed" =>
         \E d \in Deployments : /\ CandidateOf(d) = c
                                /\ deployment[d].status \notin {"none", "running", "failed"}
    /\ candidate[c].status = "failed" =>
         \E d \in Deployments : /\ CandidateOf(d) = c
                                /\ deployment[d].status \notin {"none", "running"}

\* Retention does not take the rollback point of a deployment under way,
\* although it runs beside it and nobody but the deployment knows of it yet.
RollbackPointIsNotPruned ==
  \A r \in Requests :
    at[r] \in {"check", "send", "verify", "refused", "report"} =>
      snapshot[got[r].pre].fate # "pruned"

\* Between the commands of a request and the backup that verifies them no
\* other deployment or rollback reaches a device, so that what the backup
\* shows is what these commands did.
VerificationIsUndisturbed ==
  [][\A r \in Requests :
       at[r] \in {"verify", "replayed"} /\ at'[r] = at[r] => running' = running]_vars

\* The archive is used only in the ways of NcmArchive: whatever is shown of it
\* there holds here.
ImplementsArchive == Archive!Spec

=============================================================================
