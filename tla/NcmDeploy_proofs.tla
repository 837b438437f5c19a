-------------------------- MODULE NcmDeploy_proofs --------------------------
(***************************************************************************)
(* Safety of NcmDeploy for any number of requests, administrators,         *)
(* candidates, devices, schedules, deployments and snapshots, and that it  *)
(* implements NcmArchive.                                                  *)
(*                                                                         *)
(* What NcmArchive_proofs shows of the archive is used here through the    *)
(* instance P; every step is first shown to be one of the archive, which   *)
(* needs what the requests know, then the archive's invariant follows.     *)
(***************************************************************************)
EXTENDS NcmDeploy, TLAPS

-----------------------------------------------------------------------------
(* Candidates and deployments *)

\* Candidates that somebody other than their author approved.
Reviewed == {c \in Candidates : candidate[c].approver \notin {None, candidate[c].author}}

\* The places of deploy_candidate and of rollback_deployment.
Deploying == {"backup", "check", "send", "verify", "refused", "report"}
Replaying == {"replayed", "not_replayed", "compare"}

CandidateRows ==
  [status : DOMAIN AllowedTransitions, device : Devices, author : Admins,
   approver : Admins \cup {None}]
DeploymentRows ==
  [status : {"running", "succeeded", "failed", "rolled_back", "rollback_failed"},
   candidate : Candidates]

TablesTyped ==
  /\ candidate \in [Candidates -> {NoCandidate} \cup CandidateRows]
  /\ deployment \in [Deployments -> {NoDeployment} \cup DeploymentRows]

RequestsTyped ==
  /\ gate \in Requests \cup {None}
  /\ at \in [Requests -> Deploying \cup Replaying \cup {"idle"}]
  /\ mine \in [Requests -> Deployments \cup {None}]
  /\ got \in [Requests -> [pre  : Archive!Snapshots \cup {None},
                           post : Archive!Snapshots \cup {None}]]

\* A request at work has a deployment, which was begun.
WorkHasDeployment ==
  \A r \in Requests : at[r] # "idle" =>
    mine[r] \in Deployments /\ deployment[mine[r]].status # "none"

\* Only what was reviewed is deployed.
LaunchedIsReviewed ==
  /\ \A c \in Candidates : candidate[c].status = "approved" => c \in Reviewed
  /\ \A d \in Deployments : deployment[d].status # "none" => CandidateOf(d) \in Reviewed

Local == TablesTyped /\ RequestsTyped /\ WorkHasDeployment /\ LaunchedIsReviewed

\* The statuses of a candidate's row.
LEMMA Statuses ==
  DOMAIN AllowedTransitions = {"draft", "pending_approval", "approved", "rejected", "failed",
                               "deployed", "cancelled"}
BY DEF AllowedTransitions

\* A proposed candidate is a whole row and has an author; a reviewed one is proposed.
LEMMA CandidateShape ==
  ASSUME TablesTyped, NEW c \in Candidates
  PROVE  /\ candidate[c].status # "none" => candidate[c] \in CandidateRows
         /\ candidate[c].status = "none" => candidate[c] = NoCandidate
         /\ c \in Reviewed => candidate[c] \in CandidateRows
         /\ candidate[c] \in CandidateRows => candidate[c].author # None
BY Statuses, DeployAssumption DEF TablesTyped, NoCandidate, CandidateRows, Reviewed

\* A deployment that was begun is a whole row of a candidate.
LEMMA DeploymentShape ==
  ASSUME TablesTyped, NEW d \in Deployments
  PROVE  /\ deployment[d].status # "none" => deployment[d] \in DeploymentRows /\ CandidateOf(d) \in Candidates
         /\ deployment[d].status = "none" => deployment[d] = NoDeployment
BY DEF TablesTyped, NoDeployment, DeploymentRows, CandidateOf

\* The deployment of a request at work is of a reviewed candidate and a device.
LEMMA AtWork ==
  ASSUME Local, NEW r \in Requests, at[r] # "idle"
  PROVE  /\ mine[r] \in Deployments /\ deployment[mine[r]] \in DeploymentRows
         /\ CandidateOf(mine[r]) \in Reviewed
         /\ CandidateOf(mine[r]) \in Candidates
         /\ candidate[CandidateOf(mine[r])] \in CandidateRows
         /\ DeviceOf(mine[r]) \in Devices
<1>1. mine[r] \in Deployments /\ deployment[mine[r]].status # "none"
  BY DEF Local, WorkHasDeployment
<1>2. CandidateOf(mine[r]) \in Reviewed
  BY <1>1 DEF Local, LaunchedIsReviewed
<1>3. deployment[mine[r]] \in DeploymentRows /\ CandidateOf(mine[r]) \in Candidates
  BY <1>1, DeploymentShape DEF Local
<1>4. candidate[CandidateOf(mine[r])] \in CandidateRows
  BY <1>2, <1>3, CandidateShape DEF Local
<1> QED
  BY <1>1, <1>2, <1>3, <1>4 DEF DeviceOf, CandidateRows

\* Moving a candidate on, but not to "approved", leaves reviewed what is reviewed.
LEMMA SetCandidateKeeps ==
  ASSUME Local, NEW c \in Candidates, candidate[c] \in CandidateRows,
         NEW status \in DOMAIN AllowedTransitions \ {"approved"}, SetCandidate(c, status)
  PROVE  /\ candidate' \in [Candidates -> {NoCandidate} \cup CandidateRows]
         /\ Reviewed' = Reviewed
         /\ \A b \in Candidates : candidate'[b].status = "approved" => candidate[b].status = "approved"
<1>0. candidate \in [Candidates -> {NoCandidate} \cup CandidateRows]
  BY DEF Local, TablesTyped
<1>1. [candidate[c] EXCEPT !.status = status] \in CandidateRows
  BY DEF CandidateRows
<1>2. candidate' = [candidate EXCEPT ![c] = [candidate[c] EXCEPT !.status = status]]
  BY DEF SetCandidate
<1>3. candidate' \in [Candidates -> {NoCandidate} \cup CandidateRows]
  BY <1>0, <1>1, <1>2
<1>4. /\ candidate'[c].approver = candidate[c].approver /\ candidate'[c].author = candidate[c].author
      /\ candidate'[c].status = status
  BY <1>0, <1>2 DEF CandidateRows
<1>5. \A b \in Candidates : b # c => candidate'[b] = candidate[b]
  BY <1>0, <1>2
<1>6. ASSUME NEW b \in Candidates
      PROVE /\ candidate'[b].approver = candidate[b].approver
            /\ candidate'[b].author = candidate[b].author
  BY <1>4, <1>5
<1>7. Reviewed' = Reviewed
  BY <1>6 DEF Reviewed
<1> QED
  BY <1>3, <1>4, <1>5, <1>7

\* Recording the status of a deployment touches nothing else of any deployment.
LEMMA SetStatusKeeps ==
  ASSUME Local, NEW d \in Deployments, deployment[d] \in DeploymentRows,
         NEW status \in {"running", "succeeded", "failed", "rolled_back", "rollback_failed"},
         SetStatus(d, status)
  PROVE  /\ deployment' \in [Deployments -> {NoDeployment} \cup DeploymentRows]
         /\ \A e \in Deployments : /\ CandidateOf(e)' = CandidateOf(e)
                                   /\ deployment'[e].status = "none" <=> deployment[e].status = "none"
                                   /\ e # d => deployment'[e] = deployment[e]
         /\ deployment'[d].status = status
<1>0. deployment \in [Deployments -> {NoDeployment} \cup DeploymentRows]
  BY DEF Local, TablesTyped
<1>1. [deployment[d] EXCEPT !.status = status] \in DeploymentRows
  BY DEF DeploymentRows
<1>2. deployment' = [deployment EXCEPT ![d] = [deployment[d] EXCEPT !.status = status]]
  BY DEF SetStatus
<1>3. deployment' \in [Deployments -> {NoDeployment} \cup DeploymentRows]
  BY <1>0, <1>1, <1>2
<1>4. /\ deployment'[d].candidate = deployment[d].candidate
      /\ deployment'[d].status = status
      /\ deployment[d].status # "none"
  BY <1>0, <1>2 DEF DeploymentRows
<1>5. \A e \in Deployments : e # d => deployment'[e] = deployment[e]
  BY <1>0, <1>2
<1> QED
  BY <1>3, <1>4, <1>5 DEF CandidateOf

\* create_candidate takes an identity that is not in use.
LEMMA ProposeKeeps ==
  ASSUME Local, NEW c \in Candidates, NEW dev \in Devices, NEW a \in Admins, Propose(c, dev, a)
  PROVE  /\ candidate' \in [Candidates -> {NoCandidate} \cup CandidateRows]
         /\ Reviewed \subseteq Reviewed'
         /\ \A b \in Candidates : candidate'[b].status = "approved" => candidate[b].status = "approved"
<1> DEFINE row == [status |-> "draft", device |-> dev, author |-> a, approver |-> None]
<1>0. candidate \in [Candidates -> {NoCandidate} \cup CandidateRows]
  BY DEF Local, TablesTyped
<1>1. row \in CandidateRows
  BY Statuses DEF CandidateRows
<1>2. candidate' = [candidate EXCEPT ![c] = row]
  BY DEF Propose
<1>3. candidate[c] = NoCandidate
  BY CandidateShape DEF Propose, Local
<1>4. c \notin Reviewed
  BY <1>3 DEF Reviewed, NoCandidate
<1>5. \A b \in Candidates : b # c => candidate'[b] = candidate[b]
  BY <1>0, <1>2
<1>6. candidate'[c] = row
  BY <1>0, <1>2
<1> QED
  BY <1>0, <1>1, <1>2, <1>4, <1>5, <1>6 DEF Reviewed

\* review_candidate: the approver is another administrator than the author.
LEMMA ApproveKeeps ==
  ASSUME Local, NEW c \in Candidates, NEW a \in Admins, Approve(c, a)
  PROVE  /\ candidate' \in [Candidates -> {NoCandidate} \cup CandidateRows]
         /\ Reviewed \subseteq Reviewed'
         /\ c \in Reviewed'
         /\ \A b \in Candidates : b # c /\ candidate'[b].status = "approved" => candidate[b].status = "approved"
<1> DEFINE row == [candidate[c] EXCEPT !.status = "approved", !.approver = a]
<1>0. candidate \in [Candidates -> {NoCandidate} \cup CandidateRows]
  BY DEF Local, TablesTyped
<1>1. candidate[c] \in CandidateRows /\ candidate[c].author # a
  BY CandidateShape DEF Approve, CanTransition, Local
<1>2. row \in CandidateRows /\ row.approver = a /\ row.author = candidate[c].author
  BY <1>1, Statuses DEF CandidateRows
<1>3. candidate' = [candidate EXCEPT ![c] = row]
  BY <1>0, <1>1 DEF Approve, CandidateRows
<1>4. candidate'[c] = row /\ \A b \in Candidates : b # c => candidate'[b] = candidate[b]
  BY <1>0, <1>3
<1>5. c \in Reviewed'
  BY <1>1, <1>2, <1>4, DeployAssumption DEF Reviewed
<1>6. candidate' \in [Candidates -> {NoCandidate} \cup CandidateRows]
  BY <1>0, <1>2, <1>3
<1>7. Reviewed \subseteq Reviewed'
  BY <1>4, <1>5 DEF Reviewed
<1> HIDE DEF row
<1> QED
  BY <1>4, <1>5, <1>6, <1>7

\* deploy_candidate begins with an approved candidate and a new row.
LEMMA BeginKeeps ==
  ASSUME Local, NEW r \in Requests, NEW c \in Candidates, NEW d \in Deployments, Begin(r, c, d)
  PROVE  /\ deployment' \in [Deployments -> {NoDeployment} \cup DeploymentRows]
         /\ \A e \in Deployments : e # d => deployment'[e] = deployment[e]
         /\ deployment[d].status = "none" /\ deployment'[d].status = "running"
         /\ CandidateOf(d)' = c /\ c \in Reviewed
BY DEF Local, TablesTyped, LaunchedIsReviewed, Begin, DeploymentRows, CandidateOf

\* The steps in which a request concludes.
LEMMA Concludes ==
  ASSUME Local, NEW r \in Requests
  PROVE  /\ PreFailed(r) => SetStatus(mine[r], "failed") /\ candidate' = candidate
         /\ RecordFailure(r) => /\ SetStatus(mine[r], "failed")
                                /\ SetCandidate(CandidateOf(mine[r]), "failed")
         /\ PostSkipped(r) \/ Report(r) => /\ SetStatus(mine[r], "succeeded")
                                           /\ SetCandidate(CandidateOf(mine[r]), "deployed")
         /\ RecordRollbackFailure(r) => SetStatus(mine[r], "rollback_failed") /\ candidate' = candidate
         /\ RollbackUnverified(r) \/ RecordRollback(r) =>
              SetStatus(mine[r], "rolled_back") /\ candidate' = candidate
         /\ \/ PreFailed(r) \/ RecordFailure(r) \/ PostSkipped(r) \/ Report(r)
            \/ RecordRollbackFailure(r) \/ RollbackUnverified(r) \/ RecordRollback(r)
            => at[r] # "idle" /\ Return(r)
BY DEF PreFailed, RecordFailure, PostSkipped, Report, RecordRollbackFailure, RollbackUnverified,
       RecordRollback

\* All other steps leave both tables alone.
TablesAlone == UNCHANGED <<candidate, deployment>>

\* What may happen to the two tables in a step.
Tabled ==
  \/ TablesAlone
  \/ /\ deployment' = deployment
     /\ \E c \in Candidates :
          \/ \E dev \in Devices, a \in Admins : Propose(c, dev, a)
          \/ \E a \in Admins : Approve(c, a)
          \/ /\ candidate[c] \in CandidateRows
             /\ SetCandidate(c, "pending_approval") \/ SetCandidate(c, "rejected")
  \/ /\ candidate' = candidate
     /\ \E r \in Requests, c \in Candidates, d \in Deployments : Begin(r, c, d)
  \/ \E r \in Requests :
       /\ at[r] # "idle" /\ Return(r)
       /\ \/ /\ PreFailed(r)
             /\ SetStatus(mine[r], "failed") /\ candidate' = candidate
          \/ /\ SetStatus(mine[r], "failed")
             /\ SetCandidate(CandidateOf(mine[r]), "failed")
          \/ /\ SetStatus(mine[r], "succeeded")
             /\ SetCandidate(CandidateOf(mine[r]), "deployed")
          \/ /\ SetStatus(mine[r], "rolled_back") \/ SetStatus(mine[r], "rollback_failed")
             /\ candidate' = candidate

\* Every step does one of these to the two tables.
LEMMA StepTables == Local /\ [Next]_vars => Tabled
<1> SUFFICES ASSUME Local, [Next]_vars PROVE Tabled
  OBVIOUS
<1>1. ASSUME NEW c \in Candidates, Lifecycle(c) PROVE Tabled
  <2>1. (Submit(c) \/ Reject(c)) => candidate[c] \in CandidateRows
    BY CandidateShape DEF Submit, Reject, CanTransition, Local
  <2>2. Submit(c) => Tabled
    BY <2>1 DEF Submit, Tabled
  <2>3. Reject(c) => Tabled
    BY <2>1 DEF Reject, Tabled
  <2>4. (\E dev \in Devices, a \in Admins : Propose(c, dev, a)) => Tabled
    BY DEF Propose, Tabled
  <2>5. (\E a \in Admins : Approve(c, a)) => Tabled
    BY DEF Approve, Tabled
  <2> QED
    BY <1>1, <2>2, <2>3, <2>4, <2>5 DEF Lifecycle
<1>2. ASSUME NEW r \in Requests, NEW c \in Candidates, NEW d \in Deployments, Begin(r, c, d)
      PROVE  Tabled
  BY <1>2 DEF Tabled, Begin
<1>3. ASSUME NEW r \in Requests,
             \/ PreFailed(r) \/ RecordFailure(r) \/ PostSkipped(r) \/ Report(r)
             \/ RecordRollbackFailure(r) \/ RollbackUnverified(r) \/ RecordRollback(r)
      PROVE  Tabled
  BY <1>3, Concludes DEF Tabled
<1>4. ASSUME NEW r \in Requests,
             \/ PreBackup(r) \/ CheckPre(r) \/ Send(r) \/ PostBackup(r)
             \/ RollbackBackup(r) \/ Abandon(r) \/ \E d \in Deployments : Rollback(r, d)
      PROVE  TablesAlone
  BY <1>4 DEF TablesAlone, PreBackup, CheckPre, Send, PostBackup, RollbackBackup, Abandon, Rollback
<1>5. Scheduled \/ OtherRequest \/ UNCHANGED vars => TablesAlone
  BY DEF TablesAlone, Scheduled, OtherRequest, vars
<1>6. TablesAlone => Tabled
  BY DEF Tabled
<1> QED
  BY <1>1, <1>2, <1>3, <1>4, <1>5, <1>6 DEF Next, Deploy, RollBack

\* None of them takes back a review or a deployment.
LEMMA TablesStep ==
  ASSUME Local, Tabled
  PROVE  TablesTyped' /\ LaunchedIsReviewed' /\ Reviewed \subseteq Reviewed'
         /\ \A d \in Deployments : deployment[d].status # "none" => deployment'[d].status # "none"
<1> DEFINE Launched == /\ TablesTyped' /\ LaunchedIsReviewed' /\ Reviewed \subseteq Reviewed'
                       /\ \A d \in Deployments :
                            deployment[d].status # "none" => deployment'[d].status # "none"
<1>t. TablesTyped /\ LaunchedIsReviewed
  BY DEF Local
<1>1. CASE TablesAlone
  BY <1>1, <1>t DEF TablesAlone, TablesTyped, LaunchedIsReviewed, Reviewed, CandidateOf
<1>2. ASSUME deployment' = deployment,
             candidate' \in [Candidates -> {NoCandidate} \cup CandidateRows],
             Reviewed \subseteq Reviewed',
             \A b \in Candidates :
               candidate'[b].status = "approved" => candidate[b].status = "approved" \/ b \in Reviewed'
      PROVE  Launched
  BY <1>2, <1>t DEF TablesTyped, LaunchedIsReviewed, CandidateOf
<1>3. ASSUME NEW c \in Candidates, candidate[c] \in CandidateRows, deployment' = deployment,
             SetCandidate(c, "pending_approval") \/ SetCandidate(c, "rejected")
      PROVE  Launched
  BY <1>2, <1>3, SetCandidateKeeps, Statuses
<1>4. ASSUME NEW c \in Candidates, NEW dev \in Devices, NEW a \in Admins, Propose(c, dev, a)
      PROVE  Launched
  <2>1. deployment' = deployment
    BY <1>4 DEF Propose
  <2> QED
    BY <1>2, <1>4, <2>1, ProposeKeeps
<1>5. ASSUME NEW c \in Candidates, NEW a \in Admins, Approve(c, a) PROVE Launched
  <2>1. deployment' = deployment
    BY <1>5 DEF Approve
  <2> QED
    BY <1>2, <1>5, <2>1, ApproveKeeps
<1>6. ASSUME NEW r \in Requests, NEW c \in Candidates, NEW d \in Deployments, Begin(r, c, d),
             candidate' = candidate
      PROVE  Launched
  <2>1. Reviewed' = Reviewed
    BY <1>6 DEF Reviewed
  <2>2. \A e \in Deployments : e # d => CandidateOf(e)' = CandidateOf(e)
    BY <1>6, BeginKeeps DEF CandidateOf
  <2> QED
    BY <1>6, <1>t, <2>1, <2>2, BeginKeeps DEF TablesTyped, LaunchedIsReviewed
<1>7. ASSUME NEW r \in Requests, at[r] # "idle",
             NEW status \in {"running", "succeeded", "failed", "rolled_back", "rollback_failed"},
             SetStatus(mine[r], status),
             \/ candidate' = candidate
             \/ SetCandidate(CandidateOf(mine[r]), "failed")
             \/ SetCandidate(CandidateOf(mine[r]), "deployed")
      PROVE  Launched
  <2>1. /\ mine[r] \in Deployments /\ deployment[mine[r]] \in DeploymentRows
        /\ CandidateOf(mine[r]) \in Candidates /\ candidate[CandidateOf(mine[r])] \in CandidateRows
    BY <1>7, AtWork
  <2>2. /\ deployment' \in [Deployments -> {NoDeployment} \cup DeploymentRows]
        /\ \A e \in Deployments : /\ CandidateOf(e)' = CandidateOf(e)
                                  /\ deployment'[e].status = "none" <=> deployment[e].status = "none"
    BY <1>7, <2>1, SetStatusKeeps
  <2>3. /\ candidate' \in [Candidates -> {NoCandidate} \cup CandidateRows]
        /\ Reviewed' = Reviewed
        /\ \A b \in Candidates : candidate'[b].status = "approved" => candidate[b].status = "approved"
    <3>1. CASE candidate' = candidate
      BY <3>1, <1>t DEF TablesTyped, Reviewed
    <3>2. CASE SetCandidate(CandidateOf(mine[r]), "failed")
      BY <3>2, <2>1, SetCandidateKeeps, Statuses
    <3>3. CASE SetCandidate(CandidateOf(mine[r]), "deployed")
      BY <3>3, <2>1, SetCandidateKeeps, Statuses
    <3> QED
      BY <1>7, <3>1, <3>2, <3>3
  <2> QED
    BY <1>t, <2>2, <2>3 DEF TablesTyped, LaunchedIsReviewed
<1> QED
  BY <1>1, <1>3, <1>4, <1>5, <1>6, <1>7 DEF Tabled

-----------------------------------------------------------------------------
(* The movements of the requests *)

\* A request that returns.
LEMMA ReturnTyped ==
  ASSUME RequestsTyped, NEW r \in Requests, Return(r), gate' \in {None, gate}
  PROVE  RequestsTyped' /\ at'[r] = "idle" /\ \A q \in Requests \ {r} :
           at'[q] = at[q] /\ mine'[q] = mine[q] /\ got'[q] = got[q]
BY DEF RequestsTyped, Return, Goto, NoSnapshots

\* A request that goes on, with the snapshots it has or one more.
LEMMA GotoTyped ==
  ASSUME RequestsTyped, NEW r \in Requests, NEW place \in Deploying \cup Replaying, Goto(r, place),
         mine' = mine, gate' \in {None, gate, r},
         \/ got' = got
         \/ \E i \in Archive!Snapshots : got' = [got EXCEPT ![r].pre = i] \/ got' = [got EXCEPT ![r].post = i]
  PROVE  /\ RequestsTyped' /\ at'[r] = place
         /\ \A q \in Requests \ {r} : at'[q] = at[q] /\ got'[q] = got[q]
<1>1. /\ at' = [at EXCEPT ![r] = place] /\ gate' \in Requests \cup {None}
  BY DEF RequestsTyped, Goto
<1>2. got' \in [Requests -> [pre  : Archive!Snapshots \cup {None},
                            post : Archive!Snapshots \cup {None}]]
      /\ \A q \in Requests \ {r} : got'[q] = got[q]
  BY DEF RequestsTyped
<1> QED
  BY <1>1, <1>2 DEF RequestsTyped

\* The ways a step moves a request.
Moved(r) ==
  \/ \E c \in Candidates, d \in Deployments : Begin(r, c, d)
  \/ \E d \in Deployments : Rollback(r, d)
  \/ /\ at[r] # "idle" /\ Return(r)
     /\ \/ gate' = gate
        \/ gate' = None /\ (gate = r \/ at[r] \in {"verify", "refused", "replayed", "not_replayed"})
  \/ /\ mine' = mine
     /\ \/ /\ at[r] = "backup" /\ PreBackup(r)
           /\ Goto(r, "check") /\ gate' = gate
           /\ \E i \in Archive!Snapshots : got' = [got EXCEPT ![r].pre = i]
        \/ at[r] = "check" /\ Goto(r, "send") /\ gate' = gate /\ got' = got
        \/ /\ at[r] = "send" /\ gate = None /\ gate' = r /\ got' = got
           /\ Goto(r, "verify") \/ Goto(r, "refused")
        \/ /\ at[r] = "verify" /\ gate' = None /\ Goto(r, "report")
           /\ \E i \in Archive!Snapshots : got' = [got EXCEPT ![r].post = i]
        \/ /\ at[r] = "replayed" /\ gate' = None /\ Goto(r, "compare")
           /\ \E i \in Archive!Snapshots : got' = [got EXCEPT ![r].post = i]

Unmoved == UNCHANGED <<gate, at, mine, got>>

\* Every step moves at most one request, in one of these ways.
LEMMA StepMoves == [Next]_vars => Unmoved \/ \E r \in Requests : Moved(r)
<1> SUFFICES ASSUME [Next]_vars PROVE Unmoved \/ \E r \in Requests : Moved(r)
  OBVIOUS
<1>1. ASSUME NEW c \in Candidates, Lifecycle(c) PROVE Unmoved
  BY <1>1 DEF Lifecycle, Propose, Submit, Approve, Reject, Unmoved, request
<1>2. Scheduled \/ OtherRequest \/ UNCHANGED vars => Unmoved
  BY DEF Scheduled, OtherRequest, vars, Unmoved, request
<1>3. ASSUME NEW r \in Requests, Deploy(r) PROVE Moved(r)
  <2>1. PreFailed(r) \/ RecordFailure(r) \/ PostSkipped(r) \/ Report(r) => Moved(r)
    BY DEF PreFailed, RecordFailure, PostSkipped, Report, Moved
  <2>2. PreBackup(r) => Moved(r)
    BY DEF PreBackup, Moved
  <2>3. CheckPre(r) \/ Send(r) \/ PostBackup(r) => Moved(r)
    BY DEF CheckPre, Send, PostBackup, GateIsFree, Moved
  <2> QED
    BY <1>3, <2>1, <2>2, <2>3 DEF Deploy, Moved
<1>4. ASSUME NEW r \in Requests, RollBack(r) PROVE Moved(r)
  <2>1. RecordRollbackFailure(r) \/ RollbackUnverified(r) \/ RecordRollback(r) => Moved(r)
    BY DEF RecordRollbackFailure, RollbackUnverified, RecordRollback, Moved
  <2>2. RollbackBackup(r) => Moved(r)
    BY DEF RollbackBackup, Moved
  <2> QED
    BY <1>4, <2>1, <2>2 DEF RollBack, Moved
<1>5. ASSUME NEW r \in Requests, Abandon(r) PROVE Moved(r)
  BY <1>5 DEF Abandon, Moved
<1> QED
  BY <1>1, <1>2, <1>3, <1>4, <1>5 DEF Next

\* The other requests stay where they are.
LEMMA MoveTyped ==
  ASSUME Local, Archive!TypeOK, NEW r \in Requests, Moved(r)
  PROVE  /\ RequestsTyped'
         /\ \A q \in Requests \ {r} : at'[q] = at[q] /\ mine'[q] = mine[q] /\ got'[q] = got[q]
<1> DEFINE Rest == /\ RequestsTyped'
                   /\ \A q \in Requests \ {r} :
                        at'[q] = at[q] /\ mine'[q] = mine[q] /\ got'[q] = got[q]
<1>t. RequestsTyped
  BY DEF Local
<1>1. ASSUME NEW c \in Candidates, NEW d \in Deployments, Begin(r, c, d) PROVE Rest
  BY <1>1, <1>t DEF Begin, Goto, RequestsTyped, Deploying
<1>2. ASSUME NEW d \in Deployments, Rollback(r, d) PROVE Rest
  <2>1. pin[d].pre \in Archive!Snapshots
    BY <1>2 DEF Archive!TypeOK, Rollback
  <2>2. Goto(r, "replayed") \/ Goto(r, "not_replayed")
    BY <1>2 DEF Rollback
  <2>3. got' \in [Requests -> [pre  : Archive!Snapshots \cup {None},
                              post : Archive!Snapshots \cup {None}]]
        /\ \A q \in Requests \ {r} : got'[q] = got[q]
    BY <1>2, <2>1, <1>t DEF Rollback, RequestsTyped
  <2>4. mine' = [mine EXCEPT ![r] = d] /\ gate' = r
    BY <1>2 DEF Rollback
  <2> QED
    BY <1>t, <2>2, <2>3, <2>4 DEF Goto, RequestsTyped, Replaying
<1>3. ASSUME Return(r), gate' \in {None, gate} PROVE Rest
  BY <1>3, <1>t, ReturnTyped
<1>4. ASSUME mine' = mine, NEW place \in Deploying \cup Replaying, Goto(r, place),
             gate' \in {None, gate, r},
             \/ got' = got
             \/ \E i \in Archive!Snapshots :
                  got' = [got EXCEPT ![r].pre = i] \/ got' = [got EXCEPT ![r].post = i]
      PROVE  Rest
  BY <1>4, <1>t, GotoTyped
<1> QED
  BY <1>1, <1>2, <1>3, <1>4 DEF Moved, Deploying, Replaying

\* The candidates, deployments and requests are in order after every step.
LEMMA LocalStep == Local /\ Archive!TypeOK /\ [Next]_vars => Local'
<1> SUFFICES ASSUME Local, Archive!TypeOK, [Next]_vars PROVE Local'
  OBVIOUS
<1>1. /\ TablesTyped' /\ LaunchedIsReviewed'
      /\ \A d \in Deployments : deployment[d].status # "none" => deployment'[d].status # "none"
  BY StepTables, TablesStep
<1>2. RequestsTyped'
  BY StepMoves, MoveTyped DEF Local, RequestsTyped, Unmoved
<1>3. WorkHasDeployment'
  <2> SUFFICES ASSUME NEW q \in Requests, at'[q] # "idle"
               PROVE  mine'[q] \in Deployments /\ deployment'[mine'[q]].status # "none"
    BY DEF WorkHasDeployment
  <2>0. at[q] # "idle" => mine[q] \in Deployments /\ deployment[mine[q]].status # "none"
    BY DEF Local, WorkHasDeployment
  <2>1. CASE Unmoved
    BY <2>1, <2>0, <1>1 DEF Unmoved
  <2>2. ASSUME NEW r \in Requests, Moved(r), r # q
        PROVE  mine'[q] \in Deployments /\ deployment'[mine'[q]].status # "none"
    BY <2>2, <2>0, <1>1, MoveTyped
  <2>3. ASSUME Moved(q)
        PROVE  mine'[q] \in Deployments /\ deployment'[mine'[q]].status # "none"
    <3>0. RequestsTyped
      BY DEF Local
    <3>1. ASSUME NEW c \in Candidates, NEW d \in Deployments, Begin(q, c, d)
          PROVE  mine'[q] = d /\ deployment'[d].status # "none"
      <4>1. deployment'[d].status = "running"
        BY <3>1, BeginKeeps
      <4> QED
        BY <3>0, <3>1, <4>1 DEF Begin, RequestsTyped
    <3>2. ASSUME NEW d \in Deployments, Rollback(q, d)
          PROVE  mine'[q] = d /\ deployment'[d].status # "none"
      BY <3>0, <3>2 DEF Rollback, RequestsTyped
    <3>3. ~Return(q)
      BY <3>0, ReturnTyped DEF Return, Goto, RequestsTyped
    <3>4. CASE at[q] # "idle" /\ mine' = mine
      BY <3>4, <2>0, <1>1
    <3> QED
      BY <2>3, <3>1, <3>2, <3>3, <3>4 DEF Moved
  <2> QED
    BY <2>1, <2>2, <2>3, StepMoves
<1> QED
  BY <1>1, <1>2, <1>3 DEF Local

-----------------------------------------------------------------------------
(* The archive *)

\* A step that touches one device's configuration only.
Touches(dev) ==
  /\ \E new \in SUBSET Candidates : running' = [running EXCEPT ![dev] = new]
  /\ UNCHANGED <<snapshot, baseline, pin, writer, stage, horizon, seen, protected>>

\* For the archive it is a reconfiguration, or nothing.
LEMMA TouchIsAllowed ==
  ASSUME Archive!TypeOK, NEW dev \in Devices, Touches(dev)
  PROVE  [Archive!Next]_archive
<1>1. PICK new \in SUBSET Candidates : running' = [running EXCEPT ![dev] = new]
  BY DEF Touches
<1>2. running \in [Devices -> SUBSET Candidates]
  BY DEF Archive!TypeOK
<1>3. CASE new = running[dev]
  <2>1. running' = running
    BY <1>1, <1>2, <1>3
  <2> QED
    BY <2>1 DEF Touches, archive
<1>4. CASE new # running[dev]
  BY <1>1, <1>4 DEF Touches, Archive!Next, Archive!Reconfigure, Archive!archived, Archive!scheduled
<1> QED
  BY <1>3, <1>4

\* The commands of a deployment add at most its own, reviewed candidate.
LEMMA SendTouches ==
  ASSUME Local, Archive!TypeOK, NEW r \in Requests, Send(r)
  PROVE  /\ DeviceOf(mine[r]) \in Devices /\ Touches(DeviceOf(mine[r]))
         /\ CandidateOf(mine[r]) \in Reviewed
         /\ \A dev \in Devices : running'[dev] \subseteq running[dev] \cup {CandidateOf(mine[r])}
<1>1. /\ DeviceOf(mine[r]) \in Devices /\ CandidateOf(mine[r]) \in Candidates
      /\ CandidateOf(mine[r]) \in Reviewed
  BY AtWork DEF Send
<1>2. PICK effect \in {{}, {CandidateOf(mine[r])}} :
        running' = [running EXCEPT ![DeviceOf(mine[r])] = @ \cup effect]
  BY DEF Send
<1>3. running \in [Devices -> SUBSET Candidates]
  BY DEF Archive!TypeOK
<1>4. running[DeviceOf(mine[r])] \cup effect \in SUBSET Candidates
  BY <1>1, <1>3
<1>5. \A dev \in Devices : running'[dev] \subseteq running[dev] \cup {CandidateOf(mine[r])}
  BY <1>2, <1>3
<1> QED
  BY <1>1, <1>2, <1>4, <1>5 DEF Touches, Send

\* A replay adds at most what its rollback point contains.
LEMMA RollbackTouches ==
  ASSUME Local, Archive!TypeOK, Archive!PinsAreKept, NEW r \in Requests, NEW d \in Deployments,
         Rollback(r, d)
  PROVE  /\ DeviceOf(d) \in Devices /\ Touches(DeviceOf(d))
         /\ snapshot[pin[d].pre].fate = "kept" /\ pin[d].pre \in Archive!Snapshots
         /\ \A dev \in Devices : running'[dev] \subseteq running[dev] \cup snapshot[pin[d].pre].content
<1>1. DeviceOf(d) \in Devices
  BY DeploymentShape, CandidateShape
     DEF Rollback, Local, LaunchedIsReviewed, DeviceOf, CandidateRows
<1>2. pin[d].pre \in Archive!Snapshots /\ snapshot[pin[d].pre].fate = "kept"
  BY DEF Rollback, Archive!TypeOK, Archive!PinsAreKept
<1>3. snapshot[pin[d].pre].content \in SUBSET Candidates
  <2>1. snapshot[pin[d].pre] \in Archive!Rows
    BY <1>2 DEF Archive!TypeOK
  <2> QED
    BY <1>2, <2>1 DEF Archive!Rows, Archive!Gone
<1>4. running \in [Devices -> SUBSET Candidates]
  BY DEF Archive!TypeOK
<1>5. PICK new \in SUBSET (running[DeviceOf(d)] \cup snapshot[pin[d].pre].content) :
        running' = [running EXCEPT ![DeviceOf(d)] = new]
  BY DEF Rollback
<1>6. new \in SUBSET Candidates
  BY <1>1, <1>3, <1>4, <1>5
<1>7. \A dev \in Devices : running'[dev] \subseteq running[dev] \cup snapshot[pin[d].pre].content
  BY <1>4, <1>5
<1> QED
  BY <1>1, <1>2, <1>5, <1>6, <1>7 DEF Touches, Rollback

\* The ways a step uses the archive.
Uses ==
  \/ UNCHANGED archive
  \/ \E r \in Requests : Send(r) \/ \E d \in Deployments : Rollback(r, d)
  \/ \E r \in Requests, i \in Archive!Snapshots :
       /\ at[r] # "idle"
       /\ \/ PreBackup(r) /\ got'[r].pre = i /\ Archive!PinBackup(mine[r], "pre", DeviceOf(mine[r]), i)
          \/ PostBackup(r) /\ Archive!PinBackup(mine[r], "post", DeviceOf(mine[r]), i)
          \/ RollbackBackup(r) /\ Archive!PlainBackup(DeviceOf(mine[r]), i)
  \/ Scheduled
  \/ OtherRequest

\* Every step uses the archive in one of these ways.
LEMMA StepUses == RequestsTyped /\ [Next]_vars => Uses
<1> SUFFICES ASSUME RequestsTyped, [Next]_vars PROVE Uses
  OBVIOUS
<1>1. ASSUME NEW c \in Candidates, Lifecycle(c) PROVE UNCHANGED archive
  BY <1>1 DEF Lifecycle, Propose, Submit, Approve, Reject
<1>2. ASSUME NEW r \in Requests, Deploy(r) PROVE Uses
  <2>1. PreBackup(r) => Uses
    <3> SUFFICES ASSUME PreBackup(r) PROVE Uses
      OBVIOUS
    <3>1. PICK i \in Archive!Snapshots :
            /\ Archive!PinBackup(mine[r], "pre", DeviceOf(mine[r]), i)
            /\ got' = [got EXCEPT ![r].pre = i]
      BY DEF PreBackup
    <3>2. got'[r].pre = i
      BY <3>1 DEF RequestsTyped
    <3>3. at[r] # "idle"
      BY DEF PreBackup
    <3> QED
      BY <3>1, <3>2, <3>3 DEF Uses
  <2>2. PostBackup(r) => Uses
    BY DEF PostBackup, Uses
  <2>3. PreFailed(r) \/ CheckPre(r) \/ RecordFailure(r) \/ PostSkipped(r) \/ Report(r)
          => UNCHANGED archive
    BY DEF PreFailed, CheckPre, RecordFailure, PostSkipped, Report
  <2>4. (\E c \in Candidates, d \in Deployments : Begin(r, c, d)) => UNCHANGED archive
    BY DEF Begin
  <2> QED
    BY <1>2, <2>1, <2>2, <2>3, <2>4 DEF Deploy, Uses
<1>3. ASSUME NEW r \in Requests, RollBack(r) PROVE Uses
  <2>1. RollbackBackup(r) => Uses
    BY DEF RollbackBackup, Uses
  <2>2. RecordRollbackFailure(r) \/ RollbackUnverified(r) \/ RecordRollback(r) => UNCHANGED archive
    BY DEF RecordRollbackFailure, RollbackUnverified, RecordRollback
  <2> QED
    BY <1>3, <2>1, <2>2 DEF RollBack, Uses
<1>4. ASSUME NEW r \in Requests, Abandon(r) PROVE UNCHANGED archive
  BY <1>4 DEF Abandon
<1>5. UNCHANGED vars => UNCHANGED archive
  BY DEF vars, archive
<1> QED
  BY <1>1, <1>2, <1>3, <1>4, <1>5 DEF Next, Uses

\* Every step is a step of NcmArchive, or leaves the archive alone.
LEMMA StepIsArchives ==
  Local /\ Archive!TypeOK /\ Archive!PinsAreKept /\ [Next]_vars => [Archive!Next]_archive
<1> SUFFICES ASSUME Local, Archive!TypeOK, Archive!PinsAreKept, [Next]_vars
             PROVE  [Archive!Next]_archive
  OBVIOUS
<1>1. ASSUME NEW r \in Requests, Send(r) PROVE [Archive!Next]_archive
  BY <1>1, SendTouches, TouchIsAllowed
<1>2. ASSUME NEW r \in Requests, NEW d \in Deployments, Rollback(r, d) PROVE [Archive!Next]_archive
  BY <1>2, RollbackTouches, TouchIsAllowed
<1>3. ASSUME NEW r \in Requests, at[r] # "idle", NEW i \in Archive!Snapshots,
             \/ Archive!PinBackup(mine[r], "pre", DeviceOf(mine[r]), i)
             \/ Archive!PinBackup(mine[r], "post", DeviceOf(mine[r]), i)
             \/ Archive!PlainBackup(DeviceOf(mine[r]), i)
      PROVE  Archive!Next
  <2>1. mine[r] \in Deployments /\ DeviceOf(mine[r]) \in Devices
    BY <1>3, AtWork
  <2> QED
    BY <1>3, <2>1 DEF Archive!Next, Archive!Request
<1>4. Scheduled => Archive!Next
  BY DEF Scheduled, Archive!Next
<1>5. OtherRequest => Archive!Next
  BY DEF OtherRequest, Archive!Next, Archive!Request
<1> QED
  BY <1>1, <1>2, <1>3, <1>4, <1>5, StepUses DEF Uses, Local

-----------------------------------------------------------------------------
(* Reviewed contents *)

\* What devices run, what is archived of it and what a run is about to archive.
ContentsReviewed ==
  /\ \A dev \in Devices : running[dev] \subseteq Reviewed
  /\ \A i \in Archive!Snapshots : snapshot[i].fate = "kept" => snapshot[i].content \subseteq Reviewed
  /\ \A s \in Schedules : stage[s] = "store" => seen[s].content \subseteq Reviewed

\* Where the rows and the plans of a step come from, when no configuration changes.
Sourced ==
  /\ running' = running
  /\ \A i \in Archive!Snapshots : snapshot'[i].fate = "kept" =>
       \/ snapshot[i].fate = "kept" /\ snapshot'[i].content = snapshot[i].content
       \/ \E dev \in Devices : snapshot'[i].content = running[dev]
       \/ \E s \in Schedules : stage[s] = "store" /\ snapshot'[i].content = seen[s].content
  /\ \A s \in Schedules : stage'[s] = "store" =>
       \/ stage[s] = "store" /\ seen'[s].content = seen[s].content
       \/ \E dev \in Devices : seen'[s].content = running[dev]

\* A backup archives what a device runs.
LEMMA BackupSourced ==
  ASSUME Archive!TypeOK, NEW dev \in Devices, NEW i \in Archive!Snapshots, Archive!Archive(dev, i)
  PROVE  Sourced
<1>1. running' = running /\ UNCHANGED <<stage, seen>>
  BY DEF Archive!Archive, Archive!scheduled
<1>2. CASE UNCHANGED snapshot
  BY <1>1, <1>2 DEF Sourced
<1>3. ASSUME NEW v, Archive!Insert(i, dev, running[dev], v, None) PROVE Sourced
  <2>1. /\ snapshot'[i].content = running[dev]
        /\ \A k \in Archive!Snapshots : k # i => snapshot'[k] = snapshot[k]
    BY <1>3 DEF Archive!Insert, Archive!TypeOK
  <2> QED
    BY <1>1, <2>1 DEF Sourced
<1> QED
  BY <1>2, <1>3 DEF Archive!Archive

\* A removal archives nothing.
LEMMA RemoveSourced ==
  ASSUME NEW rows, NEW fate \in {"deleted", "pruned"}, Archive!Remove(rows, fate), running' = running,
         \A s \in Schedules : stage'[s] = "store" => stage[s] = "store" /\ seen'[s] = seen[s]
  PROVE  Sourced
BY DEF Archive!Remove, Archive!Gone, Sourced

\* A scheduled run archives what it has read from a device.
LEMMA RunSourced ==
  ASSUME Archive!TypeOK, NEW s \in Schedules, Archive!ScheduledRun(s)
  PROVE  Sourced
<1>1. CASE Archive!Open(s)
  BY <1>1 DEF Archive!Open, Archive!archived, Archive!TypeOK, Sourced
<1>2. ASSUME NEW dev \in Devices, Archive!Inspect(s, dev) PROVE Sourced
  <2>1. /\ seen'[s].content = running[dev]
        /\ \A q \in Schedules : q # s => seen'[q] = seen[q] /\ stage'[q] = stage[q]
    BY <1>2 DEF Archive!Inspect, Archive!TypeOK
  <2> QED
    BY <1>2, <2>1 DEF Archive!Inspect, Archive!archived, Sourced
<1>3. CASE Archive!Store(s)
  <2>1. PICK i \in Archive!Snapshots :
          Archive!Insert(i, seen[s].device, seen[s].content, seen[s].version, s)
    BY <1>3 DEF Archive!Store
  <2>2. /\ snapshot'[i].content = seen[s].content
        /\ \A k \in Archive!Snapshots : k # i => snapshot'[k] = snapshot[k]
    BY <2>1 DEF Archive!Insert, Archive!TypeOK
  <2>3. \A q \in Schedules : stage'[q] = "store" => stage[q] = "store" /\ seen'[q] = seen[q]
    BY <1>3 DEF Archive!Store, Archive!TypeOK
  <2> QED
    BY <1>3, <2>2, <2>3 DEF Archive!Store, Sourced
<1>4. CASE Archive!ReadProtected(s)
  BY <1>4 DEF Archive!ReadProtected, Archive!archived, Archive!TypeOK, Sourced
<1>5. ASSUME Archive!Close(s)
      PROVE  \A q \in Schedules : stage'[q] = "store" => stage[q] = "store" /\ seen'[q] = seen[q]
  BY <1>5 DEF Archive!Close, Archive!TypeOK
<1>6. ASSUME NEW cutoff, Archive!Prune(s, cutoff) PROVE Sourced
  BY <1>5, <1>6, RemoveSourced DEF Archive!Prune
<1>7. CASE Archive!Leave(s)
  BY <1>5, <1>7 DEF Archive!Leave, Archive!archived, Sourced
<1> QED
  BY <1>1, <1>2, <1>3, <1>4, <1>6, <1>7 DEF Archive!ScheduledRun

\* No unreviewed change reaches a device or the archive.
LEMMA ContentsStep ==
  Local /\ Archive!TypeOK /\ Archive!PinsAreKept /\ ContentsReviewed /\ [Next]_vars => ContentsReviewed'
<1> SUFFICES ASSUME Local, Archive!TypeOK, Archive!PinsAreKept, ContentsReviewed, [Next]_vars
             PROVE  ContentsReviewed'
  OBVIOUS
<1>1. Reviewed \subseteq Reviewed'
  BY StepTables, TablesStep
<1>2. CASE Sourced
  BY <1>1, <1>2 DEF ContentsReviewed, Sourced
<1>3. ASSUME NEW dev \in Devices, Touches(dev), NEW more \in SUBSET Reviewed,
             \A e \in Devices : running'[e] \subseteq running[e] \cup more
      PROVE  ContentsReviewed'
  BY <1>1, <1>3 DEF ContentsReviewed, Touches
<1>4. ASSUME NEW r \in Requests, Send(r) PROVE ContentsReviewed'
  BY <1>3, <1>4, SendTouches
<1>5. ASSUME NEW r \in Requests, NEW d \in Deployments, Rollback(r, d) PROVE ContentsReviewed'
  <2>1. snapshot[pin[d].pre].content \in SUBSET Reviewed
    BY <1>5, RollbackTouches DEF ContentsReviewed
  <2> QED
    BY <1>3, <1>5, <2>1, RollbackTouches
<1>6. ASSUME NEW r \in Requests, at[r] # "idle", NEW i \in Archive!Snapshots,
             \/ Archive!PinBackup(mine[r], "pre", DeviceOf(mine[r]), i)
             \/ Archive!PinBackup(mine[r], "post", DeviceOf(mine[r]), i)
             \/ Archive!PlainBackup(DeviceOf(mine[r]), i)
      PROVE  Sourced
  BY <1>6, AtWork, BackupSourced DEF Archive!PinBackup, Archive!PlainBackup
<1>7. Scheduled => Sourced
  BY RunSourced DEF Scheduled
<1>8. OtherRequest => Sourced
  <2>1. ASSUME NEW i \in Archive!Snapshots, Archive!DeleteConfiguration(i) PROVE Sourced
    BY <2>1, RemoveSourced DEF Archive!DeleteConfiguration, Archive!scheduled
  <2>2. ASSUME NEW dev \in Devices, NEW i \in Archive!Snapshots, Archive!PlainBackup(dev, i)
        PROVE  Sourced
    BY <2>2, BackupSourced DEF Archive!PlainBackup
  <2>3. ASSUME NEW dev \in Devices, NEW i \in Archive!Snapshots, Archive!SetBaseline(dev, i)
        PROVE  Sourced
    BY <2>3 DEF Archive!SetBaseline, Archive!scheduled, Sourced
  <2>4. ASSUME NEW dev \in Devices, Archive!ClearBaseline(dev) PROVE Sourced
    BY <2>4 DEF Archive!ClearBaseline, Archive!scheduled, Sourced
  <2> QED
    BY <2>1, <2>2, <2>3, <2>4 DEF OtherRequest
<1>9. UNCHANGED archive => Sourced
  BY DEF archive, Sourced
<1> QED
  BY <1>2, <1>4, <1>5, <1>6, <1>7, <1>8, <1>9, StepUses DEF Uses, Local

-----------------------------------------------------------------------------
(* Requests beside each other *)

\* What has talked to a device keeps its transaction open.
HoldsGate ==
  \A r \in Requests : at[r] \in {"verify", "refused", "replayed", "not_replayed"} => gate = r

\* A deployment is carried out by one request, and nobody replays one that has
\* not got its rollback point.
WorkIsDistinct ==
  \A q, r \in Requests : q # r =>
    /\ at[q] \in Deploying /\ at[r] \in Deploying => mine[q] # mine[r]
    /\ at[q] \in Replaying /\ at[r] = "backup" => mine[q] # mine[r]

\* Nothing is pinned before the backup that does it.
PinsFollowBackup ==
  /\ \A d \in Deployments : deployment[d].status = "none" => pin[d].pre = None
  /\ \A r \in Requests : at[r] = "backup" =>
       pin[mine[r]].pre = None /\ deployment[mine[r]].status = "running"

\* The rollback point a request works with is the one its deployment has, or was
\* deleted by hand.
PreIsPinned ==
  \A r \in Requests : at[r] \in {"check", "send", "verify", "refused", "report"} =>
    /\ got[r].pre \in Archive!Snapshots
    /\ snapshot[got[r].pre].fate = "deleted" \/ pin[mine[r]].pre = got[r].pre

\* Only the request that holds the gate drops it.
LEMMA GateStep == Local /\ Archive!TypeOK /\ HoldsGate /\ [Next]_vars => HoldsGate'
<1> SUFFICES ASSUME Local, Archive!TypeOK, HoldsGate, [Next]_vars, NEW q \in Requests,
                    at'[q] \in {"verify", "refused", "replayed", "not_replayed"}
             PROVE  gate' = q
  BY DEF HoldsGate
<1>t. RequestsTyped /\ None \notin Requests
  BY DeployAssumption DEF Local
<1>1. CASE Unmoved
  BY <1>1 DEF HoldsGate, Unmoved
<1>2. ASSUME NEW r \in Requests, Moved(r) PROVE gate' = q
  <2>1. CASE r # q
    <3>1. gate = q
      BY <1>2, <2>1, MoveTyped DEF HoldsGate
    <3>2. gate # None /\ gate # r /\ at[r] \notin {"verify", "refused", "replayed", "not_replayed"}
      BY <1>t, <2>1, <3>1 DEF HoldsGate
    <3> QED
      BY <1>2, <3>1, <3>2 DEF Moved, Begin, Rollback, GateIsFree
  <2>2. CASE r = q
    <3>1. ~Return(r)
      BY <1>t, <2>2, ReturnTyped DEF Return, Goto, RequestsTyped
    <3>2. ASSUME NEW place, Goto(r, place), place \notin {"verify", "refused", "replayed", "not_replayed"}
          PROVE  FALSE
      BY <1>t, <2>2, <3>2 DEF Goto, RequestsTyped
    <3> QED
      BY <1>2, <2>2, <3>1, <3>2 DEF Moved, Begin, Rollback
  <2> QED
    BY <2>1, <2>2
<1> QED
  BY <1>1, <1>2, StepMoves

-----------------------------------------------------------------------------
(* What is pinned stays *)

\* A step that unpins a rollback point deletes it, and what is deleted stays so.
DeletedStays ==
  \A i \in Archive!Snapshots : snapshot[i].fate = "deleted" => snapshot'[i].fate = "deleted"

PinsStay ==
  /\ DeletedStays
  /\ \A d \in Deployments :
       \/ pin'[d].pre = pin[d].pre
       \/ pin'[d].pre = None /\ snapshot'[pin[d].pre].fate = "deleted"

\* The step that pins a rollback point.
Pins(r) ==
  /\ DeletedStays
  /\ PreBackup(r)
  /\ \A d \in Deployments : d # mine[r] => pin'[d].pre = pin[d].pre
  /\ got'[r].pre \in Archive!Snapshots /\ pin'[mine[r]].pre = got'[r].pre

\* A backup takes a row that was never taken.
LEMMA BackupKeepsDeleted ==
  ASSUME Archive!TypeOK, NEW dev \in Devices, NEW i \in Archive!Snapshots, Archive!Archive(dev, i)
  PROVE  DeletedStays
<1>1. ASSUME NEW v, Archive!IsFresh(i), Archive!Insert(i, dev, running[dev], v, None)
      PROVE  DeletedStays
  BY <1>1 DEF Archive!IsFresh, Archive!Insert, Archive!TypeOK, DeletedStays
<1> QED
  BY <1>1 DEF Archive!Archive, DeletedStays

\* A removal takes kept rows, and unpins what it takes.
LEMMA RemovePins ==
  ASSUME Archive!TypeOK, NEW rows \in SUBSET Archive!Snapshots, NEW fate, Archive!Remove(rows, fate),
         \A i \in rows : snapshot[i].fate = "kept",
         fate = "deleted" \/ rows \cap Archive!Pinned = {}
  PROVE  PinsStay
<1>1. DeletedStays
  BY DEF Archive!Remove, DeletedStays
<1>2. ASSUME NEW d \in Deployments
      PROVE  \/ pin'[d].pre = pin[d].pre
             \/ pin'[d].pre = None /\ snapshot'[pin[d].pre].fate = "deleted"
  <2>1. CASE pin[d].pre \notin rows
    BY <2>1 DEF Archive!Remove
  <2>2. CASE pin[d].pre \in rows
    <3>1. pin'[d].pre = None /\ pin[d].pre \in Archive!Snapshots
      BY <2>2 DEF Archive!Remove
    <3>2. pin[d].pre # None
      BY <3>1, DeployAssumption DEF Archive!Snapshots
    <3>3. pin[d].pre \in Archive!Pinned
      BY <3>2 DEF Archive!Pinned
    <3>4. snapshot'[pin[d].pre].fate = "deleted"
      BY <2>2, <3>1, <3>3 DEF Archive!Remove, Archive!Gone
    <3> QED
      BY <3>1, <3>4
  <2> QED
    BY <2>1, <2>2
<1> QED
  BY <1>1, <1>2 DEF PinsStay

\* A scheduled run prunes nothing that is pinned.
LEMMA RunPins ==
  ASSUME Archive!TypeOK, Archive!StillProtected, NEW s \in Schedules, Archive!ScheduledRun(s)
  PROVE  PinsStay
<1>1. UNCHANGED <<snapshot, pin>> => PinsStay
  BY DEF PinsStay, DeletedStays
<1>2. (Archive!Open(s) \/ Archive!ReadProtected(s) \/ Archive!Leave(s)) => UNCHANGED <<snapshot, pin>>
  BY DEF Archive!Open, Archive!ReadProtected, Archive!Leave, Archive!archived
<1>3. ASSUME NEW dev \in Devices, Archive!Inspect(s, dev) PROVE UNCHANGED <<snapshot, pin>>
  BY <1>3 DEF Archive!Inspect, Archive!archived
<1>4. CASE Archive!Store(s)
  <2>1. pin' = pin
    BY <1>4 DEF Archive!Store
  <2>2. PICK i \in Archive!Snapshots :
          /\ Archive!IsFresh(i)
          /\ Archive!Insert(i, seen[s].device, seen[s].content, seen[s].version, s)
    BY <1>4 DEF Archive!Store
  <2>3. DeletedStays
    BY <2>2 DEF Archive!IsFresh, Archive!Insert, Archive!TypeOK, DeletedStays
  <2> QED
    BY <2>1, <2>3 DEF PinsStay
<1>5. ASSUME NEW cutoff \in Archive!Versions, Archive!Prune(s, cutoff) PROVE PinsStay
  <2> DEFINE rows == {i \in Archive!Snapshots : /\ snapshot[i].fate = "kept"
                                                /\ snapshot[i].schedule = s
                                                /\ i < cutoff
                                                /\ i \notin protected[s]}
  <2>1. Archive!Remove(rows, "pruned")
    BY <1>5 DEF Archive!Prune
  <2>2. rows \cap Archive!Pinned = {}
    BY <1>5 DEF Archive!Prune, Archive!StillProtected
  <2>3. rows \in SUBSET Archive!Snapshots /\ \A i \in rows : snapshot[i].fate = "kept"
    OBVIOUS
  <2> HIDE DEF rows
  <2> QED
    BY <2>1, <2>2, <2>3, RemovePins
<1> QED
  BY <1>1, <1>2, <1>3, <1>4, <1>5 DEF Archive!ScheduledRun

\* The transaction that archives a rollback point pins it.
LEMMA PreBackupPins ==
  ASSUME Local, Archive!TypeOK, NEW r \in Requests, PreBackup(r) PROVE Pins(r)
<1>1. PICK i \in Archive!Snapshots :
        /\ Archive!PinBackup(mine[r], "pre", DeviceOf(mine[r]), i)
        /\ got' = [got EXCEPT ![r].pre = i]
  BY DEF PreBackup
<1>2. at[r] # "idle" /\ got'[r].pre = i
  BY <1>1 DEF PreBackup, Local, RequestsTyped
<1>3. DeletedStays
  BY <1>1, <1>2, AtWork, BackupKeepsDeleted DEF Archive!PinBackup
<1>4. pin' = [pin EXCEPT ![mine[r]]["pre"] = i] /\ mine[r] \in Deployments
  BY <1>1, <1>2, AtWork DEF Archive!PinBackup, Archive!SetPin
<1>5. pin'[mine[r]].pre = i /\ \A d \in Deployments : d # mine[r] => pin'[d] = pin[d]
  BY <1>4 DEF Archive!TypeOK
<1> QED
  BY <1>2, <1>3, <1>5 DEF Pins

\* Every step leaves the pins, unpins what it deletes, or is that transaction.
LEMMA StepPins ==
  Local /\ Archive!TypeOK /\ Archive!StillProtected /\ [Next]_vars =>
    PinsStay \/ \E r \in Requests : Pins(r)
<1> SUFFICES ASSUME Local, Archive!TypeOK, Archive!StillProtected, [Next]_vars
             PROVE  PinsStay \/ \E r \in Requests : Pins(r)
  OBVIOUS
<1>t. pin \in [Deployments -> [pre  : Archive!Snapshots \cup {None},
                               post : Archive!Snapshots \cup {None}]]
  BY DEF Archive!TypeOK
<1>1. UNCHANGED <<snapshot, pin>> => PinsStay
  BY DEF PinsStay, DeletedStays
<1>2. UNCHANGED archive => UNCHANGED <<snapshot, pin>>
  BY DEF archive
<1>3. ASSUME NEW r \in Requests PROVE Send(r) => UNCHANGED <<snapshot, pin>>
  BY DEF Send
<1>4. ASSUME NEW r \in Requests, NEW d \in Deployments
      PROVE  Rollback(r, d) => UNCHANGED <<snapshot, pin>>
  BY DEF Rollback
<1>5. ASSUME NEW r \in Requests, PreBackup(r) PROVE Pins(r)
  BY <1>5, PreBackupPins
<1>6. ASSUME NEW r \in Requests, at[r] # "idle", NEW i \in Archive!Snapshots,
             Archive!PinBackup(mine[r], "post", DeviceOf(mine[r]), i)
      PROVE  PinsStay
  <2>1. DeletedStays
    BY <1>6, AtWork, BackupKeepsDeleted DEF Archive!PinBackup
  <2>2. pin' = [pin EXCEPT ![mine[r]]["post"] = i] /\ mine[r] \in Deployments
    BY <1>6, AtWork DEF Archive!PinBackup, Archive!SetPin
  <2>3. \A d \in Deployments : pin'[d].pre = pin[d].pre
    BY <2>2, <1>t
  <2> QED
    BY <2>1, <2>3 DEF PinsStay
<1>7. ASSUME NEW dev \in Devices, NEW i \in Archive!Snapshots, Archive!PlainBackup(dev, i)
      PROVE  PinsStay
  BY <1>7, BackupKeepsDeleted DEF Archive!PlainBackup, PinsStay
<1>8. Scheduled => PinsStay
  BY RunPins DEF Scheduled
<1>9. OtherRequest => PinsStay
  <2>1. ASSUME NEW i \in Archive!Snapshots, Archive!DeleteConfiguration(i) PROVE PinsStay
    BY <2>1, RemovePins DEF Archive!DeleteConfiguration
  <2>2. ASSUME NEW dev \in Devices, NEW i \in Archive!Snapshots, Archive!SetBaseline(dev, i)
        PROVE  UNCHANGED <<snapshot, pin>>
    BY <2>2 DEF Archive!SetBaseline
  <2>3. ASSUME NEW dev \in Devices, Archive!ClearBaseline(dev) PROVE UNCHANGED <<snapshot, pin>>
    BY <2>3 DEF Archive!ClearBaseline
  <2> QED
    BY <1>1, <1>7, <2>1, <2>2, <2>3 DEF OtherRequest
<1>10. ASSUME NEW r \in Requests, at[r] # "idle" PROVE DeviceOf(mine[r]) \in Devices
  BY <1>10, AtWork
<1> QED
  BY <1>1, <1>2, <1>3, <1>4, <1>5, <1>6, <1>7, <1>8, <1>9, <1>10, StepUses DEF Uses, Local

\* How a request comes to be where it is.
LEMMA Arrivals ==
  ASSUME Local, NEW r \in Requests, Moved(r)
  PROVE  /\ at'[r] \in Deploying =>
              \/ at[r] \in Deploying /\ mine'[r] = mine[r]
              \/ \E c \in Candidates, d \in Deployments : Begin(r, c, d) /\ mine'[r] = d
         /\ at'[r] \in Replaying =>
              \/ at[r] \in Replaying /\ mine'[r] = mine[r]
              \/ \E d \in Deployments : Rollback(r, d) /\ mine'[r] = d
         /\ at'[r] = "backup" =>
              \E c \in Candidates, d \in Deployments : Begin(r, c, d) /\ mine'[r] = d
         /\ at'[r] \in {"check", "send", "verify", "refused", "report"} =>
              /\ mine'[r] = mine[r]
              /\ \/ PreBackup(r)
                 \/ /\ at[r] \in {"check", "send", "verify", "refused", "report"}
                    /\ got'[r].pre = got[r].pre
<1>t. RequestsTyped
  BY DEF Local
<1>1. ASSUME NEW c \in Candidates, NEW d \in Deployments, Begin(r, c, d)
      PROVE  at'[r] = "backup" /\ mine'[r] = d
  BY <1>1, <1>t DEF Begin, Goto, RequestsTyped
<1>2. ASSUME NEW d \in Deployments, Rollback(r, d)
      PROVE  at'[r] \in {"replayed", "not_replayed"} /\ mine'[r] = d
  <2>1. Goto(r, "replayed") \/ Goto(r, "not_replayed")
    BY <1>2 DEF Rollback
  <2>2. mine' = [mine EXCEPT ![r] = d]
    BY <1>2 DEF Rollback
  <2> QED
    BY <1>t, <2>1, <2>2 DEF Goto, RequestsTyped
<1>3. Return(r) => at'[r] = "idle"
  BY <1>t DEF Return, Goto, RequestsTyped
<1>4. ASSUME NEW place, Goto(r, place) PROVE at'[r] = place
  BY <1>t, <1>4 DEF Goto, RequestsTyped
<1>5. ASSUME NEW i \in Archive!Snapshots, got' = [got EXCEPT ![r].post = i]
      PROVE  got'[r].pre = got[r].pre
  BY <1>t, <1>5 DEF RequestsTyped
<1> QED
  BY <1>1, <1>2, <1>3, <1>4, <1>5 DEF Moved, Deploying, Replaying

\* A deployment is begun once, and replayed only when it has its rollback point.
LEMMA DistinctStep ==
  Local /\ Archive!TypeOK /\ WorkIsDistinct /\ PinsFollowBackup /\ [Next]_vars => WorkIsDistinct'
<1> SUFFICES ASSUME Local, Archive!TypeOK, WorkIsDistinct, PinsFollowBackup, [Next]_vars,
                    NEW p \in Requests, NEW q \in Requests, p # q
             PROVE  /\ at'[p] \in Deploying /\ at'[q] \in Deploying => mine'[p] # mine'[q]
                    /\ at'[p] \in Replaying /\ at'[q] = "backup" => mine'[p] # mine'[q]
  BY DEF WorkIsDistinct
<1>0. /\ at[p] \in Deploying /\ at[q] \in Deploying => mine[p] # mine[q]
      /\ at[p] \in Replaying /\ at[q] = "backup" => mine[p] # mine[q]
  BY DEF WorkIsDistinct
<1>1. CASE Unmoved
  BY <1>0, <1>1 DEF Unmoved
<1>2. ASSUME NEW x \in Requests, at[x] \in Deploying \cup Replaying,
             NEW r \in Requests, NEW c \in Candidates, NEW d \in Deployments, Begin(r, c, d)
      PROVE  mine[x] # d
  BY <1>2 DEF Local, WorkHasDeployment, Begin, Deploying, Replaying
<1>3. ASSUME NEW x \in Requests, at[x] = "backup", NEW r \in Requests, NEW d \in Deployments,
             Rollback(r, d)
      PROVE  mine[x] # d
  BY <1>3 DEF PinsFollowBackup, Rollback
<1>4. ASSUME NEW r \in Requests, Moved(r), r # p, r # q
      PROVE  at'[p] = at[p] /\ at'[q] = at[q] /\ mine'[p] = mine[p] /\ mine'[q] = mine[q]
  BY <1>4, MoveTyped
<1>5. CASE Moved(p)
  <2>1. at'[q] = at[q] /\ mine'[q] = mine[q]
    BY <1>5, MoveTyped
  <2>2. ASSUME at'[p] \in Deploying, at[q] \in Deploying PROVE mine'[p] # mine[q]
    BY <1>0, <1>2, <1>5, <2>2, Arrivals
  <2>3. ASSUME at'[p] \in Replaying, at[q] = "backup" PROVE mine'[p] # mine[q]
    BY <1>0, <1>3, <1>5, <2>3, Arrivals
  <2> QED
    BY <2>1, <2>2, <2>3
<1>6. CASE Moved(q)
  <2>1. at'[p] = at[p] /\ mine'[p] = mine[p]
    BY <1>6, MoveTyped
  <2>2. ASSUME at[p] \in Deploying, at'[q] \in Deploying PROVE mine[p] # mine'[q]
    BY <1>0, <1>2, <1>6, <2>2, Arrivals
  <2>3. ASSUME at[p] \in Replaying, at'[q] = "backup" PROVE mine[p] # mine'[q]
    BY <1>2, <1>6, <2>3, Arrivals
  <2> QED
    BY <2>1, <2>2, <2>3
<1> QED
  BY <1>0, <1>1, <1>4, <1>5, <1>6, StepMoves

\* The deployment of a request that is about to back up is nobody else's.
LEMMA BackupIsAlone ==
  ASSUME WorkIsDistinct, Local, NEW q \in Requests, at[q] = "backup",
         NEW r \in Requests, r # q, at[r] # "idle"
  PROVE  mine[r] # mine[q]
BY DEF WorkIsDistinct, Local, RequestsTyped, Deploying

\* Until its backup a deployment has no rollback point and is "running".
LEMMA BackupStep ==
  /\ Local /\ Archive!TypeOK /\ Archive!StillProtected
  /\ WorkIsDistinct /\ PinsFollowBackup /\ [Next]_vars
  => PinsFollowBackup'
<1> SUFFICES ASSUME Local, Archive!TypeOK, Archive!StillProtected, WorkIsDistinct,
                    PinsFollowBackup, [Next]_vars
             PROVE  PinsFollowBackup'
  OBVIOUS
<1>1. Tabled /\ \A d \in Deployments : deployment[d].status # "none" => deployment'[d].status # "none"
  BY StepTables, TablesStep
<1>2. ASSUME NEW d \in Deployments, pin[d].pre = None,
             \A r \in Requests : PreBackup(r) => mine[r] # d
      PROVE  pin'[d].pre = None
  BY <1>2, StepPins DEF PinsStay, Pins
<1>3. ASSUME NEW d \in Deployments, deployment'[d].status = "none" PROVE pin'[d].pre = None
  <2>1. deployment[d].status = "none" /\ pin[d].pre = None
    BY <1>1, <1>3 DEF PinsFollowBackup
  <2>2. \A r \in Requests : PreBackup(r) => mine[r] # d
    BY <2>1 DEF PreBackup, Local, WorkHasDeployment
  <2> QED
    BY <1>2, <2>1, <2>2
<1>4. ASSUME NEW q \in Requests, at'[q] = "backup"
      PROVE  pin'[mine'[q]].pre = None /\ deployment'[mine'[q]].status = "running"
  <2>1. ASSUME NEW c \in Candidates, NEW d \in Deployments, Begin(q, c, d), mine'[q] = d
        PROVE  pin'[d].pre = None /\ deployment'[d].status = "running"
    <3>1. pin' = pin
      BY <2>1 DEF Begin, archive
    <3>2. deployment[d].status = "none" /\ deployment'[d].status = "running"
      BY <2>1, BeginKeeps
    <3> QED
      BY <3>1, <3>2 DEF PinsFollowBackup
  <2>2. ASSUME at[q] = "backup", mine'[q] = mine[q]
        PROVE  pin'[mine[q]].pre = None /\ deployment'[mine[q]].status = "running"
    <3>1. /\ mine[q] \in Deployments /\ pin[mine[q]].pre = None
          /\ deployment[mine[q]].status = "running"
      BY <2>2 DEF PinsFollowBackup, Local, WorkHasDeployment
    <3>2. ASSUME NEW r \in Requests, PreBackup(r) PROVE mine[r] # mine[q]
      <4>1. at'[r] = "check" /\ at[r] = "backup"
        BY <3>2 DEF PreBackup, Goto, Local, RequestsTyped
      <4>2. r # q
        BY <1>4, <4>1
      <4> QED
        BY <2>2, <4>1, <4>2, BackupIsAlone
    <3>3. ASSUME NEW r \in Requests, at[r] # "idle", Return(r) PROVE mine[r] # mine[q]
      <4>1. at'[r] = "idle"
        BY <3>3 DEF Return, Goto, Local, RequestsTyped
      <4>2. r # q
        BY <1>4, <4>1
      <4> QED
        BY <2>2, <3>3, <4>2, BackupIsAlone
    <3>4. ASSUME NEW r \in Requests, at[r] # "idle", Return(r), NEW status, SetStatus(mine[r], status)
          PROVE  deployment'[mine[q]] = deployment[mine[q]]
      BY <3>1, <3>3, <3>4 DEF SetStatus, Local, TablesTyped
    <3>5. ASSUME NEW r \in Requests, NEW c \in Candidates, NEW d \in Deployments, Begin(r, c, d)
          PROVE  deployment'[mine[q]] = deployment[mine[q]]
      BY <3>1, <3>5, BeginKeeps
    <3>6. deployment'[mine[q]] = deployment[mine[q]]
      BY <1>1, <3>4, <3>5 DEF Tabled, TablesAlone
    <3> QED
      BY <1>2, <3>1, <3>2, <3>6
  <2>3. CASE Unmoved
    BY <1>4, <2>2, <2>3 DEF Unmoved
  <2>4. ASSUME NEW r \in Requests, Moved(r), r # q PROVE at[q] = "backup" /\ mine'[q] = mine[q]
    BY <1>4, <2>4, MoveTyped
  <2> QED
    BY <1>4, <2>1, <2>2, <2>3, <2>4, Arrivals, StepMoves
<1> QED
  BY <1>3, <1>4 DEF PinsFollowBackup

\* Nothing takes the pin off the rollback point of a deployment but its deletion by hand.
LEMMA PreStep ==
  /\ Local /\ Archive!TypeOK /\ Archive!StillProtected
  /\ WorkIsDistinct /\ PreIsPinned /\ [Next]_vars
  => PreIsPinned'
<1> SUFFICES ASSUME Local, Archive!TypeOK, Archive!StillProtected, WorkIsDistinct, PreIsPinned,
                    [Next]_vars, NEW q \in Requests,
                    at'[q] \in {"check", "send", "verify", "refused", "report"}
             PROVE  /\ got'[q].pre \in Archive!Snapshots
                    /\ snapshot'[got'[q].pre].fate = "deleted" \/ pin'[mine'[q]].pre = got'[q].pre
  BY DEF PreIsPinned
<1>1. ASSUME PreBackup(q), mine'[q] = mine[q]
      PROVE  got'[q].pre \in Archive!Snapshots /\ pin'[mine'[q]].pre = got'[q].pre
  BY <1>1, PreBackupPins DEF Pins
<1>2. ASSUME at[q] \in {"check", "send", "verify", "refused", "report"}, mine'[q] = mine[q],
             got'[q].pre = got[q].pre
      PROVE  /\ got'[q].pre \in Archive!Snapshots
             /\ snapshot'[got'[q].pre].fate = "deleted" \/ pin'[mine'[q]].pre = got'[q].pre
  <2>1. /\ got[q].pre \in Archive!Snapshots
        /\ snapshot[got[q].pre].fate = "deleted" \/ pin[mine[q]].pre = got[q].pre
    BY <1>2 DEF PreIsPinned
  <2>2. mine[q] \in Deployments
    BY <1>2, AtWork
  <2>3. CASE PinsStay
    BY <1>2, <2>1, <2>2, <2>3 DEF PinsStay, DeletedStays
  <2>4. ASSUME NEW r \in Requests, Pins(r)
        PROVE  snapshot'[got[q].pre].fate = "deleted" \/ pin'[mine[q]].pre = got[q].pre
    <3>1. at[r] = "backup"
      BY <2>4 DEF Pins, PreBackup
    <3>2. mine[q] # mine[r]
      BY <1>2, <3>1, BackupIsAlone
    <3> QED
      BY <2>1, <2>2, <2>4, <3>2 DEF Pins, DeletedStays
  <2> QED
    BY <1>2, <2>1, <2>3, <2>4, StepPins
<1>3. CASE Unmoved
  BY <1>2, <1>3 DEF Unmoved
<1>4. ASSUME NEW r \in Requests, Moved(r), r # q
      PROVE  at'[q] = at[q] /\ mine'[q] = mine[q] /\ got'[q] = got[q]
  BY <1>4, MoveTyped
<1> QED
  BY <1>1, <1>2, <1>3, <1>4, Arrivals, StepMoves

-----------------------------------------------------------------------------
(* Conclusions *)

\* A step on a candidate that is not the end of a deployment concludes nothing.
LEMMA NotConcluding ==
  ASSUME Local, NEW c \in Candidates,
         \/ \E dev \in Devices, a \in Admins : Propose(c, dev, a)
         \/ \E a \in Admins : Approve(c, a)
         \/ candidate[c] \in CandidateRows /\ SetCandidate(c, "pending_approval")
         \/ candidate[c] \in CandidateRows /\ SetCandidate(c, "rejected")
  PROVE  \A b \in Candidates : candidate'[b].status \in {"deployed", "failed"} => candidate'[b] = candidate[b]
<1>t. candidate \in [Candidates -> {NoCandidate} \cup CandidateRows]
  BY DEF Local, TablesTyped
<1>1. ASSUME NEW dev \in Devices, NEW a \in Admins, Propose(c, dev, a)
      PROVE  candidate'[c].status = "draft" /\ \A b \in Candidates : b # c => candidate'[b] = candidate[b]
  BY <1>t, <1>1 DEF Propose
<1>2. ASSUME NEW a \in Admins, Approve(c, a)
      PROVE  candidate'[c].status = "approved" /\ \A b \in Candidates : b # c => candidate'[b] = candidate[b]
  <2>1. candidate[c] \in CandidateRows
    BY <1>2, CandidateShape DEF Approve, CanTransition, Local
  <2>2. candidate' = [candidate EXCEPT ![c] = [candidate[c] EXCEPT !.status = "approved", !.approver = a]]
    BY <1>t, <1>2, <2>1 DEF Approve, CandidateRows
  <2> QED
    BY <1>t, <2>1, <2>2 DEF CandidateRows
<1>3. ASSUME NEW status, candidate[c] \in CandidateRows, SetCandidate(c, status)
      PROVE  candidate'[c].status = status /\ \A b \in Candidates : b # c => candidate'[b] = candidate[b]
  <2>1. candidate' = [candidate EXCEPT ![c] = [candidate[c] EXCEPT !.status = status]]
    BY <1>3 DEF SetCandidate
  <2> QED
    BY <1>t, <1>3, <2>1 DEF CandidateRows
<1> QED
  BY <1>1, <1>2, <1>3

\* A candidate is concluded together with its deployment, which never gets back to "running".
LEMMA ConclusionStep ==
  Local /\ WorkIsDistinct /\ PinsFollowBackup /\ ConclusionHasDeployment /\ [Next]_vars
  => ConclusionHasDeployment'
<1> DEFINE Carried(d)  == deployment[d].status \notin {"none", "running", "failed"}
           Finished(d) == deployment[d].status \notin {"none", "running"}
<1> SUFFICES ASSUME Local, PinsFollowBackup, ConclusionHasDeployment, [Next]_vars,
                    NEW c \in Candidates
             PROVE  /\ candidate'[c].status = "deployed" =>
                         \E d \in Deployments : CandidateOf(d)' = c /\ Carried(d)'
                    /\ candidate'[c].status = "failed" =>
                         \E d \in Deployments : CandidateOf(d)' = c /\ Finished(d)'
  BY DEF ConclusionHasDeployment
<1> DEFINE Concluded == /\ candidate'[c].status = "deployed" =>
                             \E d \in Deployments : CandidateOf(d)' = c /\ Carried(d)'
                        /\ candidate'[c].status = "failed" =>
                             \E d \in Deployments : CandidateOf(d)' = c /\ Finished(d)'
<1>0. /\ candidate[c].status = "deployed" => \E d \in Deployments : CandidateOf(d) = c /\ Carried(d)
      /\ candidate[c].status = "failed" => \E d \in Deployments : CandidateOf(d) = c /\ Finished(d)
  BY DEF ConclusionHasDeployment
<1>1. ASSUME \/ candidate'[c] = candidate[c]
             \/ candidate'[c].status \notin {"deployed", "failed"},
             \A d \in Deployments : Finished(d) => deployment'[d] = deployment[d]
      PROVE  Concluded
  BY <1>0, <1>1 DEF CandidateOf
<1>2. ASSUME TablesAlone PROVE Concluded
  BY <1>1, <1>2 DEF TablesAlone
<1>3. ASSUME deployment' = deployment, NEW b \in Candidates,
             \/ \E dev \in Devices, a \in Admins : Propose(b, dev, a)
             \/ \E a \in Admins : Approve(b, a)
             \/ candidate[b] \in CandidateRows /\ SetCandidate(b, "pending_approval")
             \/ candidate[b] \in CandidateRows /\ SetCandidate(b, "rejected")
      PROVE  Concluded
  BY <1>1, <1>3, NotConcluding
<1>4. ASSUME candidate' = candidate, NEW r \in Requests, NEW b \in Candidates,
             NEW d \in Deployments, Begin(r, b, d)
      PROVE  Concluded
  <2>1. \A e \in Deployments : Finished(e) => deployment'[e] = deployment[e]
    BY <1>4, BeginKeeps
  <2> QED
    BY <1>1, <1>4, <2>1
<1>5. ASSUME NEW r \in Requests, at[r] # "idle",
             NEW status \in {"running", "succeeded", "failed", "rolled_back", "rollback_failed"},
             SetStatus(mine[r], status)
      PROVE  /\ mine[r] \in Deployments /\ CandidateOf(mine[r]) \in Candidates
             /\ candidate[CandidateOf(mine[r])] \in CandidateRows
             /\ \A e \in Deployments : /\ CandidateOf(e)' = CandidateOf(e)
                                       /\ e # mine[r] => deployment'[e] = deployment[e]
             /\ deployment'[mine[r]].status = status
  BY <1>5, AtWork, SetStatusKeeps
<1>6. ASSUME NEW r \in Requests, at[r] # "idle", PreFailed(r), SetStatus(mine[r], "failed"),
             candidate' = candidate
      PROVE  Concluded
  <2>1. deployment[mine[r]].status = "running"
    BY <1>6 DEF PreFailed, PinsFollowBackup
  <2>2. \A e \in Deployments : Finished(e) => deployment'[e] = deployment[e]
    BY <1>5, <1>6, <2>1
  <2> QED
    BY <1>1, <1>6, <2>2
<1>7. ASSUME NEW r \in Requests, at[r] # "idle", NEW verdict \in {"failed", "deployed"},
             NEW status \in {"failed", "succeeded"}, SetStatus(mine[r], status),
             verdict = "deployed" => status = "succeeded",
             SetCandidate(CandidateOf(mine[r]), verdict)
      PROVE  Concluded
  <2> DEFINE b == CandidateOf(mine[r])
  <2>1. /\ mine[r] \in Deployments /\ b \in Candidates /\ candidate[b] \in CandidateRows
        /\ \A e \in Deployments : /\ CandidateOf(e)' = CandidateOf(e)
                                  /\ e # mine[r] => deployment'[e] = deployment[e]
        /\ deployment'[mine[r]].status = status
    BY <1>5, <1>7
  <2>2. candidate' = [candidate EXCEPT ![b] = [candidate[b] EXCEPT !.status = verdict]]
    BY <1>7 DEF SetCandidate
  <2>3. candidate \in [Candidates -> {NoCandidate} \cup CandidateRows]
    BY DEF Local, TablesTyped
  <2>4. candidate'[b].status = verdict /\ \A a \in Candidates : a # b => candidate'[a] = candidate[a]
    BY <2>1, <2>2, <2>3 DEF CandidateRows
  <2>5. CASE c = b
    <3>1. PICK d \in Deployments : d = mine[r]
      BY <2>1
    <3>2. CandidateOf(d)' = c /\ deployment'[d].status = status
      BY <2>1, <2>5, <3>1
    <3>3. candidate'[c].status = verdict
      BY <2>4, <2>5
    <3> QED
      BY <1>7, <3>2, <3>3
  <2>6. ASSUME c # b PROVE Concluded
    <3>1. candidate'[c] = candidate[c]
      BY <2>4, <2>6
    <3> HIDE DEF b
    <3>2. \A e \in Deployments : CandidateOf(e) = c => /\ CandidateOf(e)' = c
                                                       /\ deployment'[e] = deployment[e]
      BY <2>1, <2>6 DEF b
    <3> QED
      BY <1>0, <3>1, <3>2
  <2> QED
    BY <2>5, <2>6
<1>8. ASSUME NEW r \in Requests, at[r] # "idle", candidate' = candidate,
             SetStatus(mine[r], "rolled_back") \/ SetStatus(mine[r], "rollback_failed")
      PROVE  Concluded
  <2>1. /\ mine[r] \in Deployments
        /\ \A e \in Deployments : /\ CandidateOf(e)' = CandidateOf(e)
                                  /\ e # mine[r] => deployment'[e] = deployment[e]
        /\ deployment'[mine[r]].status \in {"rolled_back", "rollback_failed"}
    BY <1>5, <1>8
  <2>2. \A e \in Deployments : Carried(e) => Carried(e)'
    BY <2>1
  <2>3. \A e \in Deployments : Finished(e) => Finished(e)'
    BY <2>1
  <2> QED
    BY <1>0, <1>8, <2>1, <2>2, <2>3
<1> HIDE DEF Concluded, Carried, Finished
<1>9. ASSUME NEW r \in Requests, at[r] # "idle",
             \/ SetStatus(mine[r], "failed") /\ SetCandidate(CandidateOf(mine[r]), "failed")
             \/ SetStatus(mine[r], "succeeded") /\ SetCandidate(CandidateOf(mine[r]), "deployed")
      PROVE  Concluded
  <2>1. CASE SetStatus(mine[r], "failed") /\ SetCandidate(CandidateOf(mine[r]), "failed")
    BY <1>7, <1>9, <2>1
  <2>2. CASE SetStatus(mine[r], "succeeded") /\ SetCandidate(CandidateOf(mine[r]), "deployed")
    BY <1>7, <1>9, <2>2
  <2> QED
    BY <1>9, <2>1, <2>2
<1>10. ASSUME Tabled PROVE Concluded
  <2>1. CASE TablesAlone
    BY <1>2, <2>1
  <2>2. ASSUME deployment' = deployment, NEW b \in Candidates,
               \/ \E dev \in Devices, a \in Admins : Propose(b, dev, a)
               \/ \E a \in Admins : Approve(b, a)
               \/ /\ candidate[b] \in CandidateRows
                  /\ SetCandidate(b, "pending_approval") \/ SetCandidate(b, "rejected")
        PROVE  Concluded
    BY <1>3, <2>2
  <2>3. ASSUME candidate' = candidate,
               \E r \in Requests, b \in Candidates, d \in Deployments : Begin(r, b, d)
        PROVE  Concluded
    BY <1>4, <2>3
  <2>4. ASSUME NEW r \in Requests, at[r] # "idle",
               \/ /\ PreFailed(r)
                  /\ SetStatus(mine[r], "failed") /\ candidate' = candidate
               \/ /\ SetStatus(mine[r], "failed")
                  /\ SetCandidate(CandidateOf(mine[r]), "failed")
               \/ /\ SetStatus(mine[r], "succeeded")
                  /\ SetCandidate(CandidateOf(mine[r]), "deployed")
               \/ /\ SetStatus(mine[r], "rolled_back") \/ SetStatus(mine[r], "rollback_failed")
                  /\ candidate' = candidate
        PROVE  Concluded
    BY <1>6, <1>8, <1>9, <2>4
  <2> QED
    BY <1>10, <2>1, <2>2, <2>3, <2>4 DEF Tabled
<1> QED
  BY <1>10, StepTables DEF Concluded

-----------------------------------------------------------------------------
(* What is proved of the archive *)

\* The archive's theorems, for the archive whose configurations are sets of
\* candidates: P's definitions are those of Archive.
P == INSTANCE NcmArchive_proofs WITH Contents <- SUBSET Candidates

\* The archive of the two instances is one: its initial states, its steps ...
LEMMA SameNext == (P!Init <=> Archive!Init) /\ (P!Next <=> Archive!Next)
BY DEF Archive!Init, P!Init, Archive!archived, P!archived, Archive!scheduled, P!scheduled,
       Archive!Snapshots, P!Snapshots, Archive!Versions, P!Versions, Archive!Gone, P!Gone,
       Archive!NoBaseline, P!NoBaseline, Archive!NoPins, P!NoPins, Archive!Nothing, P!Nothing,
       Archive!Kept, P!Kept, Archive!Latest, P!Latest, Archive!Changed, P!Changed,
       Archive!IsNextVersion, P!IsNextVersion, Archive!IsFresh, P!IsFresh, Archive!IsHorizon,
       P!IsHorizon, Archive!Baselined, P!Baselined, Archive!Pinned, P!Pinned, Archive!Insert,
       P!Insert, Archive!Remove, P!Remove, Archive!SetPin, P!SetPin, Archive!Open, P!Open,
       Archive!Inspect, P!Inspect, Archive!Store, P!Store, Archive!ReadProtected,
       P!ReadProtected, Archive!Close, P!Close, Archive!Prune, P!Prune, Archive!Leave, P!Leave,
       Archive!Archive, P!Archive, Archive!PinBackup, P!PinBackup, Archive!PlainBackup,
       P!PlainBackup, Archive!DeleteConfiguration, P!DeleteConfiguration, Archive!SetBaseline,
       P!SetBaseline, Archive!ClearBaseline, P!ClearBaseline, Archive!Reconfigure,
       P!Reconfigure, Archive!ScheduledRun, P!ScheduledRun, Archive!Request, P!Request,
       Archive!Next, P!Next

\* ... and its invariant.
LEMMA SameSafe == P!Safe <=> Archive!Safe
BY DEF Archive!Snapshots, P!Snapshots, Archive!Versions, P!Versions, Archive!Gone, P!Gone,
       Archive!NoBaseline, P!NoBaseline, Archive!NoPins, P!NoPins, Archive!Nothing, P!Nothing,
       Archive!Kept, P!Kept, Archive!Latest, P!Latest, Archive!Changed, P!Changed,
       Archive!IsNextVersion, P!IsNextVersion, Archive!IsFresh, P!IsFresh, Archive!IsHorizon,
       P!IsHorizon, Archive!Baselined, P!Baselined, Archive!Pinned, P!Pinned, Archive!Insert,
       P!Insert, Archive!Remove, P!Remove, Archive!SetPin, P!SetPin, Archive!Rows, P!Rows,
       Archive!TypeOK, P!TypeOK, Archive!VersionsFollowHistory, P!VersionsFollowHistory,
       Archive!BaselineAgreesWithArchive, P!BaselineAgreesWithArchive, Archive!RunHoldsWriter,
       P!RunHoldsWriter, Archive!NumberStillNext, P!NumberStillNext, Archive!StillProtected,
       P!StillProtected, Archive!RowsInOrder, P!RowsInOrder, Archive!PinsAreKept,
       P!PinsAreKept, Archive!Safe, P!Safe

\* The same after a step.
LEMMA SameSafeNext == P!Safe' <=> Archive!Safe'
BY SameSafe, PTL

\* The assumption of NcmArchive holds of sets of candidates.
LEMMA ArchiveConstants == P!ArchiveAssumption
BY DeployAssumption DEF P!ArchiveAssumption

\* NcmArchive_proofs: the archive's invariant holds at first and is kept by its steps.
LEMMA ArchiveInit == Archive!Init => Archive!Safe
BY SameNext, SameSafe, ArchiveConstants, P!InitSafe

\* ... and so for every step of the archive.
LEMMA ArchiveStep == ASSUME Archive!Safe, [Archive!Next]_archive PROVE Archive!Safe'
<1>1. P!Safe /\ [P!Next]_(P!vars)
  BY SameNext, SameSafe DEF P!vars, archive
<1> QED
  BY <1>1, SameSafeNext, ArchiveConstants, P!NextSafe

-----------------------------------------------------------------------------
(* The inductive invariant and what follows from it *)

DeploySafe ==
  /\ Archive!Safe
  /\ Local
  /\ ContentsReviewed
  /\ HoldsGate
  /\ WorkIsDistinct
  /\ PinsFollowBackup
  /\ PreIsPinned
  /\ ConclusionHasDeployment

\* At first no candidate is proposed and no request at work.
LEMMA InitArchive == Init => Archive!Init
BY DeployAssumption DEF Init, Archive!Init

\* The invariant holds at first ...
LEMMA InitDeploySafe == Init => DeploySafe
<1> SUFFICES ASSUME Init PROVE DeploySafe
  OBVIOUS
<1>1. Archive!Safe
  BY InitArchive, ArchiveInit
<1>2. Local
  BY DeployAssumption
     DEF Init, Local, TablesTyped, RequestsTyped, WorkHasDeployment, LaunchedIsReviewed,
         NoCandidate, NoDeployment, NoSnapshots
<1>3. ContentsReviewed
  BY DEF Init, ContentsReviewed, Archive!Gone
<1>4. HoldsGate /\ WorkIsDistinct /\ PreIsPinned
  BY DEF Init, HoldsGate, WorkIsDistinct, PreIsPinned, Deploying, Replaying
<1>5. PinsFollowBackup
  BY DEF Init, PinsFollowBackup, Archive!NoPins
<1>6. ConclusionHasDeployment
  BY DEF Init, ConclusionHasDeployment, NoCandidate
<1> QED
  BY <1>1, <1>2, <1>3, <1>4, <1>5, <1>6 DEF DeploySafe

\* ... and is kept, by steps that are steps of the archive.
LEMMA NextDeploySafe == DeploySafe /\ [Next]_vars => DeploySafe' /\ [Archive!Next]_archive
<1> SUFFICES ASSUME DeploySafe, [Next]_vars PROVE DeploySafe' /\ [Archive!Next]_archive
  OBVIOUS
<1>1. Archive!TypeOK /\ Archive!StillProtected /\ Archive!PinsAreKept
  BY DEF DeploySafe, Archive!Safe
<1>2. [Archive!Next]_archive
  BY <1>1, StepIsArchives DEF DeploySafe
<1>3. Archive!Safe'
  BY <1>2, ArchiveStep DEF DeploySafe
<1>4. Local' /\ HoldsGate'
  BY <1>1, LocalStep, GateStep DEF DeploySafe
<1>5. ContentsReviewed'
  BY <1>1, ContentsStep DEF DeploySafe
<1>6. WorkIsDistinct' /\ PinsFollowBackup' /\ PreIsPinned'
  BY <1>1, DistinctStep, BackupStep, PreStep DEF DeploySafe
<1>7. ConclusionHasDeployment'
  BY ConclusionStep DEF DeploySafe
<1> QED
  BY <1>2, <1>3, <1>4, <1>5, <1>6, <1>7 DEF DeploySafe

\* The invariant always holds.
THEOREM Safety == Spec => []DeploySafe
<1>1. DeploySafe /\ [Next]_vars => DeploySafe'
  BY NextDeploySafe
<1> QED
  BY <1>1, InitDeploySafe, PTL DEF Spec

\* Every variable has its type, whatever the requests and the scheduler do.
THEOREM TypeCorrect == Spec => []TypeOK
<1>1. DeploySafe => TypeOK
  <2> SUFFICES ASSUME DeploySafe PROVE TypeOK
    OBVIOUS
  <2>1. Archive!TypeOK /\ TablesTyped /\ RequestsTyped
    BY DEF DeploySafe, Archive!Safe, Local
  <2>2. Deploying \cup Replaying \cup {"idle"} = Places
    BY DEF Deploying, Replaying, Places
  <2>3. \A r \in Requests : at[r] # "idle" => mine[r] # None
    BY DeployAssumption DEF DeploySafe, Local, WorkHasDeployment
  <2> QED
    BY <2>1, <2>2, <2>3 DEF TypeOK, TablesTyped, RequestsTyped, CandidateRows, DeploymentRows
<1> QED
  BY <1>1, Safety, PTL

\* Every change that a device carries was approved by an administrator other than
\* its author, for any number of administrators, candidates and devices.
THEOREM ChangesReviewed == Spec => []ChangesAreReviewed
<1>1. DeploySafe => ChangesAreReviewed
  BY DEF DeploySafe, ContentsReviewed, Reviewed, ChangesAreReviewed
<1> QED
  BY <1>1, Safety, PTL

\* A candidate counts as deployed or failed only with a deployment carried to its end.
THEOREM ConclusionFollows == Spec => []ConclusionHasDeployment
<1>1. DeploySafe => ConclusionHasDeployment
  BY DEF DeploySafe
<1> QED
  BY <1>1, Safety, PTL

\* Retention does not take the rollback point of a deployment under way, for any
\* number of schedules, snapshots and deployments.
THEOREM RollbackPointStays == Spec => []RollbackPointIsNotPruned
<1>1. DeploySafe => RollbackPointIsNotPruned
  <2> SUFFICES ASSUME DeploySafe, NEW r \in Requests,
                      at[r] \in {"check", "send", "verify", "refused", "report"}
               PROVE  snapshot[got[r].pre].fate # "pruned"
    BY DEF RollbackPointIsNotPruned
  <2>1. /\ got[r].pre \in Archive!Snapshots
        /\ snapshot[got[r].pre].fate = "deleted" \/ pin[mine[r]].pre = got[r].pre
    BY DEF DeploySafe, PreIsPinned
  <2>2. mine[r] \in Deployments
    BY AtWork DEF DeploySafe
  <2>3. pin[mine[r]].pre = got[r].pre => snapshot[got[r].pre].fate = "kept"
    BY <2>1, <2>2, DeployAssumption
       DEF DeploySafe, Archive!Safe, Archive!PinsAreKept, Archive!Snapshots
  <2> QED
    BY <2>1, <2>3
<1> QED
  BY <1>1, Safety, PTL

\* Between the commands of a request and the backup that verifies them no other
\* request reaches a device.
THEOREM VerificationAlone == Spec => VerificationIsUndisturbed
<1>1. DeploySafe /\ [Next]_vars =>
        [\A r \in Requests :
           at[r] \in {"verify", "replayed"} /\ at'[r] = at[r] => running' = running]_vars
  <2> SUFFICES ASSUME DeploySafe, [Next]_vars, NEW r \in Requests,
                      at[r] \in {"verify", "replayed"}
               PROVE  running' = running
    OBVIOUS
  <2>0. gate = r /\ r # None
    BY DeployAssumption DEF DeploySafe, HoldsGate
  <2>1. ASSUME NEW q \in Requests PROVE ~Send(q) /\ \A d \in Deployments : ~Rollback(q, d)
    BY <2>0 DEF Send, Rollback, GateIsFree
  <2>2. UNCHANGED archive => running' = running
    BY DEF archive
  <2>3. ASSUME NEW dev, NEW i, Archive!Archive(dev, i) PROVE running' = running
    BY <2>3 DEF Archive!Archive
  <2>4. Scheduled => running' = running
    BY DEF Scheduled, Archive!ScheduledRun, Archive!Open, Archive!Inspect, Archive!Store,
           Archive!ReadProtected, Archive!Prune, Archive!Leave
  <2>5. ~OtherRequest
    BY <2>0 DEF OtherRequest, GateIsFree
  <2> QED
    BY <2>1, <2>2, <2>3, <2>4, <2>5, StepUses
       DEF Uses, Archive!PinBackup, Archive!PlainBackup, DeploySafe, Local
<1> QED
  BY <1>1, Safety, PTL DEF Spec, VerificationIsUndisturbed

\* The requests and the scheduler together use the archive only as NcmArchive allows.
THEOREM ArchiveImplemented == Spec => ImplementsArchive
<1>1. [Archive!Next]_archive <=> [Archive!Next]_(Archive!vars)
  BY DEF archive, Archive!vars
<1>2. DeploySafe /\ [Next]_vars => [Archive!Next]_(Archive!vars)
  BY <1>1, NextDeploySafe
<1> QED
  BY <1>2, InitArchive, Safety, PTL DEF Spec, ImplementsArchive, Archive!Spec

=============================================================================
