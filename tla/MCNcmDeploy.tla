----------------------------- MODULE MCNcmDeploy ----------------------------
(***************************************************************************)
(* Deployments beside each other, deployments beside a schedule, and two   *)
(* sentences of the documentation that hold for one deployment at a time   *)
(* and not for two requests that deploy at once.                           *)
(***************************************************************************)
EXTENDS NcmDeploy, FiniteSets, TLC

VARIABLE mix

\* One behaviour has two requests and no scheduled run, or a scheduled run and one request at a
\* time: the state space is the sum of the two.
Busy == {r \in Requests : at[r] # "idle"}
NextMix ==
  /\ UNCHANGED mix
  /\ Next
  /\ \/ mix = "requests" /\ UNCHANGED stage
     \/ mix = "schedule" /\ Cardinality(Busy') <= 1
InitMix == Init /\ mix \in {"requests", "schedule"}
SpecMixes == InitMix /\ [][NextMix]_<<vars, mix>>

\* Requests, administrators and deployments are interchangeable.
Symmetry ==
  Permutations(Requests) \cup Permutations(Admins) \cup Permutations(Deployments)

Sends(r) == at[r] = "send" /\ at'[r] \in {"verify", "refused"}

\* models/ncm.py, NcmCandidate: "A candidate that has been deployed is never
\* reused: redeploying means creating a new candidate".
NeverReused ==
  [][\A r \in Requests :
       Sends(r) => candidate[CandidateOf(mine[r])].status # "deployed"]_vars

\* services/ncm_deploy.py: the rollback point is the state of the device "at
\* the moment of the change".
RollbackPointIsFresh ==
  [][\A r \in Requests :
       Sends(r) /\ pin[mine[r]].pre # None =>
         snapshot[pin[mine[r]].pre].content = running[DeviceOf(mine[r])]]_vars
=============================================================================
