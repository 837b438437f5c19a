-------------------------------- MODULE Fleet --------------------------------
(***************************************************************************)
(* The inventory with everything that refers to it: command jobs, security *)
(* audits and policies, and the deletion that has to respect them all,     *)
(* services/dependency_deletion.py.                                        *)
(*                                                                         *)
(* A deletion inspects, removes the policies the administrator has seen,   *)
(* deletes and commits, in one gated transaction.  The gate keeps other    *)
(* web requests out; background sessions go on between its inspection and  *)
(* its commit.  A policy stands for its scope: a device, a device group or *)
(* anything, which is also what a foreign key that is set to NULL leaves.  *)
(***************************************************************************)
EXTENDS CommandJobs, SecurityAudits

CONSTANTS
  Policies,      \* identifiers of policies, each created at most once
  InitialPolicy, \* rows the catalogue starts with
  Mixes          \* bounds: how many tasks, jobs, audits and edits go together

VARIABLES
  policy,        \* rows of policies: [ref, enabled]
  review,        \* the deletion report an administrator is looking at
  deletion,      \* the deletion between its inspection and its commit
  edits,         \* edits, deletions and deaths so far
  mix            \* the bound of this behaviour

fleetVars == <<policy, review, deletion, edits, mix>>
vars == <<inventory, jobVars, auditVars, fleetVars>>

Anything == <<"any", None>>
Scopes   == {<<"device", d>> : d \in Devices} \cup {<<"group", g>> : g \in Groups} \cup {Anything}

ASSUME FleetAssumption ==
  /\ DOMAIN InitialPolicy \subseteq Policies
  /\ \A p \in DOMAIN InitialPolicy : InitialPolicy[p] \in [ref : Scopes, enabled : BOOLEAN]
  /\ Mixes \subseteq [tasks : Nat, jobs : Nat, audits : Nat, edits : Nat]
  /\ "deletion" \notin Tasks \cup Audits \cup {None}

NoReview   == [ids |-> {}, report |-> None]
NoDeletion == [ids |-> {}, op |-> None, remove |-> {}, runs |-> {}, seen |-> <<>>]

Init ==
  /\ InitInventory /\ InitJobs /\ InitAudits
  /\ policy = InitialPolicy
  /\ review = NoReview /\ deletion = NoDeletion /\ edits = 0
  /\ mix \in Mixes

-----------------------------------------------------------------------------
(* Policies, as far as a deletion meets them *)

Members(g) == {d \in DOMAIN device : device[d].group = g}

\* resolve_scope for one reference: it exists, and a group has members.
Deployable(ref) ==
  CASE ref[1] = "device" -> ref[2] \in DOMAIN device
    [] ref[1] = "group"  -> ref[2] \in groups /\ Members(ref[2]) # {}
    [] OTHER -> TRUE

\* A policy is saved only with a scope that resolves.
SavePolicy ==
  /\ gate = None
  /\ \E p \in Policies, ref \in Scopes, enabled \in BOOLEAN :
       /\ Deployable(ref)
       /\ policy' = [q \in DOMAIN policy \cup {p} |->
                       IF q = p THEN [ref |-> ref, enabled |-> enabled] ELSE policy[q]]
  /\ policy' # policy
  /\ UNCHANGED <<inventory, jobVars, auditVars, review, deletion>>

-----------------------------------------------------------------------------
(* What a deletion finds *)

\* Mutant: policies that are switched off are not looked at.
EnabledPolicies(ids) ==
  {p \in DOMAIN policy : policy[p].enabled /\ policy[p].ref \in {<<"device", d>> : d \in ids}}

\* Policies that name a device, enabled or not.
DirectPolicies(ids) ==
  {p \in DOMAIN policy : policy[p].ref \in {<<"device", d>> : d \in ids}}

\* Enabled policies whose group loses its last members, taken together.
EmptiedPolicies(ids) ==
  {p \in DOMAIN policy :
     /\ policy[p].enabled /\ policy[p].ref[1] = "group"
     /\ Members(policy[p].ref[2]) # {} /\ Members(policy[p].ref[2]) \subseteq ids}

\* Mutant: a job that has not started yet does not count.
WorkStarted(ids) ==
  {<<"job", j, d>> : j \in {i \in DOMAIN job : job[i] = "RUNNING"},
                     d \in {e \in ids : \E i \in Jobs : <<i, e>> \in linked}}
  \cup {<<"run", k[1], k[2]>> : k \in {r \in DOMAIN run : /\ r[2] \in ids /\ run[r].linked
                                                          /\ run[r].status = "running"}}

\* Rows that are not history yet: targets of a job that has not concluded and
\* runs that have not.
WorkUnderWay(ids) ==
  {<<"job", l[1], l[2]>> : l \in {m \in linked : m[2] \in ids /\ job[m[1]] \notin Concluded}}
  \cup {<<"run", k[1], k[2]>> : k \in {r \in DOMAIN run : /\ r[2] \in ids /\ run[r].linked
                                                          /\ run[r].status = "running"}}

\* The report, as much of it as its revision can tell apart.
Inspect(ids) ==
  [rows     |-> [d \in ids |-> device[d]],
   policies |-> [p \in DirectPolicies(ids) \cup EmptiedPolicies(ids) |-> policy[p]],
   work     |-> WorkUnderWay(ids),
   history  |-> {l \in linked : l[2] \in ids} \cup {k \in DOMAIN run : k[2] \in ids /\ run[k].linked}]

\* POST /inspect; an administrator looks at one report at a time.
Preview ==
  /\ gate = None
  /\ review = NoReview
  /\ \E ids \in SUBSET DOMAIN device \ {{}} :
       review' = [ids |-> ids, report |-> Inspect(ids)]
  /\ UNCHANGED <<inventory, jobVars, auditVars, policy, deletion, edits, mix>>

-----------------------------------------------------------------------------
(* Deletion *)

Removed(op, ids) == CASE op = "device_delete"  -> DirectPolicies(ids) \cup EmptiedPolicies(ids)
                      [] op = "delete"         -> {}
                      [] OTHER                 -> DirectPolicies(ids)

\* What blocks an operation: cleaning up removes the policies that name a device
\* and, when it deletes, must not be left with another reason against it.
Permitted(op, ids) ==
  CASE op = "delete"         -> DirectPolicies(ids) \cup EmptiedPolicies(ids) = {} /\ WorkUnderWay(ids) = {}
    [] op = "cleanup_delete" -> EmptiedPolicies(ids) \subseteq DirectPolicies(ids) /\ WorkUnderWay(ids) = {}
    [] op = "device_delete"  -> WorkUnderWay(ids) = {}
    [] OTHER -> TRUE

Inspected(op, ids) ==
  /\ gate = None
  /\ Permitted(op, ids)
  /\ deletion' = [ids |-> ids, op |-> op, remove |-> Removed(op, ids), runs |-> DOMAIN run,
                  seen |-> IF op = "delete" THEN <<>> ELSE review.report.policies]
  /\ gate' = "deletion"
  /\ UNCHANGED <<Others, jobVars, auditVars, policy, review>>

\* Mutant: the revision is not compared.
ExecuteUnreviewed(op) ==
  /\ review # NoReview /\ review.ids \subseteq DOMAIN device
  /\ Inspected(op, review.ids)

\* POST /execute: the report is made again and must be the one that was reviewed.
ExecuteReviewed(op) ==
  /\ review # NoReview /\ review.ids \subseteq DOMAIN device
  /\ review.report = Inspect(review.ids)
  /\ Inspected(op, review.ids)

\* DELETE /api/devices/{id}: no revision, and nothing may stand against it.
DeleteDirect == \E d \in DOMAIN device : Inspected("delete", {d})

\* Policies, history links and rows in one commit.  Foreign keys that remain are
\* set to NULL by the database.
CommitDeletion ==
  LET ids  == IF deletion.op = "cleanup" THEN {} ELSE deletion.ids
      kept == DOMAIN policy \ deletion.remove
  IN
  /\ gate = "deletion" /\ deletion # NoDeletion
  /\ device' = [d \in DOMAIN device \ ids |-> device[d]]
  /\ retired' = retired \cup ids
  /\ policy' = [p \in kept |-> IF policy[p].ref \in {<<"device", d>> : d \in ids}
                                 THEN [policy[p] EXCEPT !.ref = Anything] ELSE policy[p]]
  /\ linked' = {l \in linked : l[2] \notin ids}
  /\ run' = [k \in DOMAIN run |-> IF k[2] \in ids THEN [run[k] EXCEPT !.linked = FALSE] ELSE run[k]]
  /\ touched' = touched \cup InUse
  /\ deletion' = NoDeletion /\ review' = NoReview
  /\ gate' = None
  /\ UNCHANGED <<groups, licence, equipment, at, work, drift, job, target, executions, runner,
                 settings, now, auditLock, batch, exec, slotVars, edits, mix>>

\* DELETE of a device group: a policy that names it blocks, its members do not.
DeleteGroup ==
  /\ gate = None
  /\ \E g \in groups : /\ \A p \in DOMAIN policy : policy[p].ref # <<"group", g>>
                       /\ DropGroup(g)
  /\ UNCHANGED <<licence, equipment, gate, at, work, touched, drift, jobVars, auditVars,
                 policy, review, deletion>>

-----------------------------------------------------------------------------
(* Everything together *)

\* The process ends; transactions and locks go with its sessions.
Die ==
  /\ LoseTasks /\ LoseRunners /\ LoseAudits
  /\ gate' = None
  /\ deletion' = NoDeletion
  /\ UNCHANGED <<device, retired, groups, licence, equipment, touched, drift,
                 job, target, linked, executions,
                 settings, now, batch, run, slotVars, policy, review>>

\* Bound: what may still start.  Time passes as long as another audit may.
MoreTasks  == Cardinality({t \in Tasks : at[t] # "idle"}) < mix.tasks
MoreJobs   == Cardinality(DOMAIN job) < mix.jobs
MoreAudits == Cardinality({x \in Audits : exec[x].at # "idle"}) < mix.audits
MoreEdits  == edits < mix.edits

StartTask(t)  == \/ CreateDevice(t) \/ QuickAddDevice(t) \/ StartScan(t)
                 \/ \E d \in Devices : UpdateDevice(t, d) \/ ApplyAaa(t, d)
TaskStep(t)   == \/ QuickLimit(t) \/ FlushDevice(t) \/ CommitDevice(t) \/ CommitUpdate(t)
                 \/ ScanCheck(t) \/ ScanGather(t) \/ ScanApply(t) \/ ScanLicence(t) \/ ScanCommit(t)
                 \/ PushAaa(t)
StartJob      == \E j \in Jobs, ids \in SUBSET Devices, gs \in SUBSET Groups,
                    workers \in {1, Concurrency} : CreateJob(j, ids, gs, workers)
JobStep(j)    == \/ RunJob(j) \/ FinishJob(j)
                 \/ \E d \in Devices : Connect(j, d) \/ CommandsSent(j, d)
                                       \/ TargetFails(j, d) \/ TargetCompletes(j, d)
StartAudit(x) == ClaimSlot(x) \/ RunNow(x) \/ BulkAudit(x) \/ LiveAudit(x)
AuditStep(x)  == \/ ListDevices(x) \/ CommitBatch(x) \/ FinishRun(x) \/ LoseDevice(x)
                 \/ FinishBatch(x) \/ ReportBatch(x)
                 \/ \E d \in Devices : BeginRun(x, d)

InventoryStep == \/ \E t \in Tasks : TaskStep(t)
                 \/ MoreTasks /\ \E t \in Tasks : StartTask(t)
CommandStep   == \/ \E j \in Jobs : JobStep(j)
                 \/ MoreJobs /\ StartJob
SecurityStep  == \/ \E x \in Audits : AuditStep(x)
                 \/ MoreAudits /\ \E x \in Audits : StartAudit(x)
                 \/ MoreAudits /\ Tick
                 \/ Recover

Edit == /\ MoreEdits /\ edits' = edits + 1 /\ mix' = mix
        /\ \/ /\ ChangeLicence
              /\ UNCHANGED <<jobVars, auditVars, policy, review, deletion>>
           \/ /\ UpdateSchedule \/ SaveCredentials
              /\ UNCHANGED <<jobVars, policy, review, deletion>>
           \/ SavePolicy \/ DeleteGroup \/ DeleteDirect \/ Die
           \/ \E op \in {"delete", "cleanup", "cleanup_delete", "device_delete"} : ExecuteReviewed(op)

Next == \/ InventoryStep /\ UNCHANGED <<jobVars, auditVars, fleetVars>>
        \/ CommandStep /\ UNCHANGED <<auditVars, fleetVars>>
        \/ SecurityStep /\ UNCHANGED <<jobVars, fleetVars>>
        \/ Edit \/ CommitDeletion
        \/ MoreEdits /\ Preview

Spec == Init /\ [][Next]_vars

-----------------------------------------------------------------------------
(* Properties *)

\* Two rows come to overlap only by the commit of a task that checked the one
\* address against the table, and either the other row was committed, or moved
\* there, after that check, or the task is a quick-add, whose check compares
\* addresses for equality, and the two addresses differ: there, and only there,
\* is it not what it says of itself, a device created "exactly like the normal
\* Add Device flow".
OverlapOutranItsCheck ==
  [][\A d, e \in DOMAIN device' :
       /\ d # e /\ device'[d].addr.net \cap device'[e].addr.net # {}
       /\ ~(/\ d \in DOMAIN device /\ e \in DOMAIN device
            /\ device[d].addr = device'[d].addr /\ device[e].addr = device'[e].addr)
       => \E t \in Tasks, f \in {d, e} \cap DOMAIN device :
            /\ at[t] = "commit" /\ at'[t] # "commit" /\ device'[f] = device[f]
            /\ \/ f \notin DOMAIN work[t].seen
               \/ work[t].seen[f].addr # device[f].addr
               \/ work[t].kind = "quick" /\ device[f].addr # work[t].row.addr]_device

\* An insert never passes the limit that the hook reads from the stored licence
\* unless another was committed, or the licence changed, between the hook's
\* count and its own commit.
LimitOutranItsCount ==
  [][DOMAIN device' \ DOMAIN device # {} =>
       \/ Cardinality(DOMAIN device') <= HookLimit
       \/ \E t \in Tasks : at[t] = "commit" /\ at'[t] # "commit"
                           /\ (Cardinality(DOMAIN device) > work[t].counted \/ HookLimit < work[t].limit)]_device

\* A check made before a commit, of the addresses or of the licence, is outrun only
\* in these ways (and quick-add's, which sees no network, passed over).
ChecksAreOutrunByRacesOnly == OverlapOutranItsCheck /\ LimitOutranItsCount

\* Where no push failed, nobody edited and no two tasks met, the inventory and
\* the equipment hold the same secret.
SecretsAgree ==
  \A d \in DOMAIN device :
    device[d].addr.ip \notin drift => equipment[device[d].addr.ip] = device[d].secret

\* What a command job or an audit batch reports is what its rows add up to.
SummariesAgreeWithRows == JobAgreesWithTargets /\ BatchCountsItsRuns

\* A policy is removed with a device only as the report showed it: nothing goes
\* that was not reviewed or has changed since, and a direct deletion removes none.
RemovedPoliciesWereReviewed ==
  [][\A p \in DOMAIN policy \ DOMAIN policy' :
       p \in DOMAIN deletion.seen /\ deletion.seen[p] = policy[p]]_policy

\* A deletion never widens a policy: no surviving one loses its scope, enabled
\* or not, and none that is enabled is left with a group it cannot resolve.
DeletionKeepsScopes ==
  [][device' # device /\ gate = "deletion" =>
       \A p \in DOMAIN policy' : /\ policy'[p] = policy[p]
                                 /\ policy[p].enabled /\ Deployable(policy[p].ref)
                                      => Deployable(policy[p].ref)']_<<device, policy>>

\* A device is not deleted under its work: no job that may still run has it as a
\* target, and an audit under way can only be one of the poll, which is not
\* gated, begun after the inspection.
LiveWorkKeepsDevice ==
  [][\A d \in DOMAIN device \ DOMAIN device' :
       /\ \A j \in DOMAIN job : <<j, d>> \in linked => job[j] \in Concluded
       /\ \A k \in DOMAIN run : k[2] = d /\ run[k].status = "running"
            => k \notin deletion.runs /\ exec[k[1]].kind = "scheduled"]_device
=============================================================================
