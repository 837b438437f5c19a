---------------------------- MODULE Fleet_proofs ----------------------------
(***************************************************************************)
(* What a deletion may rely on, the slots of the scheduled audit, and what *)
(* the rows agree on: for every inventory, any number of tasks, jobs and   *)
(* audits and every mix.                                                   *)
(*                                                                         *)
(* The argument: a deletion under way has the gate, so what it decided     *)
(* with the gate (policies, rows, members, links of jobs) stands still;    *)
(* what goes on beside it without the gate only adds devices, brings jobs  *)
(* nearer to their end, or begins a run of the poll that was not there.    *)
(* For the rows, each task, job and audit carries in its locals what it    *)
(* has established, and only its own steps, or steps that the model marks  *)
(* (drift, touched, a row that another session committed), change what     *)
(* that was about.                                                         *)
(***************************************************************************)
EXTENDS Fleet, Accounts, FiniteSetTheorems, TLAPS

-----------------------------------------------------------------------------
(* The invariant *)

\* Records have their fields, functions their domains.
TasksShaped ==
  /\ DOMAIN at = Tasks /\ DOMAIN work = Tasks
  /\ \A t \in Tasks : DOMAIN work[t] = DOMAIN NoWork

JobsShaped ==
  /\ DOMAIN job \subseteq Jobs
  /\ DOMAIN runner = Jobs
  /\ \A j \in Jobs : DOMAIN runner[j] = {"at", "workers"}

AuditsShaped ==
  /\ DOMAIN exec = Audits
  /\ \A x \in Audits : DOMAIN exec[x] = DOMAIN NoExec
  /\ DOMAIN run \subseteq Audits \X Devices
  /\ \A k \in DOMAIN run : DOMAIN run[k] = {"linked", "status"}

PoliciesShaped == \A p \in DOMAIN policy : policy[p] \in [ref : Scopes, enabled : BOOLEAN]

\* A request about to commit a device has the gate, and so has a deletion.
RequestHoldsGate  == \A t \in Tasks : at[t] = "commit" /\ Requested(t) => gate = t
DeletionHoldsGate == deletion # NoDeletion => gate = "deletion"

\* A deleted identifier is not given again, and only its runs are history.
DeletedStayDeleted ==
  /\ DOMAIN device \cap retired = {} /\ DOMAIN device \subseteq Devices /\ groups \subseteq Groups
  /\ \A k \in DOMAIN run : ~run[k].linked => k[2] \in retired

\* The slots claimed lie behind the clock; those that lie beyond the slot that is
\* stored are the ones that Run Now has reopened.
ClaimsAreBehind ==
  /\ now \in Nat /\ settings.time \in {0, 1}
  /\ DOMAIN settings = {"enabled", "zoned", "configured", "time", "slot", "status"}
  /\ \A c \in claimed : c \in Int /\ c <= now
  /\ settings.slot \in Int \cup {None} /\ (claimed # {} => settings.slot \in Int)
  /\ reopened = {c \in claimed : c > settings.slot}

\* A job that has concluded has no runner left.
ConcludedIsOver ==
  \A j \in DOMAIN job : job[j] \in Concluded => runner[j].at \notin {"start", "targets"}

\* A device still to be audited has no run yet, except the one under way.
RunsAreDone ==
  \A k \in DOMAIN run :
    /\ exec[k[1]].at \notin {"idle", "list", "number"}
    /\ k[2] \in exec[k[1]].todo => exec[k[1]].at = "ssh" /\ exec[k[1]].current = k[2]

\* The open run of an audit at work is the one it is at.
OpenRunIsCurrent ==
  \A k \in DOMAIN run :
    run[k].status = "running" /\ Working(k[1]) => exec[k[1]].at = "ssh" /\ exec[k[1]].current = k[2]

\* What a deletion has established and still needs when it commits.
RemovesWhatItSaw ==
  \A p \in deletion.remove \cap DOMAIN policy :
    p \in DOMAIN deletion.seen /\ deletion.seen[p] = policy[p]

JobsHaveConcluded ==
  \A j \in DOMAIN job, d \in deletion.ids : <<j, d>> \in linked => job[j] \in Concluded

RunsAreLater ==
  \A k \in DOMAIN run :
    k[2] \in deletion.ids /\ run[k].status = "running"
      => k \notin deletion.runs /\ exec[k[1]].kind = "scheduled"

ScopesAreKept ==
  \A p \in DOMAIN policy \ deletion.remove :
    /\ policy[p].ref \notin {<<"device", d>> : d \in deletion.ids}
    /\ policy[p].enabled /\ policy[p].ref[1] = "group" /\ Members(policy[p].ref[2]) \subseteq deletion.ids
         => Members(policy[p].ref[2]) = {}

DeletionStands ==
  deletion # NoDeletion =>
    /\ deletion.ids \subseteq DOMAIN device /\ deletion.runs \subseteq DOMAIN run
    /\ RemovesWhatItSaw
    /\ deletion.op # "cleanup" => JobsHaveConcluded /\ RunsAreLater /\ ScopesAreKept

FleetSafe ==
  /\ TasksShaped /\ JobsShaped /\ AuditsShaped /\ PoliciesShaped
  /\ RequestHoldsGate /\ DeletionHoldsGate
  /\ DeletedStayDeleted
  /\ ClaimsAreBehind
  /\ ConcludedIsOver
  /\ RunsAreDone /\ OpenRunIsCurrent
  /\ DeletionStands

-----------------------------------------------------------------------------
(* The initial states *)

LEMMA FleetInit == ASSUME Init PROVE FleetSafe
<1> USE DEF Init, InitInventory, InitJobs, InitAudits
<1>1. TasksShaped /\ RequestHoldsGate
  BY DEF TasksShaped, RequestHoldsGate
<1>2. JobsShaped /\ ConcludedIsOver
  BY DEF JobsShaped, ConcludedIsOver, NoRunner
<1>3. AuditsShaped /\ RunsAreDone /\ OpenRunIsCurrent /\ DeletedStayDeleted
  BY InventoryAssumption DEF AuditsShaped, RunsAreDone, OpenRunIsCurrent, DeletedStayDeleted
<1>4. PoliciesShaped
  BY FleetAssumption DEF PoliciesShaped
<1>5. ClaimsAreBehind
  BY DEF ClaimsAreBehind
<1>6. DeletionHoldsGate /\ DeletionStands
  BY DEF DeletionHoldsGate, DeletionStands
<1> QED
  BY <1>1, <1>2, <1>3, <1>4, <1>5, <1>6 DEF FleetSafe

-----------------------------------------------------------------------------
(* Tasks beside everything else *)

\* One task moves, and keeps the shape of its locals.
MovesOnly(t) ==
  /\ DOMAIN at' = Tasks /\ DOMAIN work' = Tasks
  /\ \A u \in Tasks \ {t} : at'[u] = at[u] /\ work'[u] = work[u]
  /\ DOMAIN work'[t] = DOMAIN NoWork

\* What a task leaves alone: a deletion's gate, deleted identifiers, and, while a
\* deletion has the gate, the rows and the groups it has looked at.
TaskEffect ==
  /\ TasksShaped' /\ RequestHoldsGate'
  /\ gate = "deletion" => gate' = "deletion"
  /\ retired' = retired /\ groups' \subseteq Groups
  /\ DOMAIN device \subseteq DOMAIN device' /\ DOMAIN device' \cap retired = {}
  /\ DOMAIN device' \subseteq Devices
  /\ gate = "deletion" => groups' = groups /\ \A d \in DOMAIN device : device'[d] = device[d]

\* None of the names that hold the gate is another's.
LEMMA Gates ==
  /\ "deletion" \notin Tasks /\ "deletion" \notin Audits /\ None # "deletion"
  /\ None \notin Tasks /\ None \notin Audits
  /\ \A t \in Tasks, x \in Audits : t # x
BY FleetAssumption, InventoryAssumption, AuditsAssumption

LEMMA Moved ==
  ASSUME TasksShaped, RequestHoldsGate, NEW t \in Tasks, MovesOnly(t),
         \A u \in Tasks \ {t} : gate = u => gate' = u,
         at'[t] = "commit" /\ Requested(t)' => gate' = t
  PROVE  TasksShaped' /\ RequestHoldsGate'
BY DEF Requested, TasksShaped, RequestHoldsGate, MovesOnly

\* A new row has an identifier that was never given.
LEMMA Added ==
  ASSUME DOMAIN device \cap retired = {}, DOMAIN device \subseteq Devices,
         NEW d \in FreeIds, NEW row, device' = WithRow(d, row)
  PROVE  /\ DOMAIN device \subseteq DOMAIN device' /\ DOMAIN device' \cap retired = {}
         /\ DOMAIN device' \subseteq Devices
         /\ \A e \in DOMAIN device : device'[e] = device[e]
BY DEF FreeIds, WithRow

\* The end of a task, and the report of one host of a scan.
LEMMA Ended ==
  ASSUME TasksShaped, NEW t \in Tasks, End(t)
  PROVE  MovesOnly(t) /\ at'[t] = "done"
BY DEF TasksShaped, End, Goto, MovesOnly

LEMMA Reported ==
  ASSUME TasksShaped, NEW t \in Tasks, Report(t)
  PROVE  MovesOnly(t) /\ at'[t] # "commit"
<1>1. CASE End(t)
  BY <1>1, Ended
<1>2. CASE ~End(t)
  BY <1>2 DEF Report, TasksShaped, MovesOnly, Goto, NoWork
<1> QED
  BY <1>1, <1>2

LEMMA InventoryEffect ==
  ASSUME TasksShaped, RequestHoldsGate, InventoryStep,
         DOMAIN device \cap retired = {}, DOMAIN device \subseteq Devices, groups \subseteq Groups
  PROVE  TaskEffect
<1> USE Gates
<1>a. ASSUME NEW t \in Tasks, MovesOnly(t), at'[t] # "commit", UNCHANGED <<device, retired, groups, gate>>
      PROVE  TaskEffect
  BY <1>a, Moved DEF TaskEffect
<1>1. ASSUME NEW t \in Tasks, CreateDevice(t) PROVE TaskEffect
  <2>1. MovesOnly(t) /\ at'[t] = "flush"
    BY <1>1 DEF CreateDevice, MovesOnly, TasksShaped, Goto, NoWork
  <2>2. gate = None /\ UNCHANGED <<device, retired, groups>>
    BY <1>1 DEF CreateDevice
  <2> QED
    BY <2>1, <2>2, Moved DEF TaskEffect
<1>2. ASSUME NEW t \in Tasks, FlushDevice(t) PROVE TaskEffect
  <2>1. UNCHANGED <<device, retired, groups>>
    BY <1>2 DEF FlushDevice
  <2>2. Requested(t) => gate = None \/ gate = t
    BY <1>2 DEF FlushDevice, MayTakeGate
  <2>3. CASE Cardinality(DOMAIN device) + 1 <= HookLimit
    <3>1. /\ MovesOnly(t) /\ work'[t].kind = work[t].kind
          /\ gate' = IF Requested(t) THEN t ELSE gate
      BY <1>2, <2>3 DEF FlushDevice, MovesOnly, TasksShaped, Goto, NoWork
    <3>2. Requested(t)' = Requested(t)
      BY <3>1 DEF Requested
    <3> QED
      BY <2>1, <2>2, <3>1, <3>2, Moved DEF TaskEffect
  <2>4. CASE ~(Cardinality(DOMAIN device) + 1 <= HookLimit)
    <3>1. MovesOnly(t) /\ at'[t] = "done" /\ gate' = IF gate = t THEN None ELSE gate
      BY <1>2, <2>4, Ended DEF FlushDevice
    <3> QED
      BY <2>1, <3>1, Moved DEF TaskEffect
  <2> QED
    BY <2>3, <2>4
<1>3. ASSUME NEW t \in Tasks, CommitDevice(t) PROVE TaskEffect
  <2>1. gate = t /\ groups' = groups
    BY <1>3 DEF CommitDevice, RequestHoldsGate, Requested
  <2>2. MovesOnly(t) /\ at'[t] = "done" /\ retired' = retired
    BY <1>3, Ended DEF CommitDevice
  <2>3. /\ DOMAIN device \subseteq DOMAIN device' /\ DOMAIN device' \cap retired = {}
        /\ DOMAIN device' \subseteq Devices
    BY <1>3, Added DEF CommitDevice
  <2> QED
    BY <2>1, <2>2, <2>3, Moved DEF TaskEffect
<1>4. ASSUME NEW t \in Tasks, StartScan(t) PROVE TaskEffect
  <2>1. MovesOnly(t) /\ at'[t] = "check"
    BY <1>4 DEF StartScan, MovesOnly, TasksShaped, Goto, NoWork
  <2> QED
    BY <1>4, <2>1, <1>a DEF StartScan
<1>5. ASSUME NEW t \in Tasks, ScanCheck(t) PROVE TaskEffect
  <2>1. MovesOnly(t) /\ at'[t] # "commit"
    <3>1. CASE Report(t)
      BY <3>1, Reported
    <3>2. CASE ~Report(t)
      BY <1>5, <3>2 DEF ScanCheck, MovesOnly, TasksShaped, Goto
    <3> QED
      BY <3>1, <3>2
  <2> QED
    BY <1>5, <2>1, <1>a DEF ScanCheck
<1>6. ASSUME NEW t \in Tasks, ScanGather(t) PROVE TaskEffect
  <2>1. MovesOnly(t) /\ at'[t] # "commit"
    <3>1. CASE Report(t)
      BY <3>1, Reported
    <3>2. CASE ~Report(t)
      BY <1>6, <3>2 DEF ScanGather, MovesOnly, TasksShaped, Goto
    <3> QED
      BY <3>1, <3>2
  <2> QED
    BY <1>6, <2>1, <1>a DEF ScanGather
<1>7. ASSUME NEW t \in Tasks, ScanApply(t) PROVE TaskEffect
  <2>1. MovesOnly(t) /\ at'[t] # "commit"
    <3>1. CASE Report(t)
      BY <3>1, Reported
    <3>2. CASE ~Report(t)
      BY <1>7, <3>2 DEF ScanApply, MovesOnly, TasksShaped, Goto
    <3> QED
      BY <3>1, <3>2
  <2> QED
    BY <1>7, <2>1, <1>a DEF ScanApply
<1>8. ASSUME NEW t \in Tasks, ScanLicence(t) PROVE TaskEffect
  <2>1. MovesOnly(t) /\ at'[t] # "commit"
    <3>1. CASE End(t)
      BY <3>1, Ended
    <3>2. CASE ~End(t)
      BY <1>8, <3>2 DEF ScanLicence, AbortScan, MovesOnly, TasksShaped, Goto
    <3> QED
      BY <3>1, <3>2
  <2> QED
    BY <1>8, <2>1, <1>a DEF ScanLicence
<1>9. ASSUME NEW t \in Tasks, ScanCommit(t) PROVE TaskEffect
  <2>1. MovesOnly(t) /\ at'[t] # "commit" /\ UNCHANGED <<retired, groups, gate>>
    BY <1>9, Reported, Ended DEF ScanCommit, AbortScan
  <2>2. /\ DOMAIN device \subseteq DOMAIN device' /\ DOMAIN device' \cap retired = {}
        /\ DOMAIN device' \subseteq Devices
        /\ \A e \in DOMAIN device : device'[e] = device[e]
    <3>1. CASE UNCHANGED device
      BY <3>1
    <3>2. CASE device' # device
      BY <1>9, <3>2, Added DEF ScanCommit
    <3> QED
      BY <3>1, <3>2
  <2> QED
    BY <2>1, <2>2, Moved DEF TaskEffect
<1>10. ASSUME NEW t \in Tasks, NEW d \in Devices, ApplyAaa(t, d) PROVE TaskEffect
  <2>1. MovesOnly(t) /\ at'[t] = "push"
    BY <1>10 DEF ApplyAaa, MovesOnly, TasksShaped, Goto, NoWork
  <2>2. gate = None /\ UNCHANGED <<gate, retired, groups>> /\ DOMAIN device' = DOMAIN device
    BY <1>10 DEF ApplyAaa
  <2> QED
    BY <2>1, <2>2, Moved DEF TaskEffect
<1>11. ASSUME NEW t \in Tasks, PushAaa(t) PROVE TaskEffect
  BY <1>11, <1>a, Ended DEF PushAaa
<1>12. ASSUME NEW t \in Tasks, QuickAddDevice(t) PROVE TaskEffect
  <2>1. MovesOnly(t) /\ at'[t] = "limit"
    BY <1>12 DEF QuickAddDevice, MovesOnly, TasksShaped, Goto, NoWork
  <2>2. gate = None /\ UNCHANGED <<device, retired>> /\ groups' \subseteq Groups
    BY <1>12, InventoryAssumption DEF QuickAddDevice
  <2> QED
    BY <2>1, <2>2, Moved DEF TaskEffect
<1>13. ASSUME NEW t \in Tasks, QuickLimit(t) PROVE TaskEffect
  <2>1. (gate = None \/ gate = t) /\ UNCHANGED <<device, retired, groups>>
    BY <1>13 DEF QuickLimit, MayTakeGate
  <2>2. MovesOnly(t) /\ at'[t] # "commit"
    <3>1. CASE End(t)
      BY <3>1, Ended
    <3>2. CASE ~End(t)
      BY <1>13, <3>2 DEF QuickLimit, MovesOnly, TasksShaped, Goto
    <3> QED
      BY <3>1, <3>2
  <2> QED
    BY <2>1, <2>2, Moved DEF TaskEffect
<1>14. ASSUME NEW t \in Tasks, NEW d \in Devices, UpdateDevice(t, d) PROVE TaskEffect
  <2>1. MovesOnly(t) /\ gate' = t
    BY <1>14 DEF UpdateDevice, MovesOnly, TasksShaped, Goto, NoWork
  <2>2. gate = None /\ UNCHANGED <<device, retired, groups>>
    BY <1>14 DEF UpdateDevice
  <2> QED
    BY <2>1, <2>2, Moved DEF TaskEffect
<1>15. ASSUME NEW t \in Tasks, CommitUpdate(t) PROVE TaskEffect
  <2>1. gate = t /\ UNCHANGED <<retired, groups>>
    BY <1>15 DEF CommitUpdate, RequestHoldsGate, Requested
  <2>2. MovesOnly(t) /\ at'[t] = "done"
    BY <1>15, Ended DEF CommitUpdate
  <2>3. DOMAIN device' = DOMAIN device
    BY <1>15 DEF CommitUpdate
  <2> QED
    BY <2>1, <2>2, <2>3, Moved DEF TaskEffect
<1> QED
  BY <1>1, <1>2, <1>3, <1>4, <1>5, <1>6, <1>7, <1>8, <1>9, <1>10, <1>11, <1>12, <1>13, <1>14, <1>15
  DEF InventoryStep, StartTask, TaskStep

-----------------------------------------------------------------------------
(* Command jobs *)

\* A job only comes nearer to its end, and a target is linked under the gate.
JobEffect ==
  /\ JobsShaped' /\ ConcludedIsOver'
  /\ DOMAIN job \subseteq DOMAIN job'
  /\ \A j \in DOMAIN job : job[j] \in Concluded => job'[j] \in Concluded
  /\ gate # None => DOMAIN job' = DOMAIN job /\ linked' = linked

LEMMA CommandEffect ==
  ASSUME JobsShaped, ConcludedIsOver, CommandStep PROVE JobEffect
<1> USE DEF JobsShaped, ConcludedIsOver, JobEffect, Concluded
<1>1. ASSUME NEW j \in Jobs, NEW ids, NEW gs, NEW workers, CreateJob(j, ids, gs, workers) PROVE JobEffect
  BY <1>1 DEF CreateJob
<1>2. ASSUME NEW j \in Jobs, RunJob(j) PROVE JobEffect
  BY <1>2 DEF RunJob
<1>3. ASSUME NEW j \in Jobs, FinishJob(j) PROVE JobEffect
  BY <1>3 DEF FinishJob
<1>4. ASSUME NEW j \in Jobs, NEW d \in Devices,
             Connect(j, d) \/ CommandsSent(j, d) \/ TargetFails(j, d) \/ TargetCompletes(j, d)
      PROVE JobEffect
  BY <1>4 DEF Connect, CommandsSent, TargetFails, TargetCompletes
<1> QED
  BY <1>1, <1>2, <1>3, <1>4 DEF CommandStep, JobStep, StartJob

-----------------------------------------------------------------------------
(* Audits *)

\* What the steps of audits leave alone: the gate of others, the inventory, runs of
\* other audits; with the gate elsewhere a new run is one of the poll.
RunsEffect ==
  /\ AuditsShaped' /\ RunsAreDone' /\ OpenRunIsCurrent'
  /\ DOMAIN run \subseteq DOMAIN run'
  /\ \A k \in DOMAIN run : run'[k].linked = run[k].linked
  /\ \A k \in DOMAIN run' \ DOMAIN run : run'[k].linked
  /\ \A k \in DOMAIN run :
       /\ run'[k].status = "running" => run[k].status = "running"
       /\ run'[k].status = "running" /\ k[2] \in DOMAIN device
            => exec'[k[1]].kind = exec[k[1]].kind
  /\ gate = "deletion" => \A k \in DOMAIN run' \ DOMAIN run : exec'[k[1]].kind = "scheduled"

GateEffect ==
  /\ gate = "deletion" => gate' = "deletion"
  /\ \A t \in Tasks : gate = t => gate' = t

AuditsSafe == AuditsShaped /\ RunsAreDone /\ OpenRunIsCurrent

\* One audit moves on, without touching a run.
LEMMA AuditMoves ==
  ASSUME AuditsSafe, NEW x \in Audits, UNCHANGED run,
         DOMAIN exec' = Audits, \A y \in Audits \ {x} : exec'[y] = exec[y],
         DOMAIN exec'[x] = DOMAIN NoExec,
         exec[x].at # "ssh",
         exec[x].at \in {"idle", "list", "number"} \/ exec'[x].at \notin {"idle", "list", "number"},
         exec[x].at \in {"idle", "list", "number"} \/ exec'[x].todo \subseteq exec[x].todo,
         exec[x].at = "next" \/ exec[x].at = "report" \/ exec[x].at \in {"idle", "list", "number"}
  PROVE  RunsEffect
<1>1. \A k \in DOMAIN run : k[1] \in Audits /\ k = <<k[1], k[2]>>
  BY DEF AuditsSafe, AuditsShaped
<1>2. \A k \in DOMAIN run : k[1] = x => run[k].status # "running"
  BY <1>1 DEF AuditsSafe, OpenRunIsCurrent, RunsAreDone, Working
<1>3. AuditsShaped'
  BY DEF AuditsSafe, AuditsShaped
<1>4. RunsAreDone'
  BY <1>1 DEF AuditsSafe, RunsAreDone
<1>5. OpenRunIsCurrent'
  BY <1>1, <1>2 DEF AuditsSafe, OpenRunIsCurrent, Working
<1> QED
  BY <1>1, <1>2, <1>3, <1>4, <1>5 DEF RunsEffect

\* An audit starts: it has no run yet.
LEMMA AuditStarts ==
  ASSUME AuditsSafe, NEW x \in Audits, exec[x].at = "idle", UNCHANGED run,
         NEW kind, NEW place, NEW ids, Start(x, kind, place, ids), place # "ssh"
  PROVE  RunsEffect
<1>1. /\ DOMAIN exec' = Audits /\ \A y \in Audits \ {x} : exec'[y] = exec[y]
      /\ DOMAIN exec'[x] = DOMAIN NoExec
  BY DEF AuditsSafe, AuditsShaped, Start, NoExec
<1> QED
  BY <1>1, AuditMoves

\* An audit stops: nothing is left for it to do.
LEMMA AuditStops ==
  ASSUME AuditsSafe, NEW x \in Audits, exec[x].at \in {"number", "next", "report"}, UNCHANGED run,
         Stop(x, "done")
  PROVE  RunsEffect
<1>1. /\ DOMAIN exec' = Audits /\ \A y \in Audits \ {x} : exec'[y] = exec[y]
      /\ DOMAIN exec'[x] = DOMAIN NoExec /\ exec'[x].at = "done" /\ exec'[x].todo = {}
  BY DEF AuditsSafe, AuditsShaped, Stop, NoExec
<1> QED
  BY <1>1, AuditMoves

\* The gate goes back only from who has it.
LEMMA Dropped ==
  ASSUME NEW x \in Audits, DropGate(x) PROVE GateEffect
BY Gates DEF DropGate, GateEffect

LEMMA Held ==
  ASSUME NEW x \in Audits, Admitted(x), HoldGate(x)
  PROVE  GateEffect /\ (gate = "deletion" => exec[x].kind = "scheduled")
BY Gates DEF Admitted, HoldGate, Gated, MayTakeGate, GateEffect

LEMMA ListEffect ==
  ASSUME AuditsSafe, NEW x \in Audits, ListDevices(x) PROVE RunsEffect /\ GateEffect
<1>1. /\ DOMAIN exec' = Audits /\ \A y \in Audits \ {x} : exec'[y] = exec[y]
      /\ DOMAIN exec'[x] = DOMAIN NoExec /\ exec[x].at = "list" /\ UNCHANGED run
  BY DEF AuditsSafe, AuditsShaped, ListDevices
<1> QED
  BY <1>1, AuditMoves, Held DEF ListDevices

LEMMA BatchEffect ==
  ASSUME AuditsSafe, NEW x \in Audits, CommitBatch(x) PROVE RunsEffect /\ GateEffect
<1>1. exec[x].at = "number" /\ UNCHANGED run /\ DropGate(x)
  BY DEF CommitBatch, Raise
<1>2. CASE Stop(x, "done")
  BY <1>1, <1>2, AuditStops, Dropped
<1>3. CASE exec' = [exec EXCEPT ![x].at = "next"]
  <2>1. /\ DOMAIN exec' = Audits /\ \A y \in Audits \ {x} : exec'[y] = exec[y]
        /\ DOMAIN exec'[x] = DOMAIN NoExec
    BY <1>3 DEF AuditsSafe, AuditsShaped
  <2> QED
    BY <1>1, <2>1, AuditMoves, Dropped
<1> QED
  BY <1>2, <1>3 DEF CommitBatch, Raise

LEMMA ConcludeEffect ==
  ASSUME AuditsSafe, NEW x \in Audits, FinishBatch(x) PROVE RunsEffect /\ GateEffect
<1>1. exec[x].at = "next" /\ UNCHANGED <<run, gate>>
  BY DEF FinishBatch, inventory
<1>2. CASE Stop(x, "done")
  BY <1>1, <1>2, AuditStops DEF GateEffect
<1>3. CASE exec' = [exec EXCEPT ![x].at = "report"]
  <2>1. /\ DOMAIN exec' = Audits /\ \A y \in Audits \ {x} : exec'[y] = exec[y]
        /\ DOMAIN exec'[x] = DOMAIN NoExec /\ exec'[x].at = "report" /\ exec'[x].todo = exec[x].todo
    BY <1>3 DEF AuditsSafe, AuditsShaped, NoExec
  <2> QED
    BY <1>1, <2>1, AuditMoves DEF GateEffect
<1> QED
  BY <1>2, <1>3 DEF FinishBatch

\* The one step that makes a run: its device was still to be audited.
LEMMA BeginEffect ==
  ASSUME AuditsSafe, NEW x \in Audits, NEW d \in Devices, BeginRun(x, d)
  PROVE  RunsEffect /\ GateEffect
<1>1. CASE d \in DOMAIN device
  <2>1. /\ exec[x].at = "next" /\ d \in exec[x].todo
        /\ NewRun(x, d) /\ HoldGate(x) /\ Admitted(x)
        /\ exec' = [exec EXCEPT ![x].at = "ssh", ![x].current = d]
    BY <1>1 DEF BeginRun
  <2>2. /\ DOMAIN exec' = Audits /\ \A y \in Audits \ {x} : exec'[y] = exec[y]
        /\ DOMAIN exec'[x] = DOMAIN NoExec /\ exec'[x].at = "ssh" /\ exec'[x].current = d
        /\ exec'[x].todo = exec[x].todo /\ exec'[x].kind = exec[x].kind
    BY <2>1 DEF AuditsSafe, AuditsShaped, NoExec
  <2>3. /\ \A k \in DOMAIN run : k[1] \in Audits /\ k = <<k[1], k[2]>>
        /\ \A k \in DOMAIN run : k[1] = x => run[k].status # "running" /\ k[2] \notin exec[x].todo
    BY <2>1 DEF AuditsSafe, AuditsShaped, OpenRunIsCurrent, RunsAreDone, Working
  <2>4. /\ DOMAIN run' = DOMAIN run \cup {<<x, d>>} /\ <<x, d>> \notin DOMAIN run
        /\ \A k \in DOMAIN run : run'[k] = run[k]
        /\ run'[<<x, d>>] = [linked |-> TRUE, status |-> "running"]
    BY <2>1, <2>3 DEF NewRun
  <2>5. AuditsShaped'
    BY <2>2, <2>4 DEF AuditsSafe, AuditsShaped
  <2>6. RunsAreDone'
    BY <2>1, <2>2, <2>3, <2>4 DEF AuditsSafe, RunsAreDone
  <2>7. OpenRunIsCurrent'
    BY <2>1, <2>2, <2>3, <2>4 DEF AuditsSafe, OpenRunIsCurrent, Working
  <2>8. GateEffect /\ (gate = "deletion" => exec[x].kind = "scheduled")
    BY <2>1, Held
  <2>9. \A k \in DOMAIN run : run'[k] = run[k] /\ exec'[k[1]].kind = exec[k[1]].kind
    BY <2>2, <2>3, <2>4
  <2>10. gate = "deletion" => \A k \in DOMAIN run' \ DOMAIN run : exec'[k[1]].kind = "scheduled"
    BY <2>2, <2>4, <2>8
  <2> QED
    BY <2>4, <2>5, <2>6, <2>7, <2>8, <2>9, <2>10 DEF RunsEffect
<1>2. CASE d \notin DOMAIN device
  BY <1>2, AuditStops, Dropped DEF BeginRun, Raise
<1> QED
  BY <1>1, <1>2

\* The open run is settled, or left open on a device that is gone.
LEMMA SettleEffect ==
  ASSUME AuditsSafe, NEW x \in Audits, FinishRun(x) \/ LoseDevice(x)
  PROVE  RunsEffect /\ GateEffect
<1>1. exec[x].at = "ssh" /\ DropGate(x)
  BY DEF FinishRun, LoseDevice, Raise
<1>2. /\ DOMAIN exec' = Audits /\ \A y \in Audits \ {x} : exec'[y] = exec[y]
      /\ DOMAIN exec'[x] = DOMAIN NoExec /\ exec'[x].at \in {"next", "done"}
      /\ exec'[x].todo \subseteq exec[x].todo \ {exec[x].current}
  <2>1. CASE FinishRun(x)
    BY <2>1 DEF AuditsSafe, AuditsShaped, NoExec, FinishRun
  <2>2. CASE LoseDevice(x)
    BY <2>2 DEF AuditsSafe, AuditsShaped, NoExec, LoseDevice, Raise, Stop
  <2> QED
    BY <2>1, <2>2
<1>3. /\ \A k \in DOMAIN run : k[1] \in Audits /\ k = <<k[1], k[2]>>
      /\ \A k \in DOMAIN run : k[1] = x /\ run[k].status = "running" => k = <<x, exec[x].current>>
      /\ \A k \in DOMAIN run : k[1] = x /\ k[2] \in exec[x].todo => k[2] = exec[x].current
  BY <1>1 DEF AuditsSafe, AuditsShaped, OpenRunIsCurrent, RunsAreDone, Working
<1>4. /\ DOMAIN run' = DOMAIN run
      /\ \A k \in DOMAIN run : /\ DOMAIN run'[k] = {"linked", "status"} /\ run'[k].linked = run[k].linked
                               /\ run'[k].status = "running" => run[k].status = "running"
                               /\ k[1] = x /\ run'[k].status = "running" => exec[x].current \notin DOMAIN device
                                                                             /\ exec'[x].at = "done"
  <2>1. CASE FinishRun(x)
    <3>1. PICK status \in {"completed", "failed"} : SetRun(x, status)
      BY <2>1 DEF FinishRun
    <3>2. \A k \in DOMAIN run : k = <<x, exec[x].current>> => run'[k].status # "running"
      BY <3>1 DEF SetRun, AuditsSafe, AuditsShaped
    <3> QED
      BY <1>3, <3>1, <3>2 DEF SetRun, AuditsSafe, AuditsShaped
  <2>2. CASE LoseDevice(x)
    BY <2>2 DEF LoseDevice, Raise, Stop, SetRun, AuditsSafe, AuditsShaped, NoExec
  <2> QED
    BY <2>1, <2>2
<1>5. AuditsShaped'
  BY <1>2, <1>4 DEF AuditsSafe, AuditsShaped
<1>6. RunsAreDone'
  BY <1>1, <1>2, <1>3, <1>4 DEF AuditsSafe, RunsAreDone
<1>7. OpenRunIsCurrent'
  <2>1. ASSUME NEW k \in DOMAIN run, run'[k].status = "running", Working(k[1])'
        PROVE  exec'[k[1]].at = "ssh" /\ exec'[k[1]].current = k[2]
    <3>1. k[1] # x
      BY <1>4, <2>1 DEF Working
    <3>2. exec'[k[1]] = exec[k[1]] /\ run[k].status = "running"
      BY <1>2, <1>3, <1>4, <2>1, <3>1
    <3> QED
      BY <2>1, <3>2 DEF AuditsSafe, OpenRunIsCurrent, Working
  <2> QED
    BY <1>4, <2>1 DEF OpenRunIsCurrent
<1>8. RunsEffect
  BY <1>2, <1>3, <1>4, <1>5, <1>6, <1>7 DEF RunsEffect
<1> QED
  BY <1>1, <1>8, Dropped

-----------------------------------------------------------------------------
(* The slots of the poll *)

\* The slot that is due is the last of its time of day up to now.
LEMMA SlotsInOrder ==
  ASSUME NEW t \in Nat, settings.time \in {0, 1}
  PROVE  /\ DueSlot(t) \in Int /\ DueSlot(t) <= t
         /\ \A c \in Int : c <= t /\ TimeOf(c) = settings.time => c <= DueSlot(t)
<1>1. PICK n \in Nat, r \in {0, 1} : t = 2 * n + r
  <2>1. t \div 2 \in Nat /\ (t % 2) \in {0, 1} /\ t = 2 * (t \div 2) + (t % 2)
    OBVIOUS
  <2> QED
    BY <2>1
<1>2. Occurrence(t) = 2 * n + settings.time
  BY <1>1 DEF Occurrence, DayOf
<1>3. DueSlot(t) \in Int /\ DueSlot(t) <= t
  BY <1>1, <1>2 DEF DueSlot
<1>4. ASSUME NEW c \in Int, c <= t, TimeOf(c) = settings.time PROVE c <= DueSlot(t)
  <2>1. PICK m \in Int : c = 2 * m + settings.time
    <3>1. c \div 2 \in Int /\ c = 2 * (c \div 2) + (c % 2)
      OBVIOUS
    <3> QED
      BY <1>4, <3>1 DEF TimeOf
  <2> QED
    BY <1>1, <1>2, <1>4, <2>1 DEF DueSlot
<1> QED
  BY <1>3, <1>4

\* What is due lies beyond the slot that is stored.
LEMMA DueIsNew ==
  ASSUME ClaimsAreBehind, ShouldRunNow(settings.slot), settings.slot \in Int
  PROVE  DueSlot(now) > settings.slot
<1>1. now \in Nat /\ settings.time \in {0, 1} /\ DueSlot(now) \in Int /\ settings.slot # None
  BY SlotsInOrder, AuditsAssumption DEF ClaimsAreBehind
<1>2. CASE settings.zoned
  BY <1>1, <1>2 DEF ShouldRunNow
<1>3. CASE ~settings.zoned
  <2>1. now >= Occurrence(now) /\ DayOf(settings.slot) < DayOf(now)
    BY <1>1, <1>3 DEF ShouldRunNow
  <2>2. DueSlot(now) = 2 * DayOf(now) + settings.time
    BY <2>1 DEF DueSlot, Occurrence
  <2>3. DayOf(settings.slot) \in Int /\ DayOf(now) \in Int /\ settings.slot <= 2 * DayOf(settings.slot) + 1
    BY <1>1 DEF DayOf
  <2> QED
    BY <1>1, <2>1, <2>2, <2>3
<1> QED
  BY <1>2, <1>3

LEMMA ClaimsStay ==
  ASSUME ClaimsAreBehind, UNCHANGED <<now, slotVars>>,
         DOMAIN settings' = DOMAIN settings, settings'.slot = settings.slot, settings'.time \in {0, 1}
  PROVE  ClaimsAreBehind'
BY DEF ClaimsAreBehind, slotVars

\* The poll stores the slot it claims, and what lies beyond that one stays reopened.
LEMMA ClaimsMove ==
  ASSUME ClaimsAreBehind, NEW x \in Audits, ClaimSlot(x) PROVE ClaimsAreBehind'
<1>1. /\ now \in Nat /\ settings.time \in {0, 1} /\ now' = now
      /\ DueSlot(now) \in Int /\ DueSlot(now) <= now
  BY SlotsInOrder DEF ClaimsAreBehind, ClaimSlot
<1>2. PICK due \in Int : due = DueSlot(now)
  BY <1>1
<1>3. /\ DOMAIN settings' = DOMAIN settings /\ settings'.slot = due /\ settings'.time = settings.time
      /\ claimed' = claimed \cup {due} /\ reopened' = {c \in reopened : c > due}
  BY <1>2 DEF ClaimSlot, ClaimsAreBehind
<1>4. settings.slot \in Int => due > settings.slot
  BY <1>2, DueIsNew DEF ClaimSlot
<1>5. reopened' = {c \in claimed' : c > due}
  <2>1. CASE claimed = {}
    BY <1>3, <2>1 DEF ClaimsAreBehind
  <2>2. CASE claimed # {}
    <3>1. settings.slot \in Int /\ due > settings.slot
      BY <1>4, <2>2 DEF ClaimsAreBehind
    <3>2. \A c \in claimed : c \in Int
      BY DEF ClaimsAreBehind
    <3> QED
      BY <1>3, <3>1, <3>2 DEF ClaimsAreBehind
  <2> QED
    BY <2>1, <2>2
<1>6. \A c \in claimed' : c \in Int /\ c <= now'
  BY <1>1, <1>2, <1>3 DEF ClaimsAreBehind
<1> QED
  BY <1>1, <1>3, <1>5, <1>6 DEF ClaimsAreBehind

\* Run Now stores what is due, or now: what was claimed beyond it is open again.
LEMMA ClaimsReopen ==
  ASSUME ClaimsAreBehind, NEW x \in Audits, RunNow(x)
  PROVE  ClaimsAreBehind' /\ \A c \in reopened' : TimeOf(c) # settings.time
<1>1. /\ now \in Nat /\ settings.time \in {0, 1} /\ now' = now /\ UNCHANGED claimed
      /\ DueSlot(now) \in Int /\ DueSlot(now) <= now
      /\ \A c \in Int : c <= now /\ TimeOf(c) = settings.time => c <= DueSlot(now)
  BY SlotsInOrder DEF ClaimsAreBehind, RunNow
<1>2. /\ DOMAIN settings' = DOMAIN settings /\ settings'.slot \in {DueSlot(now), now}
      /\ settings'.time = settings.time /\ reopened' = {c \in claimed : c > settings'.slot}
  BY DEF RunNow, ClaimsAreBehind
<1>3. settings'.slot \in Int /\ DueSlot(now) <= settings'.slot
  BY <1>1, <1>2
<1>4. ClaimsAreBehind'
  BY <1>1, <1>2, <1>3 DEF ClaimsAreBehind
<1>5. ASSUME NEW c \in reopened', TimeOf(c) = settings.time PROVE FALSE
  <2>1. c \in Int /\ c <= now /\ c > settings'.slot
    BY <1>2, <1>5 DEF ClaimsAreBehind
  <2>2. c <= DueSlot(now)
    BY <1>1, <1>5, <2>1
  <2> QED
    BY <1>1, <1>3, <2>1, <2>2
<1> QED
  BY <1>4, <1>5

LEMMA ClaimsTick == ASSUME ClaimsAreBehind, Tick PROVE ClaimsAreBehind'
<1>1. now \in Nat /\ now' = now + 1 /\ UNCHANGED <<settings, slotVars>>
  BY DEF ClaimsAreBehind, Tick
<1>2. \A c \in claimed : c \in Int /\ c <= now + 1
  BY <1>1 DEF ClaimsAreBehind
<1> QED
  BY <1>1, <1>2 DEF ClaimsAreBehind, slotVars

-----------------------------------------------------------------------------
(* The steps of the audits together *)

InventoryStays == UNCHANGED <<device, retired, groups, at, work>>

LEMMA SecurityEffect ==
  ASSUME AuditsSafe, ClaimsAreBehind, SecurityStep
  PROVE  RunsEffect /\ GateEffect /\ ClaimsAreBehind' /\ InventoryStays
<1> USE DEF InventoryStays, Others, inventory
<1>a. ASSUME UNCHANGED <<run, exec>> PROVE RunsEffect
  BY <1>a DEF RunsEffect, AuditsSafe, AuditsShaped, RunsAreDone, OpenRunIsCurrent, Working
<1>b. ASSUME UNCHANGED gate PROVE GateEffect
  BY <1>b DEF GateEffect
<1>c. ASSUME gate = None PROVE GateEffect
  BY <1>c, Gates DEF GateEffect
<1>d. ASSUME NEW status, settings' = [settings EXCEPT !.status = status]
      PROVE  /\ DOMAIN settings' = DOMAIN settings
             /\ settings'.slot = settings.slot /\ settings'.time \in {0, 1}
  BY <1>d DEF ClaimsAreBehind
<1>1. CASE Tick
  BY <1>1, <1>a, <1>b, ClaimsTick DEF Tick
<1>2. CASE Recover
  BY <1>2, <1>a, <1>b, <1>d, ClaimsStay DEF Recover
<1>3. ASSUME NEW x \in Audits, ClaimSlot(x) PROVE RunsEffect /\ GateEffect /\ ClaimsAreBehind' /\ InventoryStays
  <2>1. RunsEffect
    <3>1. CASE Start(x, "scheduled", "list", Devices)
      BY <1>3, <3>1, AuditStarts DEF ClaimSlot
    <3> QED
      BY <1>3, <3>1, <1>a DEF ClaimSlot
  <2> QED
    BY <1>3, <2>1, <1>b, ClaimsMove DEF ClaimSlot
<1>4. ASSUME NEW x \in Audits, RunNow(x) PROVE RunsEffect /\ GateEffect /\ ClaimsAreBehind' /\ InventoryStays
  BY <1>4, <1>b, ClaimsReopen, AuditStarts DEF RunNow
<1>5. ASSUME NEW x \in Audits, BulkAudit(x) \/ LiveAudit(x)
      PROVE  RunsEffect /\ GateEffect /\ ClaimsAreBehind' /\ InventoryStays
  <2>1. RunsEffect
    BY <1>5, AuditStarts DEF BulkAudit, LiveAudit
  <2>2. ClaimsAreBehind'
    BY <1>5, ClaimsStay DEF BulkAudit, LiveAudit, ClaimsAreBehind
  <2> QED
    BY <1>5, <2>1, <2>2, <1>c DEF BulkAudit, LiveAudit
<1>f. UNCHANGED <<settings, now, slotVars>> => ClaimsAreBehind'
  BY ClaimsStay DEF ClaimsAreBehind
<1>6. ASSUME NEW x \in Audits, ListDevices(x) PROVE RunsEffect /\ GateEffect /\ ClaimsAreBehind' /\ InventoryStays
  BY <1>6, <1>f, ListEffect DEF ListDevices
<1>e. ASSUME NEW x \in Audits, Raise(x) PROVE /\ DOMAIN settings' = DOMAIN settings
                                              /\ settings'.slot = settings.slot /\ settings'.time \in {0, 1}
  BY <1>e, <1>d DEF Raise, ClaimsAreBehind
<1>7. ASSUME NEW x \in Audits, CommitBatch(x) PROVE RunsEffect /\ GateEffect /\ ClaimsAreBehind' /\ InventoryStays
  BY <1>7, <1>e, <1>f, BatchEffect, ClaimsStay DEF CommitBatch
<1>8. ASSUME NEW x \in Audits, NEW d \in Devices, BeginRun(x, d)
      PROVE  RunsEffect /\ GateEffect /\ ClaimsAreBehind' /\ InventoryStays
  BY <1>8, <1>e, <1>f, BeginEffect, ClaimsStay DEF BeginRun
<1>9. ASSUME NEW x \in Audits, FinishRun(x) \/ LoseDevice(x)
      PROVE  RunsEffect /\ GateEffect /\ ClaimsAreBehind' /\ InventoryStays
  BY <1>9, <1>e, <1>f, SettleEffect, ClaimsStay DEF FinishRun, LoseDevice
<1>10. ASSUME NEW x \in Audits, FinishBatch(x) PROVE RunsEffect /\ GateEffect /\ ClaimsAreBehind' /\ InventoryStays
  BY <1>10, <1>f, ConcludeEffect DEF FinishBatch
<1>11. ASSUME NEW x \in Audits, ReportBatch(x) PROVE RunsEffect /\ GateEffect /\ ClaimsAreBehind' /\ InventoryStays
  BY <1>11, <1>b, <1>d, AuditStops, ClaimsStay DEF ReportBatch
<1> QED
  BY <1>1, <1>2, <1>3, <1>4, <1>5, <1>6, <1>7, <1>8, <1>9, <1>10, <1>11
  DEF SecurityStep, StartAudit, AuditStep

-----------------------------------------------------------------------------
(* A deletion beside everything else *)

\* Without a deletion, or without its gate, there is nothing to keep.
LEMMA NoDeletionStands ==
  ASSUME deletion' = NoDeletion PROVE DeletionStands' /\ DeletionHoldsGate'
BY DEF DeletionStands, DeletionHoldsGate

LEMMA FreeGate ==
  ASSUME DeletionHoldsGate, gate = None \/ gate \in Tasks \/ gate \in Audits PROVE deletion = NoDeletion
BY Gates DEF DeletionHoldsGate

\* What goes on beside a deletion keeps what it has established.
LEMMA DeletionGoesOn ==
  ASSUME DeletionStands, DeletionHoldsGate, UNCHANGED <<deletion, policy>>,
         gate = "deletion" => gate' = "deletion",
         gate = "deletion" =>
           /\ DOMAIN device \subseteq DOMAIN device'
           /\ \A d \in DOMAIN device : device'[d] = device[d]
           /\ DOMAIN job' = DOMAIN job /\ linked' = linked
           /\ \A j \in DOMAIN job : job[j] \in Concluded => job'[j] \in Concluded
           /\ DOMAIN run \subseteq DOMAIN run'
           /\ \A k \in DOMAIN run :
                /\ run'[k].status = "running" => run[k].status = "running"
                /\ run'[k].status = "running" /\ k[2] \in DOMAIN device
                     => exec'[k[1]].kind = exec[k[1]].kind
           /\ \A k \in DOMAIN run' \ DOMAIN run : exec'[k[1]].kind = "scheduled"
  PROVE  DeletionStands' /\ DeletionHoldsGate'
<1>1. DeletionHoldsGate'
  BY DEF DeletionHoldsGate
<1>2. ASSUME deletion # NoDeletion PROVE DeletionStands'
  <2>1. gate = "deletion" /\ deletion.ids \subseteq DOMAIN device /\ deletion.runs \subseteq DOMAIN run
    BY <1>2 DEF DeletionHoldsGate, DeletionStands
  <2>2. RemovesWhatItSaw'
    BY <1>2 DEF DeletionStands, RemovesWhatItSaw
  <2>3. ASSUME deletion.op # "cleanup" PROVE JobsHaveConcluded' /\ RunsAreLater' /\ ScopesAreKept'
    <3>1. JobsHaveConcluded /\ RunsAreLater /\ ScopesAreKept
      BY <1>2, <2>3 DEF DeletionStands
    <3>2. JobsHaveConcluded'
      BY <2>1, <3>1 DEF JobsHaveConcluded
    <3>3. RunsAreLater'
      BY <2>1, <3>1 DEF RunsAreLater
    <3>4. ASSUME NEW g, Members(g)' \subseteq deletion.ids, Members(g) \subseteq deletion.ids => Members(g) = {}
          PROVE  Members(g)' = {}
      <4>1. Members(g)' = Members(g)
        BY <2>1, <3>4 DEF Members
      <4> QED
        BY <3>4, <4>1
    <3>5. ScopesAreKept'
      BY <3>1, <3>4 DEF ScopesAreKept
    <3> QED
      BY <3>2, <3>3, <3>5
  <2> QED
    BY <2>1, <2>2, <2>3 DEF DeletionStands
<1> QED
  BY <1>1, <1>2, NoDeletionStands

\* A deletion begins: under the gate it finds what it needs, or is refused.
LEMMA DeletionBegins ==
  ASSUME FleetSafe, NEW ids \in SUBSET DOMAIN device,
         NEW op \in {"delete", "cleanup", "cleanup_delete", "device_delete"},
         op = "delete" \/ review.report = Inspect(ids),
         Inspected(op, ids)
  PROVE  DeletionStands' /\ DeletionHoldsGate'
<1> DEFINE seen == IF op = "delete" THEN <<>> ELSE review.report.policies
<1>1. /\ Permitted(op, ids)
      /\ deletion' = [ids |-> ids, op |-> op, remove |-> Removed(op, ids), runs |-> DOMAIN run, seen |-> seen]
      /\ gate' = "deletion"
      /\ UNCHANGED <<device, job, linked, run, exec, policy>>
  BY DEF Inspected, Others, jobVars, auditVars
<1>2. /\ deletion'.ids = ids /\ deletion'.op = op /\ deletion'.remove = Removed(op, ids)
      /\ deletion'.runs = DOMAIN run /\ deletion'.seen = seen
  BY <1>1
<1>3. RemovesWhatItSaw'
  <2>1. CASE op = "delete"
    BY <1>2, <2>1 DEF RemovesWhatItSaw, Removed
  <2>2. CASE op # "delete"
    <3>1. seen = [p \in DirectPolicies(ids) \cup EmptiedPolicies(ids) |-> policy[p]]
      BY <2>2 DEF Inspect
    <3>2. Removed(op, ids) \subseteq DirectPolicies(ids) \cup EmptiedPolicies(ids)
      BY <2>2 DEF Removed
    <3> HIDE DEF seen
    <3> QED
      BY <1>1, <1>2, <3>1, <3>2 DEF RemovesWhatItSaw
  <2> QED
    BY <2>1, <2>2
<1>4. ASSUME op # "cleanup" PROVE JobsHaveConcluded' /\ RunsAreLater' /\ ScopesAreKept'
  <2>1. WorkUnderWay(ids) = {}
    BY <1>1, <1>4 DEF Permitted
  <2>2. \A l \in linked : l[2] \in ids => job[l[1]] \in Concluded
    BY <2>1 DEF WorkUnderWay
  <2>3. JobsHaveConcluded'
    BY <1>1, <1>2, <2>2 DEF JobsHaveConcluded
  <2>4. \A k \in DOMAIN run : ~(k[2] \in ids /\ run[k].linked /\ run[k].status = "running")
    BY <2>1 DEF WorkUnderWay
  <2>5. \A k \in DOMAIN run : k[2] \in ids => run[k].linked
    BY DEF FleetSafe, DeletedStayDeleted
  <2>6. RunsAreLater'
    BY <1>1, <1>2, <2>4, <2>5 DEF RunsAreLater
  <2>7. DirectPolicies(ids) \cup EmptiedPolicies(ids) \subseteq Removed(op, ids)
    <3>1. op = "cleanup_delete" => EmptiedPolicies(ids) \subseteq DirectPolicies(ids)
      BY <1>1 DEF Permitted
    <3>2. op = "delete" => DirectPolicies(ids) \cup EmptiedPolicies(ids) = {}
      BY <1>1 DEF Permitted
    <3> QED
      BY <1>4, <3>1, <3>2 DEF Removed
  <2>8. \A g : Members(g)' = Members(g)
    BY <1>1 DEF Members
  <2>9. \A p \in DOMAIN policy \ Removed(op, ids) :
          /\ policy[p].ref \notin {<<"device", d>> : d \in ids}
          /\ policy[p].enabled /\ policy[p].ref[1] = "group" /\ Members(policy[p].ref[2]) \subseteq ids
               => Members(policy[p].ref[2]) = {}
    BY <2>7 DEF DirectPolicies, EmptiedPolicies
  <2>10. ScopesAreKept'
    BY <1>1, <1>2, <2>8, <2>9 DEF ScopesAreKept
  <2> QED
    BY <2>3, <2>6, <2>10
<1> QED
  BY <1>1, <1>2, <1>3, <1>4 DEF DeletionStands, DeletionHoldsGate

-----------------------------------------------------------------------------
(* Every step keeps the invariant *)

\* Definitions of each part of the state, for steps that leave that part alone.
TaskPart  == TasksShaped /\ RequestHoldsGate
JobPart   == JobsShaped /\ ConcludedIsOver
AuditPart == AuditsSafe /\ ClaimsAreBehind

LEMMA Parts ==
  FleetSafe <=> /\ TaskPart /\ JobPart /\ AuditPart /\ PoliciesShaped
                /\ DeletedStayDeleted /\ DeletionHoldsGate /\ DeletionStands
BY DEF FleetSafe, TaskPart, JobPart, AuditPart, AuditsSafe

LEMMA TasksStay ==
  ASSUME TaskPart, UNCHANGED <<at, work>>, \A t \in Tasks : gate = t => gate' = t PROVE TaskPart'
BY DEF TaskPart, TasksShaped, RequestHoldsGate, Requested

LEMMA JobsStay == ASSUME JobPart, UNCHANGED <<job, runner>> PROVE JobPart'
BY DEF JobPart, JobsShaped, ConcludedIsOver

LEMMA RunsStay == ASSUME AuditsSafe, UNCHANGED <<run, exec>> PROVE AuditsSafe'
BY DEF AuditsSafe, AuditsShaped, RunsAreDone, OpenRunIsCurrent, Working

LEMMA AuditsStay == ASSUME AuditPart, UNCHANGED auditVars PROVE AuditPart'
<1>1. ClaimsAreBehind'
  BY ClaimsStay DEF AuditPart, auditVars, ClaimsAreBehind
<1> QED
  BY <1>1, RunsStay DEF AuditPart, auditVars

LEMMA DevicesStay ==
  ASSUME DeletedStayDeleted, DOMAIN device' \cap retired' = {}, retired \subseteq retired',
         DOMAIN device' \subseteq Devices, groups' \subseteq Groups, UNCHANGED run
  PROVE  DeletedStayDeleted'
BY DEF DeletedStayDeleted

LEMMA InventoryKeeps ==
  ASSUME FleetSafe, InventoryStep, UNCHANGED <<jobVars, auditVars, fleetVars>> PROVE FleetSafe'
<1>1. TaskEffect
  BY InventoryEffect DEF FleetSafe, DeletedStayDeleted
<1>2. UNCHANGED <<job, linked, runner, run, exec, policy, deletion>>
  BY DEF jobVars, auditVars, fleetVars
<1>3. TaskPart' /\ JobPart' /\ AuditPart'
  BY <1>1, <1>2, Parts, JobsStay, AuditsStay DEF TaskPart, TaskEffect
<1>4. DeletedStayDeleted' /\ PoliciesShaped'
  BY <1>1, <1>2, DevicesStay DEF FleetSafe, TaskEffect, PoliciesShaped
<1>5. DeletionStands' /\ DeletionHoldsGate'
  BY <1>1, <1>2, DeletionGoesOn DEF FleetSafe, TaskEffect
<1> QED
  BY <1>3, <1>4, <1>5, Parts DEF FleetSafe, TaskPart, JobPart, AuditPart, AuditsSafe

LEMMA CommandKeeps ==
  ASSUME FleetSafe, CommandStep, UNCHANGED <<auditVars, fleetVars>> PROVE FleetSafe'
<1>1. JobEffect
  BY CommandEffect DEF FleetSafe
<1>2. UNCHANGED <<run, exec, policy, deletion>>
  BY DEF auditVars, fleetVars
<1>3. UNCHANGED inventory
  BY DEF CommandStep, StartJob, JobStep, CreateJob, RunJob, FinishJob, Connect, CommandsSent,
         TargetFails, TargetCompletes
<1>4. UNCHANGED <<device, retired, groups, gate, at, work>>
  BY <1>3 DEF inventory
<1>5. TaskPart' /\ JobPart' /\ AuditPart'
  BY <1>1, <1>4, Parts, TasksStay, AuditsStay DEF JobPart, JobEffect
<1>6. DeletedStayDeleted' /\ PoliciesShaped'
  BY <1>2, <1>4 DEF FleetSafe, DeletedStayDeleted, PoliciesShaped
<1>7. DeletionStands' /\ DeletionHoldsGate'
  BY <1>1, <1>2, <1>4, Gates, DeletionGoesOn DEF FleetSafe, JobEffect
<1> QED
  BY <1>5, <1>6, <1>7 DEF FleetSafe, TaskPart, JobPart, AuditPart, AuditsSafe

LEMMA SecurityKeeps ==
  ASSUME FleetSafe, SecurityStep, UNCHANGED <<jobVars, fleetVars>> PROVE FleetSafe'
<1>1. RunsEffect /\ GateEffect /\ ClaimsAreBehind' /\ InventoryStays
  BY SecurityEffect DEF FleetSafe, AuditsSafe
<1>2. UNCHANGED <<job, linked, runner, policy, deletion, device, retired, groups, at, work>>
  BY <1>1 DEF jobVars, fleetVars, InventoryStays
<1>3. TaskPart' /\ JobPart' /\ AuditPart'
  BY <1>1, <1>2, Parts, TasksStay, JobsStay DEF AuditPart, AuditsSafe, RunsEffect, GateEffect
<1>4. DeletedStayDeleted' /\ PoliciesShaped'
  BY <1>1, <1>2 DEF FleetSafe, DeletedStayDeleted, PoliciesShaped, RunsEffect
<1>5. DeletionStands' /\ DeletionHoldsGate'
  BY <1>1, <1>2, DeletionGoesOn DEF FleetSafe, RunsEffect, GateEffect
<1> QED
  BY <1>3, <1>4, <1>5 DEF FleetSafe, TaskPart, JobPart, AuditPart, AuditsSafe

\* Edits other than deletions need the gate, so that no deletion is under way.
LEMMA EditKeeps == ASSUME FleetSafe, Edit PROVE FleetSafe'
<1> USE Gates
<1>a. ASSUME gate = None, UNCHANGED <<deletion, gate>> PROVE DeletionStands' /\ DeletionHoldsGate'
  <2>1. deletion' = NoDeletion
    BY <1>a, FreeGate DEF FleetSafe
  <2> QED
    BY <2>1, NoDeletionStands
<1>2. ASSUME ChangeLicence, UNCHANGED <<jobVars, auditVars, policy, review, deletion>>
      PROVE  FleetSafe'
  <2>1. gate = None /\ UNCHANGED <<device, retired, groups, gate, at, work>>
    BY <1>2 DEF ChangeLicence
  <2>2. UNCHANGED <<job, runner, run>>
    BY <1>2 DEF jobVars, auditVars
  <2>3. TaskPart' /\ JobPart' /\ AuditPart'
    BY <1>2, <2>1, <2>2, Parts, TasksStay, JobsStay, AuditsStay
  <2>4. DeletedStayDeleted' /\ PoliciesShaped'
    BY <1>2, <2>1, <2>2 DEF FleetSafe, DeletedStayDeleted, PoliciesShaped
  <2> QED
    BY <1>2, <1>a, <2>1, <2>3, <2>4 DEF FleetSafe, TaskPart, JobPart, AuditPart, AuditsSafe
<1>3. ASSUME UpdateSchedule \/ SaveCredentials, UNCHANGED <<jobVars, policy, review, deletion>>
      PROVE  FleetSafe'
  <2>1. gate = None /\ UNCHANGED <<device, retired, groups, gate, at, work, run, exec, now, slotVars>>
    BY <1>3 DEF UpdateSchedule, SaveCredentials, inventory
  <2>2. UNCHANGED <<job, runner>>
    BY <1>3 DEF jobVars
  <2>3. DOMAIN settings' = DOMAIN settings /\ settings'.slot = settings.slot /\ settings'.time \in {0, 1}
    BY <1>3 DEF UpdateSchedule, SaveCredentials, FleetSafe, ClaimsAreBehind
  <2>4. TaskPart' /\ JobPart' /\ AuditPart'
    BY <2>1, <2>2, <2>3, Parts, TasksStay, JobsStay, RunsStay, ClaimsStay DEF AuditPart
  <2>5. DeletedStayDeleted' /\ PoliciesShaped'
    BY <1>3, <2>1 DEF FleetSafe, DeletedStayDeleted, PoliciesShaped
  <2> QED
    BY <1>3, <1>a, <2>1, <2>4, <2>5 DEF FleetSafe, TaskPart, JobPart, AuditPart, AuditsSafe
<1>4. CASE SavePolicy
  <2>1. /\ gate = None
        /\ UNCHANGED <<device, retired, groups, gate, at, work, job, runner, run, deletion, auditVars>>
    BY <1>4 DEF SavePolicy, inventory, jobVars, auditVars
  <2>2. TaskPart' /\ JobPart' /\ AuditPart'
    BY <2>1, Parts, TasksStay, JobsStay, AuditsStay
  <2>3. PoliciesShaped'
    BY <1>4 DEF SavePolicy, FleetSafe, PoliciesShaped
  <2>4. DeletedStayDeleted'
    BY <2>1 DEF FleetSafe, DeletedStayDeleted
  <2> QED
    BY <1>a, <2>1, <2>2, <2>3, <2>4 DEF FleetSafe, TaskPart, JobPart, AuditPart, AuditsSafe
<1>5. CASE DeleteGroup
  <2>1. gate = None /\ UNCHANGED <<gate, at, work, jobVars, auditVars, policy, deletion>>
    BY <1>5 DEF DeleteGroup
  <2>2. /\ DOMAIN device' = DOMAIN device /\ groups' \subseteq groups
        /\ \E g \in groups : retired' = retired \cup {g}
    BY <1>5 DEF DeleteGroup, DropGroup
  <2>3. UNCHANGED <<job, runner, run>>
    BY <2>1 DEF jobVars, auditVars
  <2>4. TaskPart' /\ JobPart' /\ AuditPart'
    BY <2>1, <2>3, Parts, TasksStay, JobsStay, AuditsStay
  <2>5. DeletedStayDeleted'
    BY <2>2, <2>3, InventoryAssumption DEF FleetSafe, DeletedStayDeleted
  <2>6. PoliciesShaped'
    BY <2>1 DEF FleetSafe, PoliciesShaped
  <2> QED
    BY <1>a, <2>1, <2>4, <2>5, <2>6 DEF FleetSafe, TaskPart, JobPart, AuditPart, AuditsSafe
<1>6. ASSUME NEW ids \in SUBSET DOMAIN device,
             NEW op \in {"delete", "cleanup", "cleanup_delete", "device_delete"},
             op = "delete" \/ review.report = Inspect(ids),
             Inspected(op, ids)
      PROVE  FleetSafe'
  <2>1. gate = None /\ UNCHANGED <<device, retired, groups, at, work, jobVars, auditVars, policy>>
    BY <1>6 DEF Inspected, Others
  <2>2. UNCHANGED <<job, runner, run>>
    BY <2>1 DEF jobVars, auditVars
  <2>3. TaskPart' /\ JobPart' /\ AuditPart'
    BY <2>1, <2>2, Parts, TasksStay, JobsStay, AuditsStay
  <2>4. DeletedStayDeleted' /\ PoliciesShaped'
    BY <2>1, <2>2 DEF FleetSafe, DeletedStayDeleted, PoliciesShaped
  <2> QED
    BY <1>6, <2>3, <2>4, DeletionBegins DEF FleetSafe, TaskPart, JobPart, AuditPart, AuditsSafe
<1>7. CASE DeleteDirect
  BY <1>6, <1>7 DEF DeleteDirect
<1>8. ASSUME NEW op \in {"delete", "cleanup", "cleanup_delete", "device_delete"}, ExecuteReviewed(op)
      PROVE  FleetSafe'
  BY <1>6, <1>8 DEF ExecuteReviewed
<1>9. CASE Die
  <2>1. /\ gate' = None /\ deletion' = NoDeletion
        /\ UNCHANGED <<device, retired, groups, job, now, run, slotVars, settings, policy>>
    BY <1>9 DEF Die
  <2>2. TaskPart'
    BY <1>9 DEF Die, LoseTasks, InUse, FleetSafe, TaskPart, TasksShaped, RequestHoldsGate
  <2>3. JobPart'
    BY <1>9, <2>1 DEF Die, LoseRunners, FleetSafe, JobPart, JobsShaped, ConcludedIsOver
  <2>4. /\ DOMAIN exec' = Audits
        /\ \A x \in Audits : IF Working(x) THEN exec'[x] = [NoExec EXCEPT !.at = "lost"] ELSE exec'[x] = exec[x]
    BY <1>9 DEF Die, LoseAudits
  <2>5. \A x \in Audits : /\ DOMAIN exec'[x] = DOMAIN NoExec
                          /\ Working(x) => exec'[x].at = "lost" /\ exec'[x].todo = {}
    BY <2>4 DEF FleetSafe, AuditsShaped, NoExec
  <2>6. AuditsSafe'
    BY <2>1, <2>4, <2>5 DEF FleetSafe, AuditsSafe, AuditsShaped, RunsAreDone, OpenRunIsCurrent, Working
  <2>7. AuditPart'
    BY <2>1, <2>6, ClaimsStay DEF FleetSafe, AuditPart, ClaimsAreBehind
  <2>8. DeletedStayDeleted' /\ PoliciesShaped'
    BY <2>1 DEF FleetSafe, DeletedStayDeleted, PoliciesShaped
  <2> QED
    BY <2>1, <2>2, <2>3, <2>7, <2>8, NoDeletionStands
    DEF FleetSafe, TaskPart, JobPart, AuditPart, AuditsSafe
<1> QED
  BY <1>2, <1>3, <1>4, <1>5, <1>7, <1>8, <1>9 DEF Edit

\* What goes with a deletion.
Gone == IF deletion.op = "cleanup" THEN {} ELSE deletion.ids

LEMMA CommitKeeps == ASSUME FleetSafe, CommitDeletion PROVE FleetSafe'
<1>1. /\ gate = "deletion" /\ gate' = None /\ deletion' = NoDeletion
      /\ DOMAIN device' = DOMAIN device \ Gone /\ retired' = retired \cup Gone
      /\ UNCHANGED <<groups, at, work, job, runner, exec, now, slotVars, settings>>
  BY DEF CommitDeletion, Gone
<1>2. TaskPart'
  BY <1>1, Gates DEF FleetSafe, TaskPart, TasksShaped, RequestHoldsGate, Requested
<1>3. JobPart'
  BY <1>1, Parts, JobsStay
<1>4. run' = [k \in DOMAIN run |-> IF k[2] \in Gone THEN [run[k] EXCEPT !.linked = FALSE] ELSE run[k]]
  BY DEF CommitDeletion, Gone
<1>5. \A k \in DOMAIN run : /\ DOMAIN run'[k] = {"linked", "status"} /\ run'[k].status = run[k].status
                            /\ k[2] \notin Gone => run'[k].linked = run[k].linked
  BY <1>4 DEF FleetSafe, AuditsShaped
<1>6. AuditPart'
  <2>1. DOMAIN run' = DOMAIN run
    BY <1>4
  <2>2. AuditsShaped' /\ RunsAreDone' /\ OpenRunIsCurrent'
    BY <1>1, <1>5, <2>1 DEF FleetSafe, AuditsShaped, RunsAreDone, OpenRunIsCurrent, Working
  <2> QED
    BY <1>1, <2>2, ClaimsStay DEF FleetSafe, AuditPart, AuditsSafe, ClaimsAreBehind
<1>7. DeletedStayDeleted'
  BY <1>1, <1>4, <1>5 DEF FleetSafe, DeletedStayDeleted
<1>8. PoliciesShaped'
  BY DEF FleetSafe, PoliciesShaped, CommitDeletion, Anything, Scopes
<1>9. DeletionStands' /\ DeletionHoldsGate'
  BY <1>1, NoDeletionStands
<1> QED
  BY <1>2, <1>3, <1>6, <1>7, <1>8, <1>9 DEF FleetSafe, TaskPart, JobPart, AuditPart, AuditsSafe

LEMMA StayKeeps ==
  ASSUME FleetSafe, UNCHANGED <<inventory, jobVars, auditVars, policy, deletion>> PROVE FleetSafe'
<1>1. UNCHANGED <<device, retired, groups, gate, at, work, job, linked, runner, run, exec, policy, deletion>>
  BY DEF inventory, jobVars, auditVars
<1>2. TaskPart' /\ JobPart' /\ AuditPart'
  BY <1>1, Parts, TasksStay, JobsStay, AuditsStay
<1>3. DeletedStayDeleted' /\ PoliciesShaped'
  BY <1>1 DEF FleetSafe, DeletedStayDeleted, PoliciesShaped
<1>4. DeletionStands' /\ DeletionHoldsGate'
  BY <1>1, DeletionGoesOn DEF FleetSafe
<1> QED
  BY <1>2, <1>3, <1>4 DEF FleetSafe, TaskPart, JobPart, AuditPart, AuditsSafe

LEMMA FleetStep == ASSUME FleetSafe, [Next]_vars PROVE FleetSafe'
<1>1. CASE Preview
  BY <1>1, StayKeeps DEF Preview
<1>2. CASE UNCHANGED vars
  BY <1>2, StayKeeps DEF vars, fleetVars
<1> QED
  BY <1>1, <1>2, InventoryKeeps, CommandKeeps, SecurityKeeps, EditKeeps, CommitKeeps DEF Next

LEMMA FleetAlwaysSafe == Spec => []FleetSafe
BY FleetInit, FleetStep, PTL DEF Spec

-----------------------------------------------------------------------------
(* The theorems *)

\* What a step does to the rows: only a deletion's commit takes devices away or
\* removes policies, and what else happens while it has the gate adds devices.
LEMMA WhoRemoves ==
  ASSUME FleetSafe, [Next]_vars, ~CommitDeletion
  PROVE  /\ DOMAIN device \subseteq DOMAIN device' /\ DOMAIN policy \subseteq DOMAIN policy'
         /\ gate = "deletion" /\ device' # device
              => /\ policy' = policy /\ groups' = groups
                 /\ \A d \in DOMAIN device : device'[d] = device[d]
<1> USE Gates
<1>1. ASSUME InventoryStep, UNCHANGED fleetVars PROVE
        /\ DOMAIN device \subseteq DOMAIN device' /\ policy' = policy
        /\ gate = "deletion" => groups' = groups /\ \A d \in DOMAIN device : device'[d] = device[d]
  BY <1>1, InventoryEffect DEF FleetSafe, DeletedStayDeleted, TaskEffect, fleetVars
<1>2. ASSUME CommandStep, UNCHANGED fleetVars PROVE UNCHANGED <<device, policy>>
  BY <1>2 DEF CommandStep, StartJob, JobStep, CreateJob, RunJob, FinishJob, Connect, CommandsSent,
              TargetFails, TargetCompletes, inventory, fleetVars
<1>3. ASSUME SecurityStep, UNCHANGED fleetVars PROVE UNCHANGED <<device, policy>>
  BY <1>3, SecurityEffect DEF FleetSafe, AuditsSafe, InventoryStays, fleetVars
<1>4. CASE Edit
  <2>2. ChangeLicence => UNCHANGED device
    BY DEF ChangeLicence
  <2>3. UpdateSchedule \/ SaveCredentials => UNCHANGED device
    BY DEF UpdateSchedule, SaveCredentials, inventory
  <2>4. SavePolicy => UNCHANGED device /\ DOMAIN policy \subseteq DOMAIN policy'
    BY DEF SavePolicy, inventory
  <2>5. DeleteGroup => gate = None /\ DOMAIN device' = DOMAIN device /\ policy' = policy
    BY DEF DeleteGroup, DropGroup
  <2>6. Die => UNCHANGED <<device, policy>>
    BY DEF Die
  <2>7. \A op, ids : Inspected(op, ids) => UNCHANGED <<device, policy>>
    BY DEF Inspected, Others
  <2>8. DeleteDirect => UNCHANGED <<device, policy>>
    BY <2>7 DEF DeleteDirect
  <2>9. \A op : ExecuteReviewed(op) => UNCHANGED <<device, policy>>
    BY <2>7 DEF ExecuteReviewed
  <2> QED
    BY <1>4, <2>2, <2>3, <2>4, <2>5, <2>6, <2>8, <2>9 DEF Edit
<1>5. CASE Preview \/ UNCHANGED vars
  BY <1>5 DEF Preview, vars, fleetVars, inventory
<1> QED
  BY <1>1, <1>2, <1>3, <1>4, <1>5 DEF Next

\* SlotClaimedOnce: the poll claims a slot of the daily audit again only when Run Now
\* has stored an earlier one since, which it does behind claims of another time of
\* day only; restarts, edits and zones alone never let it.
THEOREM SlotsClaimedOnce == Spec => SlotClaimedOnce
<1> DEFINE Kept == \A x \in Audits :
             /\ ClaimSlot(x) /\ DueSlot(now) \in claimed => DueSlot(now) \in reopened
             /\ RunNow(x) => \A c \in reopened' : TimeOf(c) # settings.time
<1>1. ASSUME FleetSafe, NEW x \in Audits, ClaimSlot(x), DueSlot(now) \in claimed
      PROVE  DueSlot(now) \in reopened
  <2>1. settings.slot \in Int /\ ShouldRunNow(settings.slot)
    BY <1>1 DEF FleetSafe, ClaimsAreBehind, ClaimSlot
  <2> QED
    BY <1>1, <2>1, DueIsNew DEF FleetSafe, ClaimsAreBehind
<1>2. ASSUME FleetSafe, NEW x \in Audits, RunNow(x) PROVE \A c \in reopened' : TimeOf(c) # settings.time
  BY <1>2, ClaimsReopen DEF FleetSafe
<1>3. FleetSafe => [Kept]_<<settings, exec, slotVars>>
  BY <1>1, <1>2
<1> QED
  BY <1>3, FleetAlwaysSafe, PTL DEF SlotClaimedOnce

\* RemovedPoliciesWereReviewed: a policy goes with a device only as it was shown.
THEOREM RemovalsReviewed == Spec => RemovedPoliciesWereReviewed
<1>1. ASSUME FleetSafe, [Next]_vars, NEW p \in DOMAIN policy \ DOMAIN policy'
      PROVE  p \in DOMAIN deletion.seen /\ deletion.seen[p] = policy[p]
  <2>1. CommitDeletion
    BY <1>1, WhoRemoves
  <2>2. deletion # NoDeletion /\ p \in deletion.remove
    BY <1>1, <2>1 DEF CommitDeletion
  <2> QED
    BY <1>1, <2>2 DEF FleetSafe, DeletionStands, RemovesWhatItSaw
<1>2. FleetSafe /\ [Next]_vars =>
        [\A p \in DOMAIN policy \ DOMAIN policy' :
           p \in DOMAIN deletion.seen /\ deletion.seen[p] = policy[p]]_policy
  BY <1>1
<1> QED
  BY <1>2, FleetAlwaysSafe, PTL DEF Spec, RemovedPoliciesWereReviewed

\* LiveWorkKeepsDevice: a device is not deleted under a job or an audit, but for
\* a run of the poll that began after the inspection.
THEOREM WorkKeepsDevice == Spec => LiveWorkKeepsDevice
<1>1. ASSUME FleetSafe, [Next]_vars, NEW d \in DOMAIN device \ DOMAIN device'
      PROVE  /\ \A j \in DOMAIN job : <<j, d>> \in linked => job[j] \in Concluded
             /\ \A k \in DOMAIN run : k[2] = d /\ run[k].status = "running"
                  => k \notin deletion.runs /\ exec[k[1]].kind = "scheduled"
  <2>1. CommitDeletion
    BY <1>1, WhoRemoves
  <2>2. deletion # NoDeletion /\ deletion.op # "cleanup" /\ d \in deletion.ids
    BY <1>1, <2>1 DEF CommitDeletion
  <2> QED
    BY <1>1, <2>2 DEF FleetSafe, DeletionStands, JobsHaveConcluded, RunsAreLater
<1>2. FleetSafe /\ [Next]_vars =>
        [\A d \in DOMAIN device \ DOMAIN device' :
           /\ \A j \in DOMAIN job : <<j, d>> \in linked => job[j] \in Concluded
           /\ \A k \in DOMAIN run : k[2] = d /\ run[k].status = "running"
                => k \notin deletion.runs /\ exec[k[1]].kind = "scheduled"]_device
  BY <1>1
<1> QED
  BY <1>2, FleetAlwaysSafe, PTL DEF Spec, LiveWorkKeepsDevice

\* DeletionKeepsScopes: no policy loses its scope with a deletion, and none that
\* resolved is left with a device or a group that does not.
THEOREM ScopesKept == Spec => DeletionKeepsScopes
<1> DEFINE Kept == \A p \in DOMAIN policy' :
                     /\ policy'[p] = policy[p]
                     /\ policy[p].enabled /\ Deployable(policy[p].ref) => Deployable(policy[p].ref)'
<1>1. ASSUME FleetSafe, CommitDeletion PROVE Kept
  <2>1. /\ deletion # NoDeletion /\ groups' = groups
        /\ device' = [d \in DOMAIN device \ Gone |-> device[d]]
        /\ policy' = [p \in DOMAIN policy \ deletion.remove |->
                        IF policy[p].ref \in {<<"device", d>> : d \in Gone}
                          THEN [policy[p] EXCEPT !.ref = Anything] ELSE policy[p]]
    BY <1>1 DEF CommitDeletion, Gone
  <2>2. ASSUME NEW p \in DOMAIN policy'
        PROVE  /\ policy'[p] = policy[p]
               /\ policy[p].enabled /\ Deployable(policy[p].ref) => Deployable(policy[p].ref)'
    <3>1. /\ p \in DOMAIN policy \ deletion.remove /\ policy[p].ref \in Scopes
          /\ policy[p].ref \notin {<<"device", d>> : d \in Gone}
          /\ policy[p].enabled /\ policy[p].ref[1] = "group" /\ Members(policy[p].ref[2]) \subseteq Gone
               => Members(policy[p].ref[2]) = {}
      <4>1. p \in DOMAIN policy \ deletion.remove /\ policy[p].ref \in Scopes
        BY <1>1, <2>1, <2>2 DEF FleetSafe, PoliciesShaped
      <4>2. CASE deletion.op = "cleanup"
        BY <4>1, <4>2 DEF Gone
      <4>3. CASE deletion.op # "cleanup"
        BY <1>1, <2>1, <4>1, <4>3 DEF Gone, FleetSafe, DeletionStands, ScopesAreKept
      <4> QED
        BY <4>1, <4>2, <4>3
    <3>2. policy'[p] = policy[p]
      BY <2>1, <3>1
    <3>3. CASE policy[p].ref[1] = "device"
      <4>1. policy[p].ref = <<"device", policy[p].ref[2]>>
        BY <3>1, <3>3 DEF Scopes, Anything
      <4> QED
        BY <2>1, <3>1, <3>2, <3>3, <4>1 DEF Deployable
    <3>4. CASE policy[p].ref[1] = "group"
      <4>1. \A g : Members(g)' = Members(g) \ Gone
        BY <2>1 DEF Members
      <4> QED
        BY <2>1, <3>1, <3>2, <3>4, <4>1 DEF Deployable
    <3>5. CASE policy[p].ref[1] \notin {"device", "group"}
      BY <3>2, <3>5 DEF Deployable
    <3> QED
      BY <3>2, <3>3, <3>4, <3>5
  <2> QED
    BY <2>2
<1>2. ASSUME FleetSafe, [Next]_vars, ~CommitDeletion, gate = "deletion", device' # device PROVE Kept
  <2>1. /\ policy' = policy /\ groups' = groups /\ DOMAIN device \subseteq DOMAIN device'
        /\ \A d \in DOMAIN device : device'[d] = device[d]
    BY <1>2, WhoRemoves
  <2>2. \A g : Members(g) \subseteq Members(g)'
    BY <2>1 DEF Members
  <2>3. \A ref : Deployable(ref) => Deployable(ref)'
    BY <2>1, <2>2 DEF Deployable
  <2> QED
    BY <2>1, <2>3
<1>3. FleetSafe /\ [Next]_vars => [device' # device /\ gate = "deletion" => Kept]_<<device, policy>>
  BY <1>1, <1>2
<1> QED
  BY <1>3, FleetAlwaysSafe, PTL DEF Spec, DeletionKeepsScopes


-----------------------------------------------------------------------------
(* The invariant: command jobs *)

\* A job has its rows and, until it ends, its runner; what was executed belongs to it.
JobRows ==
  /\ DOMAIN target = DOMAIN job
  /\ \A j \in Jobs : runner[j].at \in {"start", "targets"} => j \in DOMAIN job
  /\ \A e \in executions : e[1] \in DOMAIN job

\* The pool of a job is never larger than its workers.
PoolBounded ==
  \A j \in DOMAIN job : /\ runner[j].workers \in Nat
                        /\ IsFiniteSet(Busy(j)) /\ Cardinality(Busy(j)) <= runner[j].workers

-----------------------------------------------------------------------------
(* The invariant: audits *)

Outcomes(x, status) == {k \in DOMAIN run : k[1] = x /\ run[k].status = status}

\* What an audit has counted are its runs, and what it has still to do makes up the total.
Counted(x) ==
  /\ exec[x].at \in {"list", "number"} => exec[x].ok = 0 /\ exec[x].bad = 0 /\ exec[x].kind # "live"
  /\ exec[x].at = "ssh" => /\ exec[x].current \in exec[x].todo
                           /\ <<x, exec[x].current>> \in DOMAIN run
                           /\ run[<<x, exec[x].current>>].status = "running"
  /\ exec[x].at \in {"next", "ssh", "report"} =>
       /\ IsFiniteSet(Outcomes(x, "completed")) /\ IsFiniteSet(Outcomes(x, "failed"))
       /\ exec[x].ok = Cardinality(Outcomes(x, "completed"))
       /\ exec[x].bad = Cardinality(Outcomes(x, "failed"))
  /\ exec[x].at = "report" => exec[x].kind # "live"
  /\ exec[x].at \in {"number", "next", "ssh"} => IsFiniteSet(exec[x].todo)
  /\ exec[x].at = "number" => exec[x].total = Cardinality(exec[x].todo)
  /\ exec[x].at \in {"next", "ssh"} /\ exec[x].kind # "live" =>
       exec[x].ok + exec[x].bad + Cardinality(exec[x].todo) = exec[x].total

\* An audit at work, but for a live one, has a batch, and it is the one it writes to.
OwnsBatch(x) ==
  exec[x].at \in {"next", "ssh"} /\ exec[x].kind # "live" =>
    exec[x].number \in DOMAIN batch /\ batch[exec[x].number].audit = x

\* An audit has one batch: it is open as long as devices are left, and nothing is
\* written to it afterwards.
BatchBelongs(n) ==
  LET x == batch[n].audit IN
  /\ DOMAIN batch[n] = {"audit", "status", "total", "succeeded", "failed"}
  /\ x \in Audits
  /\ exec[x].at \in {"next", "ssh", "report", "done", "lost"}
  /\ exec[x].at \in {"next", "ssh"} =>
       /\ exec[x].kind # "live" /\ exec[x].number = n
       /\ batch[n].status = "running" /\ batch[n].total = exec[x].total

\* The numbers of a batch that has concluded; the first half of BatchCountsItsRuns.
BatchAddsUp(n) ==
  LET x == batch[n].audit IN
  batch[n].status # "running" =>
    /\ batch[n].succeeded = Cardinality(Outcomes(x, "completed"))
    /\ batch[n].failed = Cardinality(Outcomes(x, "failed"))
    /\ Outcomes(x, "running") = {}
    /\ batch[n].succeeded + batch[n].failed = batch[n].total
    /\ batch[n].status = "completed" <=> batch[n].failed = 0

AuditsCount ==
  /\ \A x \in Audits : Counted(x) /\ OwnsBatch(x)
  /\ \A n \in DOMAIN batch : BatchBelongs(n) /\ BatchAddsUp(n)

-----------------------------------------------------------------------------
(* The invariant: tasks *)

Scanning(t) == work[t].kind = "scan" /\ at[t] \in {"check", "gather", "apply", "licence", "flush", "commit"}
Checked(t)  == Scanning(t) /\ at[t] # "check"
Named(t)    == Scanning(t) /\ at[t] \in {"apply", "licence", "flush", "commit"}
Sent(t)     == Scanning(t) /\ at[t] \in {"licence", "flush", "commit"}
Saving(t)   == Requested(t) /\ at[t] \in {"limit", "flush", "commit"}
Pushing(t)  == work[t].kind = "push" /\ at[t] = "push"

RowFields    == {"name", "addr", "group", "enabled", "secret"}
RowGood(row) == /\ DOMAIN row = RowFields
                /\ row.addr.ip \in row.addr.net /\ row.addr.ip \in Hosts

RowsShaped ==
  /\ IsFiniteSet(DOMAIN device)
  /\ DOMAIN equipment = Hosts
  /\ \A d \in DOMAIN device : RowGood(device[d])

\* What a task has in hand at each place.
AtHand(t) ==
  /\ t \in InUse => Scanning(t) \/ Saving(t) \/ Pushing(t)
  /\ Scanning(t) => work[t].left \in Seq(Hosts) /\ work[t].left # <<>> /\ DOMAIN work[t].row = RowFields
  /\ Named(t)    => work[t].row.addr = HostAddress(Target(t))
  /\ Saving(t)   => RowGood(work[t].row)
  /\ Pushing(t)  => work[t].addr.ip \in Hosts

\* What an address was checked for against the rows a task had read.
Passed(t, addr) ==
  IF work[t].kind = "quick" THEN \A f \in DOMAIN work[t].seen : work[t].seen[f].addr # addr
  ELSE NoOverlap(addr, work[t].seen)

\* What a task checked, it checked of the rows it had read.
CheckMade(t) ==
  /\ Saving(t)   => Passed(t, work[t].row.addr)
  /\ Checked(t)  => NoOverlap(HostAddress(Target(t)), work[t].seen)
  /\ at[t] = "commit" /\ work[t].kind # "update" =>
                      /\ work[t].counted \in Nat /\ work[t].limit \in Nat
                      /\ work[t].counted + 1 <= work[t].limit

\* What a task found or did, and still knows if it is alone.
StillKnown(t) ==
  /\ Checked(t) => \A d \in DOMAIN device : device[d].addr.ip # Target(t)
  /\ Sent(t)    => equipment[Target(t)] = work[t].secret
  /\ Pushing(t) => /\ work[t].row \in DOMAIN device
                   /\ device[work[t].row].addr = work[t].addr
                   /\ device[work[t].row].secret = work[t].secret

WorkAtHand     == \A t \in Tasks : AtHand(t)
ChecksWereMade == \A t \in Tasks : CheckMade(t)
SentDrifts     == \A t \in Tasks : Sent(t) => Target(t) \in drift
UntouchedKnow  == \A t \in InUse \ touched : InUse = {t} /\ StillKnown(t)

TasksSafe ==
  /\ TasksShaped /\ RowsShaped
  /\ WorkAtHand /\ ChecksWereMade /\ SentDrifts /\ UntouchedKnow
  /\ SecretsAgree

-----------------------------------------------------------------------------
(* Command jobs *)

\* The parts of JobAgreesWithTargets, for one job.
StatusesOf(j)    == {target[j][d] : d \in DOMAIN target[j]}
OutcomeAgrees(j) == job[j] \in Concluded =>
                      /\ StatusesOf(j) \subseteq Settled
                      /\ job[j] = "COMPLETED" <=> StatusesOf(j) = {"COMPLETED"}
                      /\ job[j] = "FAILED" <=> "COMPLETED" \notin StatusesOf(j)
RowsExecuted(j)  == \A d \in DOMAIN target[j] : target[j][d] = "COMPLETED" <=> <<j, d>> \in executions
JobsAgree        == \A j \in DOMAIN job : OutcomeAgrees(j) /\ RowsExecuted(j)

JobsSafe == JobPart /\ JobRows /\ PoolBounded /\ JobsAgree

LEMMA AgreementInParts == PoolBounded /\ JobsAgree => JobAgreesWithTargets
BY DEF JobAgreesWithTargets, PoolBounded, JobsAgree, OutcomeAgrees, RowsExecuted, StatusesOf

LEMMA JobsAtRest == ASSUME JobsSafe, UNCHANGED <<job, target, executions, runner>> PROVE JobsSafe'
<1>1. \A j : Busy(j)' = Busy(j)
  BY DEF Busy
<1>2. JobPart'
  BY JobsStay DEF JobsSafe
<1>3. JobRows' /\ PoolBounded'
  BY <1>1 DEF JobsSafe, JobRows, PoolBounded
<1>4. JobsAgree'
  BY DEF JobsSafe, JobsAgree, OutcomeAgrees, RowsExecuted, StatusesOf
<1> QED
  BY <1>2, <1>3, <1>4 DEF JobsSafe

\* One target of a running job moves.
LEMMA TargetMoves ==
  ASSUME JobsSafe, NEW j \in Jobs, runner[j].at = "targets", NEW d \in DOMAIN target[j],
         NEW status, SetTarget(j, d, status), UNCHANGED <<job, runner>>,
         target[j][d] # "COMPLETED",
         executions' = IF status = "COMPLETED" THEN executions \cup {<<j, d>>} ELSE executions,
         d \in Busy(j) \/ status \notin {"CONNECTING", "RUNNING"} \/ Cardinality(Busy(j)) < runner[j].workers
  PROVE  JobsSafe'
<1>1. /\ j \in DOMAIN job /\ job[j] \notin Concluded /\ DOMAIN target = DOMAIN job
      /\ DOMAIN job \subseteq Jobs
  BY DEF JobsSafe, JobPart, JobsShaped, ConcludedIsOver, JobRows
<1>2. /\ DOMAIN target' = DOMAIN target /\ DOMAIN target'[j] = DOMAIN target[j]
      /\ \A i \in DOMAIN target \ {j} : target'[i] = target[i]
      /\ \A e \in DOMAIN target[j] : target'[j][e] = IF e = d THEN status ELSE target[j][e]
  BY <1>1 DEF SetTarget
<1>3. JobPart' /\ JobRows'
  BY <1>1, <1>2, JobsStay DEF JobsSafe, JobRows
<1>4. \A i \in DOMAIN job \ {j} : Busy(i)' = Busy(i)
  BY <1>1, <1>2 DEF Busy
<1>5. Busy(j)' = IF status \in {"CONNECTING", "RUNNING"} THEN Busy(j) \cup {d} ELSE Busy(j) \ {d}
  BY <1>2 DEF Busy
<1>6. IsFiniteSet(Busy(j)') /\ Cardinality(Busy(j)') <= runner[j].workers
  <2>1. /\ IsFiniteSet(Busy(j)) /\ Cardinality(Busy(j)) \in Nat
        /\ Cardinality(Busy(j)) <= runner[j].workers /\ runner[j].workers \in Nat
    BY <1>1, FS_CardinalityType DEF JobsSafe, PoolBounded
  <2>2. CASE status \in {"CONNECTING", "RUNNING"}
    <3>1. /\ IsFiniteSet(Busy(j) \cup {d})
          /\ Cardinality(Busy(j) \cup {d}) = IF d \in Busy(j) THEN Cardinality(Busy(j)) ELSE Cardinality(Busy(j)) + 1
      BY <2>1, FS_AddElement
    <3> QED
      BY <1>5, <2>1, <2>2, <3>1
  <2>3. CASE status \notin {"CONNECTING", "RUNNING"}
    <3>1. /\ IsFiniteSet(Busy(j) \ {d})
          /\ Cardinality(Busy(j) \ {d}) = IF d \in Busy(j) THEN Cardinality(Busy(j)) - 1 ELSE Cardinality(Busy(j))
      BY <2>1, FS_RemoveElement
    <3> QED
      BY <1>5, <2>1, <2>3, <3>1
  <2> QED
    BY <2>2, <2>3
<1>7. PoolBounded'
  BY <1>4, <1>6 DEF JobsSafe, PoolBounded
<1>8. ASSUME NEW i \in DOMAIN job PROVE OutcomeAgrees(i)' /\ RowsExecuted(i)'
  <2>1. CASE i = j
    <3>1. OutcomeAgrees(i)'
      BY <1>1, <2>1 DEF OutcomeAgrees
    <3>2. ASSUME NEW e \in DOMAIN target[j]
          PROVE  target'[j][e] = "COMPLETED" <=> <<j, e>> \in executions'
      BY <1>1, <1>2 DEF JobsSafe, JobsAgree, RowsExecuted
    <3> QED
      BY <1>2, <2>1, <3>1, <3>2 DEF RowsExecuted
  <2>2. CASE i # j
    <3>1. target'[i] = target[i] /\ OutcomeAgrees(i) /\ RowsExecuted(i)
      BY <1>1, <1>2, <2>2 DEF JobsSafe, JobsAgree
    <3>2. \A e : <<i, e>> \in executions' <=> <<i, e>> \in executions
      BY <2>2
    <3> QED
      BY <3>1, <3>2 DEF OutcomeAgrees, RowsExecuted, StatusesOf
  <2> QED
    BY <2>1, <2>2
<1>9. JobsAgree'
  BY <1>8 DEF JobsAgree
<1> QED
  BY <1>3, <1>7, <1>9 DEF JobsSafe

LEMMA JobCreated ==
  ASSUME JobsSafe, NEW j \in Jobs, NEW ids, NEW gs, NEW workers \in {1, Concurrency},
         CreateJob(j, ids, gs, workers)
  PROVE  JobsSafe'
<1> DEFINE resolved == ResolveTargets(ids, gs)
<1>1. /\ j \notin DOMAIN job /\ UNCHANGED executions
      /\ job' = [i \in DOMAIN job \cup {j} |-> IF i = j THEN "PENDING" ELSE job[i]]
      /\ target' = [i \in DOMAIN target \cup {j} |->
                      IF i = j THEN [d \in resolved |-> "PENDING"] ELSE target[i]]
      /\ runner' = [runner EXCEPT ![j] = [at |-> "start", workers |-> workers]]
  BY DEF CreateJob
<1> HIDE DEF resolved
<1>2. DOMAIN target = DOMAIN job /\ DOMAIN job \subseteq Jobs /\ DOMAIN runner = Jobs
  BY DEF JobsSafe, JobRows, JobPart, JobsShaped
<1>3. JobPart' /\ JobRows'
  <2>1. /\ DOMAIN runner' = Jobs /\ runner'[j] = [at |-> "start", workers |-> workers]
        /\ \A i \in Jobs \ {j} : runner'[i] = runner[i]
        /\ DOMAIN job' = DOMAIN job \cup {j} /\ job'[j] \notin Concluded
        /\ \A i \in DOMAIN job : i # j /\ job'[i] = job[i]
        /\ DOMAIN target' = DOMAIN job'
    BY <1>1, <1>2 DEF Concluded
  <2>2. JobsShaped' /\ ConcludedIsOver'
    BY <1>2, <2>1 DEF JobsSafe, JobPart, JobsShaped, ConcludedIsOver
  <2>3. JobRows'
    BY <1>1, <1>2, <2>1 DEF JobsSafe, JobRows
  <2> QED
    BY <2>2, <2>3 DEF JobPart
<1>4. Busy(j)' = {} /\ \A i \in DOMAIN job : Busy(i)' = Busy(i)
  BY <1>1, <1>2 DEF Busy
<1>5. runner'[j].workers \in Nat /\ \A i \in DOMAIN job : runner'[i] = runner[i]
  BY <1>1, <1>2, JobsAssumption
<1>6. PoolBounded'
  <2>1. IsFiniteSet(Busy(j)') /\ Cardinality(Busy(j)') <= runner'[j].workers
    BY <1>4, <1>5, FS_EmptySet
  <2>2. \A i \in DOMAIN job : /\ runner'[i].workers \in Nat /\ IsFiniteSet(Busy(i)')
                              /\ Cardinality(Busy(i)') <= runner'[i].workers
    BY <1>4, <1>5 DEF JobsSafe, PoolBounded
  <2> QED
    BY <1>1, <1>5, <2>1, <2>2 DEF PoolBounded
<1>7. ASSUME NEW i \in DOMAIN job' PROVE OutcomeAgrees(i)' /\ RowsExecuted(i)'
  <2>1. CASE i = j
    <3>1. job'[j] = "PENDING" /\ target'[j] = [d \in resolved |-> "PENDING"]
      BY <1>1, <1>2
    <3>2. \A e : <<j, e>> \notin executions
      BY <1>1 DEF JobsSafe, JobRows
    <3>3. OutcomeAgrees(j)'
      BY <3>1 DEF OutcomeAgrees, Concluded
    <3>4. RowsExecuted(j)'
      BY <1>1, <3>1, <3>2 DEF RowsExecuted
    <3> QED
      BY <2>1, <3>3, <3>4
  <2>2. CASE i # j
    <3>1. /\ i \in DOMAIN job /\ job'[i] = job[i] /\ target'[i] = target[i]
          /\ OutcomeAgrees(i) /\ RowsExecuted(i)
      BY <1>1, <1>2, <1>7, <2>2 DEF JobsSafe, JobsAgree
    <3>2. StatusesOf(i)' = StatusesOf(i)
      BY <3>1 DEF StatusesOf
    <3> QED
      BY <1>1, <3>1, <3>2 DEF OutcomeAgrees, RowsExecuted
  <2> QED
    BY <2>1, <2>2
<1>8. JobsAgree'
  BY <1>7 DEF JobsAgree
<1> QED
  BY <1>3, <1>6, <1>8 DEF JobsSafe

\* The job itself moves: it runs, or its outcome is the one its rows add up to.
LEMMA JobMoves ==
  ASSUME JobsSafe, NEW j \in Jobs, RunJob(j) \/ FinishJob(j) PROVE JobsSafe'
<1>1. /\ UNCHANGED <<target, executions>> /\ j \in DOMAIN job /\ DOMAIN job' = DOMAIN job
      /\ \A i \in DOMAIN job \ {j} : job'[i] = job[i]
      /\ DOMAIN runner' = Jobs /\ runner'[j].workers = runner[j].workers
      /\ \A i \in Jobs : DOMAIN runner'[i] = {"at", "workers"}
      /\ \A i \in Jobs \ {j} : runner'[i] = runner[i]
      /\ DOMAIN target = DOMAIN job /\ DOMAIN job \subseteq Jobs
  BY DEF JobsSafe, JobRows, JobPart, JobsShaped, RunJob, FinishJob
<1>2. \/ job'[j] = "RUNNING" /\ runner'[j].at = "targets"
      \/ /\ runner'[j].at = "end" /\ StatusesOf(j) \subseteq Settled
         /\ job'[j] = CASE StatusesOf(j) = {"COMPLETED"} -> "COMPLETED"
                        [] "COMPLETED" \in StatusesOf(j) /\ StatusesOf(j) # {"COMPLETED"} -> "PARTIAL"
                        [] OTHER -> "FAILED"
  BY <1>1 DEF JobsSafe, JobPart, JobsShaped, RunJob, FinishJob, StatusesOf
<1>3. JobPart' /\ JobRows'
  <2>1. job'[j] \in Concluded => runner'[j].at \notin {"start", "targets"}
    BY <1>2 DEF Concluded
  <2> QED
    BY <1>1, <2>1 DEF JobsSafe, JobPart, JobsShaped, ConcludedIsOver, JobRows
<1>4. \A i : Busy(i)' = Busy(i) /\ StatusesOf(i)' = StatusesOf(i)
  BY <1>1 DEF Busy, StatusesOf
<1>5. PoolBounded'
  BY <1>1, <1>4 DEF JobsSafe, PoolBounded
<1>6. OutcomeAgrees(j)'
  BY <1>2, <1>4 DEF OutcomeAgrees, Concluded
<1>7. \A i \in DOMAIN job \ {j} : OutcomeAgrees(i)'
  BY <1>1, <1>4 DEF JobsSafe, JobsAgree, OutcomeAgrees
<1>8. JobsAgree'
  BY <1>1, <1>6, <1>7 DEF JobsSafe, JobsAgree, RowsExecuted
<1> QED
  BY <1>3, <1>5, <1>8 DEF JobsSafe

LEMMA JobsGoOn == ASSUME JobsSafe, CommandStep PROVE JobsSafe'
<1>1. ASSUME NEW j \in Jobs, NEW d \in Devices,
             Connect(j, d) \/ CommandsSent(j, d) \/ TargetFails(j, d) \/ TargetCompletes(j, d)
      PROVE  JobsSafe'
  <2>1. d \in DOMAIN target[j] /\ runner[j].at = "targets" /\ UNCHANGED <<job, runner>>
    BY <1>1 DEF Connect, CommandsSent, TargetFails, TargetCompletes
  <2>2. CASE Connect(j, d)
    BY <2>1, <2>2, TargetMoves DEF Connect
  <2>3. CASE CommandsSent(j, d)
    BY <2>1, <2>3, TargetMoves DEF CommandsSent, Busy
  <2>4. CASE TargetFails(j, d)
    BY <2>1, <2>4, TargetMoves DEF TargetFails
  <2>5. CASE TargetCompletes(j, d)
    BY <2>1, <2>5, TargetMoves DEF TargetCompletes
  <2> QED
    BY <1>1, <2>2, <2>3, <2>4, <2>5
<1> QED
  BY <1>1, JobCreated, JobMoves DEF CommandStep, JobStep, StartJob

LEMMA JobsLost == ASSUME JobsSafe, LoseRunners, UNCHANGED <<job, target, executions>> PROVE JobsSafe'
<1>1. /\ DOMAIN runner' = Jobs
      /\ \A j \in Jobs : /\ DOMAIN runner'[j] = {"at", "workers"} /\ runner'[j].workers = runner[j].workers
                         /\ runner'[j].at \notin {"start", "targets"}
  BY DEF LoseRunners, JobsSafe, JobPart, JobsShaped
<1>2. \A j : Busy(j)' = Busy(j)
  BY DEF Busy
<1>3. JobPart' /\ JobRows'
  BY <1>1 DEF JobsSafe, JobPart, JobsShaped, ConcludedIsOver, JobRows
<1>4. PoolBounded'
  BY <1>1, <1>2 DEF JobsSafe, PoolBounded, JobPart, JobsShaped
<1>5. JobsAgree'
  BY DEF JobsSafe, JobsAgree, OutcomeAgrees, RowsExecuted, StatusesOf
<1> QED
  BY <1>3, <1>4, <1>5 DEF JobsSafe

-----------------------------------------------------------------------------
(* Audits *)

\* Steps that touch no audit, no batch and no outcome.
LEMMA CountsStay ==
  ASSUME AuditsCount, UNCHANGED <<exec, batch>>, DOMAIN run' = DOMAIN run,
         \A k \in DOMAIN run : run'[k].status = run[k].status
  PROVE  AuditsCount'
<1>1. \A x, status : Outcomes(x, status)' = Outcomes(x, status)
  BY DEF Outcomes
<1>2. \A x \in Audits : Counted(x)' /\ OwnsBatch(x)'
  BY <1>1 DEF AuditsCount, Counted, OwnsBatch
<1>3. \A n \in DOMAIN batch : BatchBelongs(n)' /\ BatchAddsUp(n)'
  BY <1>1 DEF AuditsCount, BatchBelongs, BatchAddsUp
<1> QED
  BY <1>2, <1>3 DEF AuditsCount

\* One audit moves: what is the others' stands.
LEMMA OneAuditMoves ==
  ASSUME AuditsCount, AuditsSafe, NEW x \in Audits,
         \A y \in Audits \ {x} : exec'[y] = exec[y],
         \A y \in Audits \ {x} : \A status : Outcomes(y, status)' = Outcomes(y, status),
         \A y \in Audits \ {x} : \A d : <<y, d>> \in DOMAIN run =>
            <<y, d>> \in DOMAIN run' /\ run'[<<y, d>>] = run[<<y, d>>],
         DOMAIN batch \subseteq DOMAIN batch',
         \A n \in DOMAIN batch : /\ batch'[n].audit = batch[n].audit
                                 /\ batch[n].audit # x => batch'[n] = batch[n],
         Counted(x)', OwnsBatch(x)',
         \A n \in DOMAIN batch' :
           n \notin DOMAIN batch \/ batch'[n].audit = x => BatchBelongs(n)' /\ BatchAddsUp(n)'
  PROVE  AuditsCount'
<1>1. ASSUME NEW y \in Audits \ {x} PROVE Counted(y)' /\ OwnsBatch(y)'
  <2>1. Counted(y) /\ OwnsBatch(y)
    BY <1>1 DEF AuditsCount
  <2>2. Counted(y)'
    BY <1>1, <2>1 DEF Counted
  <2>3. OwnsBatch(y)'
    BY <1>1, <2>1 DEF OwnsBatch
  <2> QED
    BY <2>2, <2>3
<1>2. ASSUME NEW n \in DOMAIN batch, batch[n].audit # x PROVE BatchBelongs(n)' /\ BatchAddsUp(n)'
  <2>1. BatchBelongs(n) /\ BatchAddsUp(n) /\ batch'[n] = batch[n]
    BY <1>2 DEF AuditsCount
  <2>2. batch[n].audit \in Audits \ {x} /\ exec'[batch[n].audit] = exec[batch[n].audit]
    BY <1>2, <2>1 DEF BatchBelongs
  <2> QED
    BY <2>1, <2>2 DEF BatchBelongs, BatchAddsUp
<1> QED
  BY <1>1, <1>2 DEF AuditsCount

\* Nothing happened yet: an audit before its first device has no run and no batch.
LEMMA NothingYet ==
  ASSUME AuditsCount, AuditsSafe, NEW x \in Audits, exec[x].at \in {"idle", "list", "number"}
  PROVE  /\ \A status : Outcomes(x, status) = {}
         /\ \A n \in DOMAIN batch : batch[n].audit # x
BY DEF AuditsCount, AuditsSafe, RunsAreDone, Outcomes, BatchBelongs

\* An audit starts.
LEMMA CountStarts ==
  ASSUME AuditsCount, AuditsSafe, NEW x \in Audits, exec[x].at = "idle", UNCHANGED <<run, batch>>,
         NEW kind, NEW place, NEW ids, Start(x, kind, place, ids),
         \/ place = "list" /\ kind # "live"
         \/ place = "next" /\ kind = "live" /\ IsFiniteSet(ids)
  PROVE  AuditsCount'
<1>1. /\ \A y \in Audits \ {x} : exec'[y] = exec[y]
      /\ exec'[x].at = place /\ exec'[x].kind = kind /\ exec'[x].todo = ids
      /\ exec'[x].ok = 0 /\ exec'[x].bad = 0
  BY DEF AuditsSafe, AuditsShaped, Start, NoExec
<1>2. /\ \A status : Outcomes(x, status) = {}
      /\ \A n \in DOMAIN batch : batch[n].audit # x
  BY NothingYet
<1>3. \A y, status : Outcomes(y, status)' = Outcomes(y, status)
  BY DEF Outcomes
<1>4. Counted(x)'
  BY <1>1, <1>2, <1>3, FS_EmptySet DEF Counted
<1>5. OwnsBatch(x)'
  BY <1>1 DEF OwnsBatch
<1> QED
  BY <1>1, <1>2, <1>3, <1>4, <1>5, OneAuditMoves

\* An audit stops, or its locals are lost: what is in the tables stays as it is.
LEMMA CountStops ==
  ASSUME AuditsCount, AuditsSafe, NEW x \in Audits, exec[x].at \notin {"idle", "list"},
         Stop(x, "done"), UNCHANGED batch,
         \A y \in Audits \ {x} : \A status : Outcomes(y, status)' = Outcomes(y, status),
         \A y \in Audits \ {x} : \A d : <<y, d>> \in DOMAIN run =>
            <<y, d>> \in DOMAIN run' /\ run'[<<y, d>>] = run[<<y, d>>],
         exec[x].at \in {"number", "ssh"} \/ UNCHANGED run
  PROVE  AuditsCount'
<1>1. /\ \A y \in Audits \ {x} : exec'[y] = exec[y]
      /\ exec'[x].at = "done"
  BY DEF AuditsSafe, AuditsShaped, Stop, NoExec
<1>2. Counted(x)' /\ OwnsBatch(x)'
  BY <1>1 DEF Counted, OwnsBatch
<1>3. ASSUME NEW n \in DOMAIN batch, batch[n].audit = x PROVE BatchBelongs(n)' /\ BatchAddsUp(n)'
  <2>1. BatchBelongs(n) /\ BatchAddsUp(n)
    BY <1>3 DEF AuditsCount
  <2>2. BatchBelongs(n)'
    BY <1>1, <1>3, <2>1 DEF BatchBelongs
  <2>3. CASE UNCHANGED run
    <3>1. \A status : Outcomes(x, status)' = Outcomes(x, status)
      BY <2>3 DEF Outcomes
    <3> QED
      BY <1>3, <2>1, <2>2, <3>1 DEF BatchAddsUp
  <2>4. CASE exec[x].at \in {"number", "ssh"}
    <3>1. batch[n].status = "running"
      BY <1>3, <2>1, <2>4 DEF BatchBelongs
    <3> QED
      BY <2>2, <3>1 DEF BatchAddsUp
  <2> QED
    BY <2>3, <2>4
<1> QED
  BY <1>1, <1>2, <1>3, OneAuditMoves

\* The total is what was listed.
LEMMA CountLists ==
  ASSUME AuditsCount, AuditsSafe, IsFiniteSet(DOMAIN device), NEW x \in Audits, ListDevices(x)
  PROVE  AuditsCount'
<1> DEFINE listed == {d \in exec[x].todo \cap DOMAIN device : device[d].enabled}
<1>1. /\ exec[x].at = "list" /\ UNCHANGED <<run, batch>>
      /\ exec' = [exec EXCEPT ![x].todo = listed, ![x].total = Cardinality(listed),
                              ![x].number = Cardinality(DOMAIN batch) + 1, ![x].at = "number"]
  BY DEF ListDevices
<1>2. IsFiniteSet(listed)
  BY FS_Subset
<1> HIDE DEF listed
<1>3. /\ \A y \in Audits \ {x} : exec'[y] = exec[y]
      /\ exec'[x].at = "number" /\ exec'[x].kind = exec[x].kind /\ exec'[x].todo = listed
      /\ exec'[x].total = Cardinality(listed)
      /\ exec'[x].ok = exec[x].ok /\ exec'[x].bad = exec[x].bad
  BY <1>1 DEF AuditsSafe, AuditsShaped, NoExec
<1>4. \A n \in DOMAIN batch : batch[n].audit # x
  BY <1>1, NothingYet
<1>5. \A y, status : Outcomes(y, status)' = Outcomes(y, status)
  BY <1>1 DEF Outcomes
<1>6. Counted(x)' /\ OwnsBatch(x)'
  BY <1>1, <1>2, <1>3 DEF AuditsCount, Counted, OwnsBatch
<1> QED
  BY <1>1, <1>3, <1>4, <1>5, <1>6, OneAuditMoves

\* The batch is inserted under a number of its own, or the audit stops.
LEMMA CountBatch ==
  ASSUME AuditsCount, AuditsSafe, NEW x \in Audits, CommitBatch(x) PROVE AuditsCount'
<1>1. exec[x].at = "number" /\ UNCHANGED run
  BY DEF CommitBatch
<1>2. \A y, status : Outcomes(y, status)' = Outcomes(y, status)
  BY <1>1 DEF Outcomes
<1>3. CASE exec[x].number \in DOMAIN batch
  BY <1>1, <1>2, <1>3, CountStops DEF CommitBatch, Raise
<1>4. CASE exec[x].number \notin DOMAIN batch
  <2>n. PICK n : n = exec[x].number
    OBVIOUS
  <2>1. /\ exec' = [exec EXCEPT ![x].at = "next"]
        /\ batch' = [m \in DOMAIN batch \cup {n} |->
                       IF m = n THEN [audit |-> x, status |-> "running", total |-> exec[x].total,
                                      succeeded |-> 0, failed |-> 0]
                       ELSE batch[m]]
    BY <1>4, <2>n DEF CommitBatch
  <2>2. /\ \A y \in Audits \ {x} : exec'[y] = exec[y]
        /\ exec'[x].at = "next" /\ exec'[x].kind = exec[x].kind /\ exec'[x].todo = exec[x].todo
        /\ exec'[x].total = exec[x].total /\ exec'[x].number = exec[x].number
        /\ exec'[x].ok = exec[x].ok /\ exec'[x].bad = exec[x].bad
    BY <2>1 DEF AuditsSafe, AuditsShaped, NoExec
  <2>3. /\ \A status : Outcomes(x, status) = {}
        /\ \A m \in DOMAIN batch : batch[m].audit # x
    BY <1>1, NothingYet
  <2>4. /\ DOMAIN batch' = DOMAIN batch \cup {n} /\ \A m \in DOMAIN batch : batch'[m] = batch[m]
        /\ batch'[n] = [audit |-> x, status |-> "running", total |-> exec[x].total,
                        succeeded |-> 0, failed |-> 0]
    BY <1>4, <2>1, <2>n
  <2>5. Counted(x) /\ Cardinality(exec[x].todo) \in Nat
    BY <1>1, FS_CardinalityType DEF AuditsCount, Counted
  <2>6. Counted(x)'
    <3>1. /\ IsFiniteSet({}) /\ Cardinality({}) = 0
          /\ Outcomes(x, "completed")' = {} /\ Outcomes(x, "failed")' = {}
      BY <1>2, <2>3, FS_EmptySet
    <3>2. /\ exec[x].ok = 0 /\ exec[x].bad = 0 /\ exec[x].kind # "live"
          /\ IsFiniteSet(exec[x].todo) /\ exec[x].total = Cardinality(exec[x].todo)
      BY <1>1, <2>5 DEF Counted
    <3>3. exec[x].ok + exec[x].bad + Cardinality(exec[x].todo) = exec[x].total
      BY <2>5, <3>2
    <3> QED
      BY <2>2, <3>1, <3>2, <3>3 DEF Counted
  <2>7. OwnsBatch(x)'
    BY <2>2, <2>4, <2>n DEF OwnsBatch
  <2>8. BatchBelongs(n)' /\ BatchAddsUp(n)'
    <3>1. /\ batch'[n].audit = x /\ batch'[n].status = "running" /\ batch'[n].total = exec[x].total
          /\ DOMAIN batch'[n] = {"audit", "status", "total", "succeeded", "failed"}
      BY <2>4
    <3>2. exec[x].kind # "live"
      BY <1>1, <2>5 DEF Counted
    <3> QED
      BY <2>2, <2>n, <3>1, <3>2 DEF BatchBelongs, BatchAddsUp
  <2> QED
    BY <1>1, <1>2, <2>2, <2>3, <2>4, <2>6, <2>7, <2>8, OneAuditMoves
<1> QED
  BY <1>3, <1>4

\* What a step of an audit on its runs leaves to it.
LocalsButCounts(x) ==
  /\ \A y \in Audits \ {x} : exec'[y] = exec[y]
  /\ exec'[x].kind = exec[x].kind /\ exec'[x].total = exec[x].total /\ exec'[x].number = exec[x].number

LEMMA OthersRuns ==
  ASSUME NEW x, NEW d, DOMAIN run' \cup {<<x, d>>} = DOMAIN run \cup {<<x, d>>},
         \A k \in DOMAIN run : k # <<x, d>> => run'[k] = run[k]
  PROVE  /\ \A y \in Audits \ {x} : \A status : Outcomes(y, status)' = Outcomes(y, status)
         /\ \A y \in Audits \ {x} : \A e : <<y, e>> \in DOMAIN run =>
               <<y, e>> \in DOMAIN run' /\ run'[<<y, e>>] = run[<<y, e>>]
<1>1. \A k : k[1] # x => k # <<x, d>>
  OBVIOUS
<1>2. \A k : k[1] # x => (k \in DOMAIN run' <=> k \in DOMAIN run)
  BY <1>1
<1>3. \A k \in DOMAIN run : k[1] # x => run'[k] = run[k]
  BY <1>1
<1>4. ASSUME NEW y \in Audits \ {x}, NEW status PROVE Outcomes(y, status)' = Outcomes(y, status)
  BY <1>2, <1>3 DEF Outcomes
<1>5. ASSUME NEW y \in Audits \ {x}, NEW e, <<y, e>> \in DOMAIN run
      PROVE  <<y, e>> \in DOMAIN run' /\ run'[<<y, e>>] = run[<<y, e>>]
  <2>1. <<y, e>>[1] # x
    OBVIOUS
  <2> QED
    BY <1>2, <1>3, <1>5, <2>1
<1> QED
  BY <1>4, <1>5

\* A run begins: it is neither outcome yet.
LEMMA CountBegins ==
  ASSUME AuditsCount, AuditsSafe, NEW x \in Audits, NEW d \in Devices, BeginRun(x, d) PROVE AuditsCount'
<1>1. exec[x].at = "next" /\ d \in exec[x].todo /\ UNCHANGED batch
  BY DEF BeginRun
<1>2. CASE d \notin DOMAIN device
  <2>1. Stop(x, "done") /\ UNCHANGED run
    BY <1>2 DEF BeginRun, Raise
  <2> QED
    BY <1>1, <2>1, CountStops DEF Outcomes
<1>3. CASE d \in DOMAIN device
  <2>1. NewRun(x, d) /\ exec' = [exec EXCEPT ![x].at = "ssh", ![x].current = d]
    BY <1>3 DEF BeginRun
  <2>2. /\ LocalsButCounts(x) /\ exec'[x].at = "ssh" /\ exec'[x].current = d
        /\ exec'[x].todo = exec[x].todo /\ exec'[x].ok = exec[x].ok /\ exec'[x].bad = exec[x].bad
    BY <2>1 DEF AuditsSafe, AuditsShaped, NoExec, LocalsButCounts
  <2>3. <<x, d>> \notin DOMAIN run
    BY <1>1 DEF AuditsSafe, RunsAreDone
  <2>4. /\ DOMAIN run' = DOMAIN run \cup {<<x, d>>} /\ \A k \in DOMAIN run : run'[k] = run[k]
        /\ run'[<<x, d>>].status = "running"
    BY <2>1, <2>3 DEF NewRun
  <2>5. \A status : status # "running" => Outcomes(x, status)' = Outcomes(x, status)
    BY <2>3, <2>4 DEF Outcomes
  <2>6. /\ \A y \in Audits \ {x} : \A status : Outcomes(y, status)' = Outcomes(y, status)
        /\ \A y \in Audits \ {x} : \A e : <<y, e>> \in DOMAIN run =>
              <<y, e>> \in DOMAIN run' /\ run'[<<y, e>>] = run[<<y, e>>]
    BY <2>4, OthersRuns
  <2>7. Counted(x) /\ OwnsBatch(x)
    BY DEF AuditsCount
  <2>8. Outcomes(x, "completed")' = Outcomes(x, "completed") /\ Outcomes(x, "failed")' = Outcomes(x, "failed")
    BY <2>5
  <2>9. Counted(x)'
    BY <1>1, <2>2, <2>4, <2>7, <2>8 DEF Counted, LocalsButCounts
  <2>10. OwnsBatch(x)'
    BY <1>1, <2>2, <2>7 DEF OwnsBatch, LocalsButCounts
  <2>11. ASSUME NEW n \in DOMAIN batch, batch[n].audit = x PROVE BatchBelongs(n)' /\ BatchAddsUp(n)'
    BY <1>1, <2>2, <2>11 DEF AuditsCount, BatchBelongs, BatchAddsUp, LocalsButCounts
  <2> QED
    BY <1>1, <2>2, <2>6, <2>9, <2>10, <2>11, OneAuditMoves DEF LocalsButCounts
<1> QED
  BY <1>2, <1>3

\* A run is settled: it is counted once, and its device is one less to do.
LEMMA CountSettles ==
  ASSUME AuditsCount, AuditsSafe, NEW x \in Audits, FinishRun(x) PROVE AuditsCount'
<1> DEFINE d == exec[x].current
           k0 == <<x, d>>
<1>1. PICK status \in {"completed", "failed"} :
        /\ SetRun(x, status)
        /\ exec' = [exec EXCEPT ![x].at = IF exec[x].kind = "live" THEN "done" ELSE "next",
                     ![x].todo = exec[x].todo \ {exec[x].current}, ![x].current = None,
                     ![x].ok = exec[x].ok + IF status = "completed" THEN 1 ELSE 0,
                     ![x].bad = exec[x].bad + IF status = "failed" THEN 1 ELSE 0]
  BY DEF FinishRun
<1>2. exec[x].at = "ssh" /\ UNCHANGED batch
  BY DEF FinishRun
<1>3. /\ LocalsButCounts(x)
      /\ exec'[x].at = IF exec[x].kind = "live" THEN "done" ELSE "next"
      /\ exec'[x].todo = exec[x].todo \ {d}
      /\ exec'[x].ok = exec[x].ok + IF status = "completed" THEN 1 ELSE 0
      /\ exec'[x].bad = exec[x].bad + IF status = "failed" THEN 1 ELSE 0
  BY <1>1 DEF AuditsSafe, AuditsShaped, NoExec, LocalsButCounts
<1>4. Counted(x) /\ OwnsBatch(x)
  BY DEF AuditsCount
<1>5. d \in exec[x].todo /\ k0 \in DOMAIN run /\ run[k0].status = "running"
  BY <1>2, <1>4 DEF Counted
<1>6. /\ DOMAIN run' = DOMAIN run /\ run'[k0].status = status
      /\ \A k \in DOMAIN run : k # k0 => run'[k] = run[k]
  BY <1>1, <1>5 DEF SetRun, AuditsSafe, AuditsShaped
<1>7. /\ \A y \in Audits \ {x} : \A s : Outcomes(y, s)' = Outcomes(y, s)
      /\ \A y \in Audits \ {x} : \A e : <<y, e>> \in DOMAIN run =>
            <<y, e>> \in DOMAIN run' /\ run'[<<y, e>>] = run[<<y, e>>]
  BY <1>6, OthersRuns
<1>8. /\ k0 \notin Outcomes(x, status) /\ Outcomes(x, status)' = Outcomes(x, status) \cup {k0}
      /\ \A s \in {"completed", "failed"} \ {status} : Outcomes(x, s)' = Outcomes(x, s)
  BY <1>5, <1>6 DEF Outcomes
<1> HIDE DEF d, k0
<1>9. ASSUME NEW s \in {"completed", "failed"}
      PROVE  /\ IsFiniteSet(Outcomes(x, s)) /\ Cardinality(Outcomes(x, s)) \in Nat
             /\ IsFiniteSet(Outcomes(x, s)')
             /\ Cardinality(Outcomes(x, s)') = Cardinality(Outcomes(x, s)) + IF s = status THEN 1 ELSE 0
  <2>1. IsFiniteSet(Outcomes(x, s)) /\ Cardinality(Outcomes(x, s)) \in Nat
    BY <1>2, <1>4, <1>9, FS_CardinalityType DEF Counted
  <2>2. /\ IsFiniteSet(Outcomes(x, s) \cup {k0})
        /\ k0 \notin Outcomes(x, s) => Cardinality(Outcomes(x, s) \cup {k0}) = Cardinality(Outcomes(x, s)) + 1
    BY <2>1, FS_AddElement
  <2>3. CASE s = status
    <3>1. s = status /\ k0 \notin Outcomes(x, s) /\ Outcomes(x, s)' = Outcomes(x, s) \cup {k0}
      BY <1>8, <2>3
    <3> QED
      BY <2>1, <2>2, <3>1
  <2>4. CASE s # status
    <3>1. s # status /\ Outcomes(x, s)' = Outcomes(x, s)
      BY <1>8, <2>4
    <3> QED
      BY <2>1, <3>1
  <2> QED
    BY <2>3, <2>4
<1>10. /\ IsFiniteSet(exec[x].todo) /\ Cardinality(exec[x].todo) \in Nat
       /\ IsFiniteSet(exec[x].todo \ {d})
       /\ Cardinality(exec[x].todo \ {d}) = Cardinality(exec[x].todo) - 1
  <2>1. IsFiniteSet(exec[x].todo)
    BY <1>2, <1>4 DEF Counted
  <2> QED
    BY <1>5, <2>1, FS_CardinalityType, FS_RemoveElement
<1>11. /\ exec[x].ok = Cardinality(Outcomes(x, "completed")) /\ exec[x].bad = Cardinality(Outcomes(x, "failed"))
       /\ exec[x].kind # "live" => exec[x].ok + exec[x].bad + Cardinality(exec[x].todo) = exec[x].total
  BY <1>2, <1>4 DEF Counted
<1>12. /\ exec'[x].ok = Cardinality(Outcomes(x, "completed")')
       /\ exec'[x].bad = Cardinality(Outcomes(x, "failed")')
       /\ exec[x].kind # "live" => exec'[x].ok + exec'[x].bad + Cardinality(exec'[x].todo) = exec[x].total
  BY <1>3, <1>9, <1>10, <1>11
<1>13. Counted(x)'
  BY <1>3, <1>9, <1>10, <1>12 DEF Counted, LocalsButCounts
<1>14. OwnsBatch(x)'
  BY <1>2, <1>3, <1>4 DEF OwnsBatch, LocalsButCounts
<1>15. ASSUME NEW n \in DOMAIN batch, batch[n].audit = x PROVE BatchBelongs(n)' /\ BatchAddsUp(n)'
  BY <1>2, <1>3, <1>15 DEF AuditsCount, BatchBelongs, BatchAddsUp, LocalsButCounts
<1> QED
  BY <1>2, <1>3, <1>7, <1>13, <1>14, <1>15, OneAuditMoves DEF LocalsButCounts

LEMMA CountLoses ==
  ASSUME AuditsCount, AuditsSafe, NEW x \in Audits, LoseDevice(x) PROVE AuditsCount'
<1>1. exec[x].at = "ssh" /\ Stop(x, "done") /\ UNCHANGED batch
  BY DEF LoseDevice, Raise
<1>2. DOMAIN run' = DOMAIN run /\ \A k \in DOMAIN run : k # <<x, exec[x].current>> => run'[k] = run[k]
  BY DEF LoseDevice, SetRun
<1> QED
  BY <1>1, <1>2, OthersRuns, CountStops

\* The batch gets the counts, which are those of its runs, and nothing is left to do.
LEMMA CountConcludes ==
  ASSUME AuditsCount, AuditsSafe, NEW x \in Audits, FinishBatch(x) PROVE AuditsCount'
<1>n. PICK n : n = exec[x].number
  OBVIOUS
<1>1. /\ exec[x].at = "next" /\ exec[x].kind # "live" /\ exec[x].todo = {} /\ UNCHANGED run
      /\ batch' = [batch EXCEPT ![n] =
                     [@ EXCEPT !.status = Outcome(x), !.succeeded = exec[x].ok, !.failed = exec[x].bad]]
      /\ Stop(x, "done") \/ exec' = [exec EXCEPT ![x].at = "report"]
  BY <1>n DEF FinishBatch
<1>2. Counted(x) /\ OwnsBatch(x)
  BY DEF AuditsCount
<1>3. n \in DOMAIN batch /\ batch[n].audit = x /\ BatchBelongs(n)
  BY <1>1, <1>2, <1>n DEF OwnsBatch, AuditsCount
<1>4. batch[n].total = exec[x].total /\ DOMAIN batch[n] = {"audit", "status", "total", "succeeded", "failed"}
  BY <1>1, <1>3 DEF BatchBelongs
<1>5. \A m \in DOMAIN batch : batch[m].audit = x => m = n
  BY <1>1, <1>n DEF AuditsCount, BatchBelongs
<1>6. /\ DOMAIN batch' = DOMAIN batch /\ \A m \in DOMAIN batch \ {n} : batch'[m] = batch[m]
      /\ batch'[n].audit = x /\ batch'[n].total = exec[x].total /\ batch'[n].status = Outcome(x)
      /\ batch'[n].succeeded = exec[x].ok /\ batch'[n].failed = exec[x].bad
      /\ DOMAIN batch'[n] = {"audit", "status", "total", "succeeded", "failed"}
  BY <1>1, <1>3, <1>4
<1>7. \A y, status : Outcomes(y, status)' = Outcomes(y, status)
  BY <1>1 DEF Outcomes
<1>8. /\ \A y \in Audits \ {x} : exec'[y] = exec[y]
      /\ \/ exec'[x].at = "done"
         \/ /\ exec'[x].at = "report" /\ exec'[x].kind = exec[x].kind
            /\ exec'[x].ok = exec[x].ok /\ exec'[x].bad = exec[x].bad
  BY <1>1 DEF AuditsSafe, AuditsShaped, NoExec, Stop
<1>9. Counted(x)' /\ OwnsBatch(x)'
  BY <1>1, <1>2, <1>7, <1>8 DEF Counted, OwnsBatch
<1>10. BatchBelongs(n)'
  BY <1>6, <1>8 DEF BatchBelongs
<1>11. BatchAddsUp(n)'
  <2>1. Outcomes(x, "running") = {}
    BY <1>1 DEF AuditsSafe, OpenRunIsCurrent, Outcomes, Working
  <2>2. /\ exec[x].ok = Cardinality(Outcomes(x, "completed")) /\ exec[x].ok \in Nat
        /\ exec[x].bad = Cardinality(Outcomes(x, "failed")) /\ exec[x].bad \in Nat
    BY <1>1, <1>2, FS_CardinalityType DEF Counted
  <2>3. exec[x].ok + exec[x].bad = exec[x].total
    BY <1>1, <1>2, <2>2, FS_EmptySet DEF Counted
  <2>4. Outcome(x) = "completed" <=> exec[x].bad = 0
    BY <2>2, <2>3 DEF Outcome
  <2> QED
    BY <1>6, <1>7, <2>1, <2>2, <2>3, <2>4 DEF BatchAddsUp
<1> QED
  BY <1>1, <1>3, <1>5, <1>6, <1>7, <1>8, <1>9, <1>10, <1>11, OneAuditMoves

LEMMA CountsGoOn ==
  ASSUME AuditsCount, AuditsSafe, IsFiniteSet(DOMAIN device), SecurityStep PROVE AuditsCount'
<1>1. ASSUME UNCHANGED <<run, exec, batch>> PROVE AuditsCount'
  BY <1>1, CountsStay
<1>2. Tick \/ Recover => AuditsCount'
  BY <1>1 DEF Tick, Recover
<1>3. ASSUME NEW x \in Audits, ClaimSlot(x) PROVE AuditsCount'
  BY <1>1, <1>3, CountStarts DEF ClaimSlot
<1>4. ASSUME NEW x \in Audits, RunNow(x) PROVE AuditsCount'
  BY <1>4, CountStarts DEF RunNow
<1>5. ASSUME NEW x \in Audits, BulkAudit(x) PROVE AuditsCount'
  BY <1>5, CountStarts DEF BulkAudit
<1>6. ASSUME NEW x \in Audits, LiveAudit(x) PROVE AuditsCount'
  BY <1>6, CountStarts, FS_Singleton DEF LiveAudit
<1>7. ASSUME NEW x \in Audits, ReportBatch(x) PROVE AuditsCount'
  BY <1>7, CountStops DEF ReportBatch, Outcomes
<1> QED
  BY <1>2, <1>3, <1>4, <1>5, <1>6, <1>7, CountLists, CountBatch, CountBegins, CountSettles, CountLoses,
     CountConcludes
  DEF SecurityStep, StartAudit, AuditStep

\* The process ends: no audit is at work, and the rows stay as they are.
LEMMA CountsLost == ASSUME AuditsCount, AuditsSafe, LoseAudits, UNCHANGED <<run, batch>> PROVE AuditsCount'
<1>1. \A x, status : Outcomes(x, status)' = Outcomes(x, status)
  BY DEF Outcomes
<1>2. \A x \in Audits : IF Working(x) THEN exec'[x].at = "lost" ELSE exec'[x] = exec[x]
  BY DEF LoseAudits, NoExec
<1>3. ASSUME NEW x \in Audits PROVE Counted(x)' /\ OwnsBatch(x)'
  BY <1>2 DEF Counted, OwnsBatch, Working
<1>4. ASSUME NEW n \in DOMAIN batch PROVE BatchBelongs(n)' /\ BatchAddsUp(n)'
  BY <1>1, <1>2 DEF AuditsCount, BatchBelongs, BatchAddsUp, Working
<1> QED
  BY <1>3, <1>4 DEF AuditsCount

LEMMA BatchesCount == ASSUME AuditsCount, AuditsSafe PROVE BatchCountsItsRuns
<1>1. ASSUME NEW n \in DOMAIN batch, Working(batch[n].audit)
      PROVE  Outcomes(batch[n].audit, "running") \subseteq {<<batch[n].audit, exec[batch[n].audit].current>>}
  BY <1>1 DEF AuditsSafe, AuditsShaped, OpenRunIsCurrent, Outcomes
<1> QED
  BY <1>1 DEF AuditsCount, BatchAddsUp, BatchCountsItsRuns, Outcomes

-----------------------------------------------------------------------------
(* Tasks *)

LEMMA TypedRowsGood == ASSUME NEW row \in TypedRows PROVE RowGood(row) /\ row.addr \in Addresses
BY InventoryAssumption DEF RowGood, RowFields

LEMMA DevicesCount ==
  ASSUME RowsShaped PROVE Cardinality(DOMAIN device) \in Nat
BY FS_CardinalityType DEF RowsShaped

\* The rows, the secrets and the locals of a task when that task moves; the other
\* tasks are as they were, and met it if they are at work.
LEMMA OneTaskMoves ==
  ASSUME TasksSafe, NEW t \in Tasks, MovesOnly(t), touched \subseteq touched',
         t \in InUse \/ Meet(t),
         drift \subseteq drift' \/ t \in InUse \ touched,
         AtHand(t)', CheckMade(t)', (Sent(t) => Target(t) \in drift)',
         (t \in InUse \ touched => StillKnown(t))',
         RowsShaped', SecretsAgree'
  PROVE  TasksSafe'
<1>1. /\ DOMAIN at' = Tasks /\ DOMAIN work' = Tasks
      /\ \A u \in Tasks \ {t} : at'[u] = at[u] /\ work'[u] = work[u] /\ (u \in InUse' <=> u \in InUse)
  BY DEF MovesOnly, InUse
<1>2. TasksShaped'
  BY DEF TasksSafe, TasksShaped, MovesOnly
<1>3. \A u \in Tasks \ {t} : AtHand(u)'
  BY <1>1 DEF TasksSafe, WorkAtHand, AtHand, Scanning, Saving, Requested, Pushing, Named, Target
<1>4. \A u \in Tasks \ {t} : CheckMade(u)'
  BY <1>1 DEF TasksSafe, ChecksWereMade, CheckMade, Passed, Scanning, Saving, Requested, Checked, Target
<1>5. \A u \in Tasks \ {t} : Sent(u) => u \in InUse
  BY DEF Sent, Scanning, InUse
<1>6. ASSUME NEW u \in Tasks \ {t}, Sent(u)' PROVE Target(u)' \in drift'
  <2>1. Sent(u) /\ Target(u)' = Target(u)
    BY <1>1, <1>6 DEF Sent, Scanning, Target
  <2>2. u \in InUse /\ Target(u) \in drift
    BY <1>5, <2>1 DEF TasksSafe, SentDrifts
  <2>3. t \notin InUse \ touched
    BY <2>2 DEF TasksSafe, UntouchedKnow
  <2> QED
    BY <2>1, <2>2, <2>3
<1>7. ASSUME NEW u \in Tasks \ {t}, u \in InUse' PROVE u \in touched'
  <2>1. u \in InUse
    BY <1>1, <1>7
  <2>2. CASE t \in InUse
    BY <2>1, <2>2 DEF TasksSafe, UntouchedKnow
  <2>3. CASE Meet(t)
    BY <2>1, <2>3 DEF Meet
  <2> QED
    BY <2>2, <2>3
<1>8. ASSUME t \in InUse' \ touched' PROVE InUse' = {t}
  <2>1. InUse \subseteq {t}
    BY <1>8 DEF TasksSafe, UntouchedKnow, Meet
  <2>2. InUse' \subseteq Tasks
    BY DEF InUse
  <2> QED
    BY <1>1, <1>8, <2>1, <2>2
<1>9. WorkAtHand' /\ ChecksWereMade' /\ SentDrifts'
  BY <1>3, <1>4, <1>6 DEF WorkAtHand, ChecksWereMade, SentDrifts
<1>10. UntouchedKnow'
  BY <1>7, <1>8 DEF UntouchedKnow, InUse
<1> QED
  BY <1>2, <1>9, <1>10 DEF TasksSafe

\* The places between which a task moves, when the tables and the equipment stay.
LEMMA TaskOnly ==
  ASSUME TasksSafe, NEW t \in Tasks, MovesOnly(t), t \in InUse \/ Meet(t), touched \subseteq touched',
         UNCHANGED <<device, equipment, drift>>,
         AtHand(t)', CheckMade(t)', (Sent(t) => Target(t) \in drift)',
         (t \in InUse \ touched => StillKnown(t))'
  PROVE  TasksSafe'
<1>1. RowsShaped' /\ SecretsAgree'
  BY DEF TasksSafe, RowsShaped, RowGood, SecretsAgree
<1> QED
  BY <1>1, OneTaskMoves

\* A task that has ended, or reports one host of a scan and turns to the next, has
\* nothing in hand that it must still know.
LEMMA NothingInHand ==
  ASSUME TasksSafe, NEW t \in Tasks, (Scanning(t) /\ Report(t)) \/ End(t)
  PROVE  /\ MovesOnly(t) /\ at'[t] \in {"check", "done"}
         /\ AtHand(t)' /\ CheckMade(t)' /\ ~Sent(t)' /\ ~Checked(t)' /\ ~Pushing(t)'
<1> USE DEF AtHand, CheckMade, Scanning, Named, Sent, Checked, Saving, Pushing, InUse, Target
<1>1. CASE End(t)
  <2>1. MovesOnly(t) /\ at'[t] = "done"
    BY <1>1, Ended DEF TasksSafe
  <2> QED
    BY <2>1
<1>2. CASE Scanning(t) /\ Report(t) /\ ~End(t)
  <2>1. /\ Len(work[t].left) # 1
        /\ work' = [work EXCEPT ![t] = [NoWork EXCEPT !.kind = "scan", !.row = work[t].row,
                                                      !.left = Tail(work[t].left)]]
        /\ Goto(t, "check")
    BY <1>2 DEF Report
  <2>2. MovesOnly(t)
    BY <1>2, Reported DEF TasksSafe
  <2>3. /\ at'[t] = "check" /\ work'[t].kind = "scan" /\ work'[t].row = work[t].row
        /\ work'[t].left = Tail(work[t].left)
    BY <2>1 DEF TasksSafe, TasksShaped, Goto, NoWork
  <2>4. work[t].left \in Seq(Hosts) /\ work[t].left # <<>> /\ DOMAIN work[t].row = RowFields
    BY <1>2 DEF TasksSafe, WorkAtHand
  <2>5. Tail(work[t].left) \in Seq(Hosts) /\ Tail(work[t].left) # <<>>
    <3>1. \A s \in Seq(Hosts) : s # <<>> => Tail(s) \in Seq(Hosts) /\ Len(Tail(s)) = Len(s) - 1 /\ Len(s) \in Nat
      OBVIOUS
    <3>2. Len(<<>>) = 0
      OBVIOUS
    <3>3. Tail(work[t].left) \in Seq(Hosts) /\ Len(Tail(work[t].left)) # 0
      BY <2>1, <2>4, <3>1
    <3> QED
      BY <3>2, <3>3
  <2> QED
    BY <2>2, <2>3, <2>4, <2>5
<1> QED
  BY <1>1, <1>2

LEMMA NothingKnown ==
  ASSUME TasksSafe, NEW t \in Tasks, t \in InUse, touched' = touched,
         UNCHANGED <<device, equipment, drift>>, (Scanning(t) /\ Report(t)) \/ End(t)
  PROVE  TasksSafe'
BY NothingInHand, TaskOnly DEF StillKnown

\* What a task has at hand before its step.
LEMMA TaskHas ==
  ASSUME TasksSafe, NEW t \in Tasks, at[t] \notin {"idle", "done", "lost"}
  PROVE  /\ t \in InUse /\ AtHand(t) /\ CheckMade(t) /\ (Sent(t) => Target(t) \in drift)
         /\ t \notin touched => StillKnown(t)
BY DEF TasksSafe, WorkAtHand, ChecksWereMade, SentDrifts, UntouchedKnow, InUse

LEMMA CreateKeeps == ASSUME TasksSafe, NEW t \in Tasks, CreateDevice(t) PROVE TasksSafe'
<1>1. PICK typed \in TypedRows :
        /\ NoOverlap(typed.addr, device)
        /\ work' = [work EXCEPT ![t] = [NoWork EXCEPT !.kind = "create", !.row = typed, !.seen = device]]
  BY DEF CreateDevice
<1>2. /\ at'[t] = "flush" /\ work'[t].kind = "create" /\ work'[t].row = typed /\ work'[t].seen = device
      /\ MovesOnly(t)
  BY <1>1 DEF CreateDevice, Goto, NoWork, TasksSafe, TasksShaped, MovesOnly
<1>3. AtHand(t)' /\ CheckMade(t)' /\ ~Sent(t)' /\ StillKnown(t)'
  BY <1>1, <1>2, TypedRowsGood
  DEF AtHand, CheckMade, Passed, StillKnown, Scanning, Saving, Requested, Pushing, Named, Sent, Checked, RowGood
<1>4. touched \subseteq touched' /\ Meet(t) /\ UNCHANGED <<device, equipment, drift>>
  BY DEF CreateDevice, Meet
<1> QED
  BY <1>2, <1>3, <1>4, TaskOnly

LEMMA QuickAddKeeps == ASSUME TasksSafe, NEW t \in Tasks, QuickAddDevice(t) PROVE TasksSafe'
<1>1. PICK typed \in TypedRows :
        /\ \A d \in DOMAIN device : device[d].addr # typed.addr
        /\ work' = [work EXCEPT ![t] = [NoWork EXCEPT !.kind = "quick", !.row = typed, !.seen = device]]
  BY DEF QuickAddDevice
<1>2. /\ at'[t] = "limit" /\ work'[t].kind = "quick" /\ work'[t].row = typed /\ work'[t].seen = device
      /\ MovesOnly(t)
  BY <1>1 DEF QuickAddDevice, Goto, NoWork, TasksSafe, TasksShaped, MovesOnly
<1>3. AtHand(t)' /\ CheckMade(t)' /\ ~Sent(t)' /\ StillKnown(t)'
  BY <1>1, <1>2, TypedRowsGood
  DEF AtHand, CheckMade, Passed, StillKnown, Scanning, Saving, Requested, Pushing, Named, Sent, Checked, RowGood
<1>4. touched \subseteq touched' /\ Meet(t) /\ UNCHANGED <<device, equipment, drift>>
  BY DEF QuickAddDevice, Meet
<1> QED
  BY <1>2, <1>3, <1>4, TaskOnly

LEMMA QuickLimitKeeps == ASSUME TasksSafe, NEW t \in Tasks, QuickLimit(t) PROVE TasksSafe'
<1>1. /\ at[t] = "limit" /\ UNCHANGED <<device, equipment, touched, drift>>
      /\ t \in InUse /\ AtHand(t) /\ CheckMade(t)
  BY TaskHas DEF QuickLimit
<1>2. CASE End(t)
  BY <1>1, <1>2, NothingKnown
<1>3. CASE ~End(t)
  <2>1. PICK g : work' = [work EXCEPT ![t].row = [@ EXCEPT !.group = g]] /\ Goto(t, "flush")
    BY <1>3 DEF QuickLimit
  <2>2. Saving(t) /\ RowGood(work[t].row) /\ Passed(t, work[t].row.addr)
    BY <1>1 DEF AtHand, CheckMade, Saving, Scanning, Pushing
  <2>3. /\ MovesOnly(t) /\ at'[t] = "flush" /\ work'[t].kind = work[t].kind /\ work'[t].seen = work[t].seen
        /\ RowGood(work'[t].row) /\ work'[t].row.addr = work[t].row.addr
    BY <2>1, <2>2 DEF Goto, NoWork, TasksSafe, TasksShaped, MovesOnly, RowGood, RowFields
  <2>4. AtHand(t)' /\ CheckMade(t)' /\ ~Sent(t)' /\ StillKnown(t)'
    BY <2>2, <2>3
    DEF AtHand, CheckMade, Passed, StillKnown, Scanning, Saving, Requested, Pushing, Named, Sent, Checked, RowGood
  <2> QED
    BY <1>1, <2>3, <2>4, TaskOnly
<1> QED
  BY <1>2, <1>3

\* An update checks its address against the other rows and keeps the gate.
LEMMA UpdateKeeps ==
  ASSUME TasksSafe, NEW t \in Tasks, NEW d \in Devices, UpdateDevice(t, d) PROVE TasksSafe'
<1>1. PICK typed \in TypedRows : \E row :
        /\ \E secret : row = [typed EXCEPT !.secret = secret]
        /\ NoOverlap(typed.addr, [e \in DOMAIN device \ {d} |-> device[e]])
        /\ work' = [work EXCEPT ![t] = [NoWork EXCEPT !.kind = "update", !.id = d, !.row = row,
                                          !.seen = [e \in DOMAIN device \ {d} |-> device[e]]]]
  BY DEF UpdateDevice
<1>2. PICK row :
        /\ \E secret : row = [typed EXCEPT !.secret = secret]
        /\ NoOverlap(typed.addr, [e \in DOMAIN device \ {d} |-> device[e]])
        /\ work' = [work EXCEPT ![t] = [NoWork EXCEPT !.kind = "update", !.id = d, !.row = row,
                                          !.seen = [e \in DOMAIN device \ {d} |-> device[e]]]]
  BY <1>1
<1>3. RowGood(row) /\ row.addr = typed.addr
  BY <1>2, TypedRowsGood DEF RowGood, RowFields
<1>4. /\ at'[t] = "commit" /\ work'[t].kind = "update" /\ work'[t].row = row
      /\ work'[t].seen = [e \in DOMAIN device \ {d} |-> device[e]] /\ MovesOnly(t)
  BY <1>2 DEF UpdateDevice, Goto, NoWork, TasksSafe, TasksShaped, MovesOnly
<1>5. AtHand(t)' /\ CheckMade(t)' /\ ~Sent(t)' /\ StillKnown(t)'
  <2>1. PICK rest : rest = [e \in DOMAIN device \ {d} |-> device[e]]
    OBVIOUS
  <2>2. NoOverlap(row.addr, rest) /\ work'[t].seen = rest
    BY <1>2, <1>3, <1>4, <2>1
  <2>3. NoOverlap(work[t].row.addr, work[t].seen)'
    BY <1>4, <2>2 DEF NoOverlap, Overlaps
  <2> QED
    BY <1>3, <1>4, <2>3
    DEF AtHand, CheckMade, Passed, StillKnown, Scanning, Saving, Requested, Pushing, Named, Sent, Checked, RowGood
<1>6. touched \subseteq touched' /\ Meet(t) /\ UNCHANGED <<device, equipment, drift>>
  BY DEF UpdateDevice, Meet
<1> QED
  BY <1>4, <1>5, <1>6, TaskOnly

\* The hook counts once more: its numbers stay with the task that inserts.
LEMMA FlushKeeps == ASSUME TasksSafe, NEW t \in Tasks, FlushDevice(t) PROVE TasksSafe'
<1>1. at[t] = "flush" /\ UNCHANGED <<device, equipment, touched, drift>>
  BY DEF FlushDevice
<1>2. /\ t \in InUse /\ AtHand(t) /\ CheckMade(t) /\ (Sent(t) => Target(t) \in drift)
      /\ t \notin touched => StillKnown(t)
  BY <1>1, TaskHas
<1>3. CASE End(t)
  BY <1>1, <1>2, <1>3, NothingKnown
<1>4. CASE ~End(t)
  <2>1. /\ Cardinality(DOMAIN device) + 1 <= HookLimit /\ Goto(t, "commit")
        /\ work' = [work EXCEPT ![t].counted = Cardinality(DOMAIN device), ![t].limit = HookLimit]
    BY <1>4 DEF FlushDevice
  <2>2. /\ MovesOnly(t) /\ at'[t] = "commit"
        /\ work'[t].kind = work[t].kind /\ work'[t].row = work[t].row /\ work'[t].addr = work[t].addr
        /\ work'[t].secret = work[t].secret /\ work'[t].left = work[t].left /\ work'[t].seen = work[t].seen
        /\ work'[t].counted = Cardinality(DOMAIN device) /\ work'[t].limit = HookLimit
    BY <2>1 DEF Goto, NoWork, TasksSafe, TasksShaped, MovesOnly
  <2>3. Cardinality(DOMAIN device) \in Nat /\ HookLimit \in Nat
    BY DevicesCount, InventoryAssumption DEF TasksSafe, HookLimit
  <2>4. Target(t)' = Target(t)
    BY <2>2 DEF Target
  <2>5. AtHand(t)' /\ CheckMade(t)'
    BY <1>1, <1>2, <2>1, <2>2, <2>3, <2>4
    DEF AtHand, CheckMade, Passed, Scanning, Saving, Requested, Pushing, Named, Checked, InUse
  <2>6. (Sent(t) => Target(t) \in drift)' /\ (t \notin touched => StillKnown(t)')
    BY <1>1, <1>2, <2>2, <2>4 DEF StillKnown, Scanning, Pushing, Sent, Checked
  <2> QED
    BY <1>1, <1>2, <2>2, <2>5, <2>6, TaskOnly
<1> QED
  BY <1>3, <1>4

\* A row is added under an identifier that was never given.
LEMMA RowAdded ==
  ASSUME RowsShaped, NEW d \in FreeIds, NEW row, RowGood(row), device' = WithRow(d, row),
         DOMAIN equipment' = Hosts
  PROVE  /\ RowsShaped' /\ DOMAIN device' = DOMAIN device \cup {d} /\ d \notin DOMAIN device
         /\ device'[d] = row /\ \A e \in DOMAIN device : device'[e] = device[e]
         /\ Cardinality(DOMAIN device') = Cardinality(DOMAIN device) + 1
<1>1. /\ DOMAIN device' = DOMAIN device \cup {d} /\ d \notin DOMAIN device
      /\ device'[d] = row /\ \A e \in DOMAIN device : device'[e] = device[e]
  BY DEF FreeIds, WithRow
<1>2. /\ IsFiniteSet(DOMAIN device \cup {d})
      /\ Cardinality(DOMAIN device \cup {d}) = Cardinality(DOMAIN device) + 1
  BY <1>1, FS_AddElement DEF RowsShaped
<1> QED
  BY <1>1, <1>2 DEF RowsShaped, RowGood

LEMMA CommitCreatedKeeps == ASSUME TasksSafe, NEW t \in Tasks, CommitDevice(t) PROVE TasksSafe'
<1>1. /\ at[t] = "commit" /\ work[t].kind \in {"create", "quick"} /\ End(t) /\ UNCHANGED <<equipment, touched>>
      /\ RowGood(work[t].row) /\ t \in InUse
  BY TaskHas DEF CommitDevice, AtHand, Saving, Requested
<1>2. /\ MovesOnly(t) /\ at'[t] = "done" /\ AtHand(t)' /\ CheckMade(t)' /\ ~Sent(t)' /\ StillKnown(t)'
  BY <1>1, NothingInHand, Ended DEF TasksSafe, StillKnown
<1>3. CASE UNCHANGED <<device, drift>>
  BY <1>1, <1>2, <1>3, TaskOnly
<1>4. CASE ~UNCHANGED <<device, drift>>
  <2>1. PICK d \in FreeIds : device' = WithRow(d, work[t].row)
    BY <1>4 DEF CommitDevice
  <2>2. drift' = drift \cup {work[t].row.addr.ip}
    BY <1>4 DEF CommitDevice
  <2>3. RowGood(work[t].row) /\ RowsShaped /\ DOMAIN equipment' = Hosts
    BY <1>1 DEF TasksSafe, RowsShaped
  <2>4. /\ RowsShaped' /\ DOMAIN device' = DOMAIN device \cup {d}
        /\ device'[d] = work[t].row /\ \A e \in DOMAIN device : device'[e] = device[e]
    BY <2>1, <2>3, RowAdded
  <2>5. SecretsAgree'
    BY <1>1, <2>2, <2>4 DEF TasksSafe, SecretsAgree
  <2> QED
    BY <1>1, <1>2, <2>2, <2>4, <2>5, OneTaskMoves
<1> QED
  BY <1>3, <1>4

\* A secret or an address that changes makes its host drift.
LEMMA CommitUpdateKeeps == ASSUME TasksSafe, NEW t \in Tasks, CommitUpdate(t) PROVE TasksSafe'
<1>1. /\ at[t] = "commit" /\ work[t].kind = "update" /\ End(t) /\ UNCHANGED <<equipment, touched>>
      /\ RowGood(work[t].row) /\ t \in InUse
  BY TaskHas DEF CommitUpdate, AtHand, Saving, Requested
<1>2. /\ MovesOnly(t) /\ at'[t] = "done" /\ AtHand(t)' /\ CheckMade(t)' /\ ~Sent(t)' /\ StillKnown(t)'
  BY <1>1, NothingInHand, Ended DEF TasksSafe, StillKnown
<1>3. CASE UNCHANGED <<device, drift>>
  BY <1>1, <1>2, <1>3, TaskOnly
<1>4. CASE ~UNCHANGED <<device, drift>>
  <2>1. PICK d, row : d = work[t].id /\ row = work[t].row
    OBVIOUS
  <2>2. /\ device' = [device EXCEPT ![d] = row]
        /\ \/ drift' = drift /\ row.secret = device[d].secret /\ row.addr = device[d].addr
           \/ drift' = drift \cup {row.addr.ip}
    BY <1>4, <2>1 DEF CommitUpdate
  <2>3. /\ DOMAIN device' = DOMAIN device /\ drift \subseteq drift'
        /\ \A e \in DOMAIN device : device'[e] = IF e = d THEN row ELSE device[e]
    BY <2>2
  <2>4. RowsShaped'
    BY <1>1, <2>1, <2>3 DEF TasksSafe, RowsShaped, RowGood
  <2>5. SecretsAgree'
    BY <1>1, <2>2, <2>3 DEF TasksSafe, SecretsAgree
  <2> QED
    BY <1>1, <1>2, <2>3, <2>4, <2>5, OneTaskMoves
<1> QED
  BY <1>3, <1>4

LEMMA StartScanKeeps == ASSUME TasksSafe, NEW t \in Tasks, StartScan(t) PROVE TasksSafe'
<1>1. PICK asked \in Scans :
        work' = [work EXCEPT ![t] = [NoWork EXCEPT !.kind = "scan", !.left = asked.hosts,
                                       !.row = NewRow(None, None, asked.group, asked.secret)]]
  BY DEF StartScan
<1>2. /\ at'[t] = "check" /\ work'[t].kind = "scan" /\ work'[t].left = asked.hosts
      /\ work'[t].row = NewRow(None, None, asked.group, asked.secret)
      /\ MovesOnly(t)
  BY <1>1 DEF StartScan, Goto, NoWork, TasksSafe, TasksShaped, MovesOnly
<1>3. asked.hosts \in Seq(Hosts) /\ asked.hosts # <<>>
  BY InventoryAssumption
<1>4. AtHand(t)' /\ CheckMade(t)' /\ ~Sent(t)' /\ StillKnown(t)'
  BY <1>2, <1>3
  DEF AtHand, CheckMade, Passed, StillKnown, Scanning, Saving, Requested, Pushing, Named, Sent, Checked, NewRow, RowFields
<1>5. touched \subseteq touched' /\ Meet(t) /\ UNCHANGED <<device, equipment, drift>>
  BY DEF StartScan, Meet
<1> QED
  BY <1>2, <1>4, <1>5, TaskOnly

\* The address of a scanned host lies in no network of the inventory.
LEMMA NothingThere ==
  ASSUME RowsShaped, NEW h, NoOverlap(HostAddress(h), device)
  PROVE  \A d \in DOMAIN device : device[d].addr.ip # h
BY DEF RowsShaped, RowGood, NoOverlap, Overlaps, HostAddress

LEMMA ScanCheckKeeps == ASSUME TasksSafe, NEW t \in Tasks, ScanCheck(t) PROVE TasksSafe'
<1>1. /\ at[t] = "check" /\ UNCHANGED <<device, equipment, touched, drift>>
      /\ t \in InUse /\ AtHand(t) /\ Scanning(t)
  BY TaskHas DEF ScanCheck, AtHand, Scanning, Saving, Requested, Pushing
<1>2. CASE Report(t)
  BY <1>1, <1>2, NothingKnown
<1>3. CASE ~Report(t)
  <2>1. /\ NoOverlap(HostAddress(Target(t)), device)
        /\ work' = [work EXCEPT ![t].seen = device, ![t].addr = HostAddress(Target(t))]
        /\ Goto(t, "gather")
    BY <1>3 DEF ScanCheck
  <2>2. /\ MovesOnly(t) /\ at'[t] = "gather" /\ work'[t].kind = "scan"
        /\ work'[t].row = work[t].row /\ work'[t].left = work[t].left /\ work'[t].seen = device
    BY <1>1, <2>1 DEF Goto, NoWork, TasksSafe, TasksShaped, MovesOnly, Scanning
  <2>3. Target(t)' = Target(t)
    BY <2>2 DEF Target
  <2>4. AtHand(t)' /\ CheckMade(t)' /\ ~Sent(t)'
    BY <1>1, <2>1, <2>2, <2>3
    DEF AtHand, CheckMade, Passed, Scanning, Saving, Requested, Pushing, Named, Sent, Checked
  <2>5. StillKnown(t)'
    BY <1>1, <2>1, <2>2, <2>3, NothingThere DEF StillKnown, Pushing, Sent, TasksSafe
  <2> QED
    BY <1>1, <2>2, <2>4, <2>5, TaskOnly
<1> QED
  BY <1>2, <1>3

LEMMA ScanGatherKeeps == ASSUME TasksSafe, NEW t \in Tasks, ScanGather(t) PROVE TasksSafe'
<1>1. /\ at[t] = "gather" /\ UNCHANGED <<device, equipment, touched, drift>>
      /\ t \in InUse /\ AtHand(t) /\ CheckMade(t) /\ Scanning(t)
      /\ t \notin touched => StillKnown(t)
  BY TaskHas DEF ScanGather, AtHand, Scanning, Saving, Requested, Pushing
<1>2. CASE Report(t)
  BY <1>1, <1>2, NothingKnown
<1>3. CASE ~Report(t)
  <2>1. PICK name, secret :
          /\ work' = [work EXCEPT ![t].row = NewRow(name, HostAddress(Target(t)), work[t].row.group,
                                                    work[t].row.secret),
                                  ![t].secret = secret]
          /\ Goto(t, "apply")
    BY <1>3 DEF ScanGather
  <2>2. /\ MovesOnly(t) /\ at'[t] = "apply" /\ work'[t].kind = "scan"
        /\ work'[t].row = NewRow(name, HostAddress(Target(t)), work[t].row.group, work[t].row.secret)
        /\ work'[t].left = work[t].left /\ work'[t].seen = work[t].seen
    BY <1>1, <2>1 DEF Goto, NoWork, TasksSafe, TasksShaped, MovesOnly, Scanning
  <2>3. Target(t)' = Target(t)
    BY <2>2 DEF Target
  <2>4. AtHand(t)' /\ CheckMade(t)' /\ ~Sent(t)'
    BY <1>1, <2>2, <2>3
    DEF AtHand, CheckMade, Passed, Scanning, Saving, Requested, Pushing, Named, Sent, Checked, NewRow, RowFields
  <2>5. t \notin touched => StillKnown(t)'
    BY <1>1, <2>2, <2>3 DEF StillKnown, Pushing, Sent, Scanning, Checked
  <2> QED
    BY <1>1, <2>2, <2>4, <2>5, TaskOnly
<1> QED
  BY <1>2, <1>3

\* The box gets a secret, and its host drifts until a row says the same.
LEMMA SecretsDrift ==
  ASSUME TasksSafe, UNCHANGED device, NEW h,
         \A g \in Hosts : g # h => equipment'[g] = equipment[g],
         drift' = drift \cup {h}
  PROVE  SecretsAgree'
BY DEF TasksSafe, RowsShaped, RowGood, SecretsAgree

LEMMA ScanApplyKeeps == ASSUME TasksSafe, NEW t \in Tasks, ScanApply(t) PROVE TasksSafe'
<1>1. /\ at[t] = "apply" /\ UNCHANGED <<device, touched>> /\ drift' = drift \cup {Target(t)}
      /\ t \in InUse /\ AtHand(t) /\ CheckMade(t) /\ Scanning(t)
      /\ t \notin touched => StillKnown(t)
  BY TaskHas DEF ScanApply, AtHand, Scanning, Saving, Requested, Pushing
<1>2. /\ DOMAIN equipment' = Hosts /\ \A g \in Hosts : g # Target(t) => equipment'[g] = equipment[g]
  BY DEF ScanApply, TasksSafe, RowsShaped
<1>3. RowsShaped' /\ SecretsAgree'
  BY <1>1, <1>2, SecretsDrift DEF TasksSafe, RowsShaped, RowGood
<1>4. CASE Report(t)
  BY <1>1, <1>3, <1>4, NothingInHand, OneTaskMoves DEF StillKnown
<1>5. CASE ~Report(t)
  <2>1. /\ equipment' = [equipment EXCEPT ![Target(t)] = work[t].secret]
        /\ Goto(t, "licence") /\ UNCHANGED work
    BY <1>5 DEF ScanApply
  <2>2. MovesOnly(t) /\ at'[t] = "licence" /\ Target(t)' = Target(t)
    BY <2>1 DEF Goto, TasksSafe, TasksShaped, MovesOnly, Target
  <2>3. Target(t) \in Hosts
    BY <1>1 DEF AtHand, Target
  <2>4. AtHand(t)' /\ CheckMade(t)' /\ (Sent(t) => Target(t) \in drift)'
    BY <1>1, <2>1, <2>2 DEF AtHand, CheckMade, Passed, Scanning, Saving, Requested, Pushing, Named, Sent, Checked
  <2>5. equipment'[Target(t)] = work[t].secret
    BY <2>1, <2>3 DEF TasksSafe, RowsShaped
  <2>6. t \notin touched => StillKnown(t)'
    BY <1>1, <2>1, <2>2, <2>5 DEF StillKnown, Pushing, Sent, Scanning, Checked
  <2> QED
    BY <1>1, <1>3, <2>2, <2>4, <2>6, OneTaskMoves
<1> QED
  BY <1>4, <1>5

LEMMA ScanLicenceKeeps == ASSUME TasksSafe, NEW t \in Tasks, ScanLicence(t) PROVE TasksSafe'
<1>1. /\ at[t] = "licence" /\ UNCHANGED <<device, equipment, touched, drift>>
      /\ t \in InUse /\ AtHand(t) /\ CheckMade(t) /\ (Sent(t) => Target(t) \in drift)
      /\ t \notin touched => StillKnown(t)
  BY TaskHas DEF ScanLicence
<1>2. CASE End(t)
  BY <1>1, <1>2, NothingKnown
<1>3. CASE ~End(t)
  <2>1. Goto(t, "flush") /\ UNCHANGED work
    BY <1>3 DEF ScanLicence, AbortScan
  <2>2. MovesOnly(t) /\ at'[t] = "flush" /\ Target(t)' = Target(t)
    BY <2>1 DEF Goto, TasksSafe, TasksShaped, MovesOnly, Target
  <2>3. work[t].kind = "scan"
    BY <1>1 DEF AtHand, Scanning, Saving, Requested, Pushing
  <2>4. AtHand(t)' /\ CheckMade(t)' /\ (Sent(t) => Target(t) \in drift)'
    BY <1>1, <2>1, <2>2, <2>3 DEF AtHand, CheckMade, Passed, Scanning, Saving, Requested, Pushing, Named, Sent, Checked
  <2>5. t \notin touched => StillKnown(t)'
    BY <1>1, <2>1, <2>2, <2>3 DEF StillKnown, Pushing, Sent, Scanning, Checked
  <2> QED
    BY <1>1, <2>2, <2>4, <2>5, TaskOnly
<1> QED
  BY <1>2, <1>3

\* The new row holds the secret that was sent; unless somebody was met, it is the
\* only row of its host.
LEMMA ScanCommitKeeps == ASSUME TasksSafe, NEW t \in Tasks, ScanCommit(t) PROVE TasksSafe'
<1>1. /\ at[t] = "commit" /\ work[t].kind = "scan" /\ UNCHANGED <<equipment, touched>>
      /\ t \in InUse /\ AtHand(t) /\ Scanning(t) /\ Target(t) \in drift
      /\ t \notin touched => StillKnown(t)
      /\ Report(t) \/ End(t)
  BY TaskHas DEF ScanCommit, AbortScan, AtHand, Scanning, Saving, Requested, Pushing, Sent
<1>2. /\ MovesOnly(t) /\ AtHand(t)' /\ CheckMade(t)' /\ ~Sent(t)' /\ StillKnown(t)'
  BY <1>1, NothingInHand DEF StillKnown
<1>3. CASE UNCHANGED <<device, drift>>
  BY <1>1, <1>2, <1>3, TaskOnly
<1>4. CASE ~UNCHANGED <<device, drift>>
  <2>1. PICK row : row = [work[t].row EXCEPT !.secret = work[t].secret]
    OBVIOUS
  <2>2. PICK d \in FreeIds : device' = WithRow(d, row)
    BY <1>4, <2>1 DEF ScanCommit, AbortScan
  <2>3. /\ DOMAIN work[t].row = RowFields /\ work[t].row.addr = HostAddress(Target(t)) /\ Target(t) \in Hosts
    BY <1>1 DEF AtHand, Scanning, Named, Target
  <2>4. /\ DOMAIN row = RowFields /\ row.addr.ip = Target(t) /\ row.addr.net = {Target(t)}
        /\ row.secret = work[t].secret
    BY <2>1, <2>3 DEF RowFields, HostAddress
  <2>5. drift' = IF t \in touched THEN drift ELSE drift \ {Target(t)}
    BY <1>4, <2>1, <2>4 DEF ScanCommit, AbortScan
  <2>6. RowGood(row) /\ RowsShaped /\ DOMAIN equipment' = Hosts
    BY <1>1, <2>3, <2>4 DEF RowGood, TasksSafe, RowsShaped
  <2>7. /\ RowsShaped' /\ DOMAIN device' = DOMAIN device \cup {d}
        /\ device'[d] = row /\ \A e \in DOMAIN device : device'[e] = device[e]
    BY <2>2, <2>6, RowAdded
  <2>8. ASSUME t \notin touched
        PROVE  /\ equipment[Target(t)] = work[t].secret
               /\ \A e \in DOMAIN device : device[e].addr.ip # Target(t)
    BY <1>1, <2>8 DEF StillKnown, Sent, Scanning, Checked
  <2>9. SecretsAgree'
    BY <1>1, <2>4, <2>5, <2>7, <2>8 DEF TasksSafe, SecretsAgree
  <2> QED
    BY <1>1, <1>2, <2>5, <2>7, <2>9, OneTaskMoves
<1> QED
  BY <1>3, <1>4

\* The stored secret is the one that will be pushed; until then the host drifts.
LEMMA ApplyKeeps ==
  ASSUME TasksSafe, NEW t \in Tasks, NEW d \in Devices, ApplyAaa(t, d) PROVE TasksSafe'
<1>1. PICK secret :
        /\ work' = [work EXCEPT ![t] = [NoWork EXCEPT !.kind = "push", !.addr = device[d].addr,
                                          !.row = d, !.secret = secret]]
        /\ device' = [device EXCEPT ![d].secret = secret]
  BY DEF ApplyAaa
<1>2. /\ d \in DOMAIN device /\ RowGood(device[d]) /\ drift' = drift \cup {device[d].addr.ip}
      /\ UNCHANGED equipment /\ touched \subseteq touched' /\ Meet(t)
  BY DEF ApplyAaa, Meet, TasksSafe, RowsShaped
<1>3. /\ at'[t] = "push" /\ work'[t].kind = "push" /\ work'[t].addr = device[d].addr
      /\ work'[t].row = d /\ work'[t].secret = secret
      /\ MovesOnly(t)
  BY <1>1 DEF ApplyAaa, Goto, NoWork, TasksSafe, TasksShaped, MovesOnly
<1>4. /\ DOMAIN device' = DOMAIN device /\ \A e \in DOMAIN device \ {d} : device'[e] = device[e]
      /\ DOMAIN device'[d] = RowFields /\ device'[d].addr = device[d].addr /\ device'[d].secret = secret
  BY <1>1, <1>2 DEF RowGood, RowFields
<1>5. RowsShaped'
  BY <1>2, <1>4 DEF TasksSafe, RowsShaped, RowGood
<1>6. SecretsAgree'
  BY <1>2, <1>4 DEF TasksSafe, SecretsAgree
<1>7. AtHand(t)' /\ CheckMade(t)' /\ ~Sent(t)' /\ StillKnown(t)'
  BY <1>2, <1>3, <1>4
  DEF AtHand, CheckMade, Passed, StillKnown, Scanning, Saving, Requested, Pushing, Named, Sent, Checked, RowGood
<1> QED
  BY <1>2, <1>3, <1>5, <1>6, <1>7, OneTaskMoves

\* A host stops drifting when the push was alone and its row is the only one there.
LEMMA PushKeeps == ASSUME TasksSafe, NEW t \in Tasks, PushAaa(t) PROVE TasksSafe'
<1> DEFINE there(h) == {d \in DOMAIN device : device[d].addr.ip = h}
<1>1. PICK h : h = work[t].addr.ip
  OBVIOUS
<1>2. /\ at[t] = "push" /\ UNCHANGED <<device, touched>> /\ End(t)
      /\ t \in InUse /\ Pushing(t) /\ h \in Hosts
      /\ t \notin touched => StillKnown(t)
  BY <1>1, TaskHas DEF PushAaa, AtHand, Scanning, Saving, Requested, Pushing
<1>3. /\ DOMAIN equipment' = Hosts /\ \A g \in Hosts : g # h => equipment'[g] = equipment[g]
      /\ \/ drift' = drift \cup {h}
         \/ /\ drift' = drift \ {h} /\ t \notin touched /\ ~(Cardinality(there(h)) > 1)
            /\ equipment'[h] = work[t].secret
  BY <1>1, <1>2 DEF PushAaa, TasksSafe, RowsShaped
<1>4. /\ MovesOnly(t) /\ AtHand(t)' /\ CheckMade(t)' /\ ~Sent(t)' /\ StillKnown(t)'
  BY <1>2, NothingInHand DEF StillKnown
<1>5. RowsShaped'
  BY <1>2, <1>3 DEF TasksSafe, RowsShaped, RowGood
<1>6. CASE drift' = drift \cup {h}
  <2>1. SecretsAgree'
    BY <1>2, <1>3, <1>6, SecretsDrift
  <2> QED
    BY <1>2, <1>4, <1>5, <1>6, <2>1, OneTaskMoves
<1>7. CASE /\ drift' = drift \ {h} /\ t \notin touched /\ ~(Cardinality(there(h)) > 1)
           /\ equipment'[h] = work[t].secret
  <2>1. /\ work[t].row \in there(h) /\ device[work[t].row].secret = work[t].secret
    BY <1>1, <1>2, <1>7 DEF StillKnown
  <2>2. \A d \in there(h) : d = work[t].row
    <3>1. IsFiniteSet(there(h)) /\ Cardinality(there(h)) \in Nat
      BY FS_Subset, FS_CardinalityType DEF TasksSafe, RowsShaped
    <3>2. Cardinality(there(h)) # 0
      BY <2>1, <3>1, FS_EmptySet
    <3>3. Cardinality(there(h)) = 1
      BY <1>7, <3>1, <3>2
    <3>4. \E d : there(h) = {d}
      BY <3>1, <3>3, FS_Singleton
    <3> QED
      BY <2>1, <3>4
  <2>3. SecretsAgree'
    BY <1>2, <1>3, <1>7, <2>1, <2>2 DEF TasksSafe, SecretsAgree, RowsShaped, RowGood
  <2> QED
    BY <1>2, <1>4, <1>5, <1>7, <2>3, OneTaskMoves
<1> QED
  BY <1>3, <1>6, <1>7

LEMMA TasksGoOn == ASSUME TasksSafe, InventoryStep PROVE TasksSafe'
BY CreateKeeps, FlushKeeps, CommitCreatedKeeps, StartScanKeeps, ScanCheckKeeps, ScanGatherKeeps,
   ScanApplyKeeps, ScanLicenceKeeps, ScanCommitKeeps, ApplyKeeps, PushKeeps,
   QuickAddKeeps, QuickLimitKeeps, UpdateKeeps, CommitUpdateKeeps
DEF InventoryStep, StartTask, TaskStep

-----------------------------------------------------------------------------
(* Steps beside the tasks *)

\* The tasks wait while a row, a secret or the fleet changes: what changes under a
\* task touches it.
LEMMA TasksWait ==
  ASSUME TasksSafe, UNCHANGED <<at, work, equipment>>, drift \subseteq drift', touched \subseteq touched',
         IsFiniteSet(DOMAIN device'), \A d \in DOMAIN device' : RowGood(device'[d]),
         \A d \in DOMAIN device' :
           device'[d].addr.ip \in drift'
             \/ (/\ d \in DOMAIN device
                 /\ device'[d].addr = device[d].addr /\ device'[d].secret = device[d].secret),
         \/ InUse \subseteq touched'
         \/ /\ DOMAIN device' = DOMAIN device
            /\ \A d \in DOMAIN device : /\ device'[d].addr = device[d].addr
                                        /\ device'[d].secret = device[d].secret
  PROVE  TasksSafe'
<1>1. InUse' = InUse /\ \A t : Target(t)' = Target(t)
  BY DEF InUse, Target
<1>2. TasksShaped' /\ RowsShaped'
  BY DEF TasksSafe, TasksShaped, RowsShaped, RowGood
<1>3. WorkAtHand' /\ ChecksWereMade'
  BY <1>1 DEF TasksSafe, WorkAtHand, ChecksWereMade, AtHand, CheckMade, Passed, Scanning, Saving, Requested, Pushing,
              Named, Checked
<1>4. SentDrifts'
  BY <1>1 DEF TasksSafe, SentDrifts, Sent, Scanning
<1>5. UntouchedKnow'
  BY <1>1 DEF TasksSafe, UntouchedKnow, StillKnown, Scanning, Checked, Sent, Pushing
<1>6. SecretsAgree'
  BY DEF TasksSafe, SecretsAgree
<1> QED
  BY <1>2, <1>3, <1>4, <1>5, <1>6 DEF TasksSafe

LEMMA TasksAtRest ==
  ASSUME TasksSafe, UNCHANGED <<device, equipment, at, work, touched, drift>> PROVE TasksSafe'
BY TasksWait DEF TasksSafe, RowsShaped, RowGood

LEMMA GroupKeepsRows ==
  ASSUME TasksSafe, NEW g, DropGroup(g), UNCHANGED <<at, work, equipment, touched, drift>> PROVE TasksSafe'
<1>1. /\ DOMAIN device' = DOMAIN device
      /\ \A d \in DOMAIN device : \/ device'[d] = device[d]
                                  \/ device'[d] = [device[d] EXCEPT !.group = None]
  BY DEF DropGroup
<1>2. \A d \in DOMAIN device : /\ DOMAIN device'[d] = RowFields /\ device'[d].addr = device[d].addr
                               /\ device'[d].secret = device[d].secret
  BY <1>1 DEF TasksSafe, RowsShaped, RowGood, RowFields
<1> QED
  BY <1>1, <1>2, TasksWait DEF TasksSafe, RowsShaped, RowGood

LEMMA DeletionKeepsRows == ASSUME TasksSafe, CommitDeletion PROVE TasksSafe'
<1>1. /\ device' = [d \in DOMAIN device \ Gone |-> device[d]] /\ touched' = touched \cup InUse
      /\ UNCHANGED <<at, work, equipment, drift>>
  BY DEF CommitDeletion, Gone
<1>2. IsFiniteSet(DOMAIN device')
  BY <1>1, FS_Difference DEF TasksSafe, RowsShaped
<1>3. \A d \in DOMAIN device' : d \in DOMAIN device /\ device'[d] = device[d] /\ RowGood(device'[d])
  BY <1>1 DEF TasksSafe, RowsShaped, RowGood
<1> QED
  BY <1>1, <1>2, <1>3, TasksWait

LEMMA TasksLost ==
  ASSUME TasksSafe, LoseTasks, UNCHANGED <<device, equipment, touched, drift>> PROVE TasksSafe'
<1>1. /\ DOMAIN at' = Tasks /\ DOMAIN work' = Tasks
      /\ \A t \in Tasks : at'[t] \in {"idle", "done", "lost"} /\ work'[t] = NoWork
  BY DEF LoseTasks, InUse, TasksSafe, TasksShaped
<1>2. InUse' = {}
  BY <1>1 DEF InUse
<1>3. TasksShaped' /\ RowsShaped'
  BY <1>1 DEF TasksSafe, TasksShaped, RowsShaped, RowGood
<1>4. WorkAtHand' /\ ChecksWereMade' /\ SentDrifts'
  BY <1>1, <1>2 DEF WorkAtHand, ChecksWereMade, SentDrifts, AtHand, CheckMade, Passed, Scanning, Saving, Requested, Pushing,
                    Named, Checked, Sent
<1>5. UntouchedKnow' /\ SecretsAgree'
  BY <1>2 DEF TasksSafe, UntouchedKnow, SecretsAgree
<1> QED
  BY <1>3, <1>4, <1>5 DEF TasksSafe

-----------------------------------------------------------------------------
(* Everything together *)

RowsSafe == FleetSafe /\ JobsSafe /\ AuditsCount /\ TasksSafe

LEMMA RowsInit == ASSUME Init PROVE RowsSafe
<1> USE DEF Init, InitInventory, InitJobs, InitAudits
<1>1. FleetSafe
  BY FleetInit
<1>2. JobsSafe
  BY <1>1 DEF FleetSafe, JobsSafe, JobPart, JobRows, PoolBounded, JobsAgree, NoRunner
<1>3. AuditsCount
  BY DEF AuditsCount, Counted, OwnsBatch, NoExec
<1>4. InUse = {}
  BY DEF InUse
<1>5. RowsShaped
  BY InventoryAssumption DEF RowsShaped, RowGood, RowFields
<1>6. WorkAtHand /\ ChecksWereMade /\ SentDrifts
  BY <1>4 DEF WorkAtHand, ChecksWereMade, SentDrifts, AtHand, CheckMade, Passed, Scanning, Saving, Requested, Pushing,
              Named, Checked, Sent
<1>7. UntouchedKnow /\ SecretsAgree
  BY <1>4, <1>5 DEF UntouchedKnow, SecretsAgree, RowsShaped, RowGood
<1> QED
  BY <1>1, <1>2, <1>3, <1>5, <1>6, <1>7 DEF RowsSafe, TasksSafe, FleetSafe

LEMMA RowsStep == ASSUME RowsSafe, [Next]_vars PROVE RowsSafe'
<1>a. FleetSafe' /\ AuditsSafe /\ IsFiniteSet(DOMAIN device)
  BY FleetStep DEF RowsSafe, FleetSafe, AuditsSafe, TasksSafe, RowsShaped
<1> USE DEF RowsSafe, inventory, jobVars, auditVars, fleetVars
<1>1. CASE InventoryStep /\ UNCHANGED <<jobVars, auditVars, fleetVars>>
  BY <1>a, <1>1, TasksGoOn, JobsAtRest, CountsStay
<1>2. CASE CommandStep /\ UNCHANGED <<auditVars, fleetVars>>
  <2>1. UNCHANGED inventory
    BY <1>2 DEF CommandStep, StartJob, JobStep, CreateJob, RunJob, FinishJob, Connect, CommandsSent,
                TargetFails, TargetCompletes
  <2> QED
    BY <1>a, <1>2, <2>1, JobsGoOn, TasksAtRest, CountsStay
<1>3. CASE SecurityStep /\ UNCHANGED <<jobVars, fleetVars>>
  <2>1. UNCHANGED <<device, equipment, at, work, touched, drift>>
    BY <1>3 DEF SecurityStep, StartAudit, AuditStep, Tick, Recover, ClaimSlot, RunNow, BulkAudit, LiveAudit,
                ListDevices, CommitBatch, BeginRun, FinishRun, LoseDevice, FinishBatch, ReportBatch, Others
  <2> QED
    BY <1>a, <1>3, <2>1, CountsGoOn, JobsAtRest, TasksAtRest
<1>4. CASE Edit
  <2>b. ASSUME UNCHANGED <<job, target, executions, runner, exec, batch, run>> PROVE JobsSafe' /\ AuditsCount'
    BY <2>b, JobsAtRest, CountsStay
  <2>2. ASSUME ChangeLicence, UNCHANGED <<jobVars, auditVars>> PROVE RowsSafe'
    BY <1>a, <2>b, <2>2, TasksAtRest DEF ChangeLicence
  <2>3. ASSUME UpdateSchedule \/ SaveCredentials, UNCHANGED jobVars PROVE RowsSafe'
    BY <1>a, <2>b, <2>3, TasksAtRest DEF UpdateSchedule, SaveCredentials
  <2>4. CASE SavePolicy
    BY <1>a, <2>b, <2>4, TasksAtRest DEF SavePolicy
  <2>5. CASE DeleteGroup
    <3>1. UNCHANGED <<at, work, equipment, touched, drift, jobVars, auditVars>> /\ \E g : DropGroup(g)
      BY <2>5 DEF DeleteGroup
    <3> QED
      BY <1>a, <2>b, <3>1, GroupKeepsRows
  <2>6. ASSUME NEW op, NEW ids, Inspected(op, ids) PROVE RowsSafe'
    BY <1>a, <2>b, <2>6, TasksAtRest DEF Inspected, Others
  <2>7. CASE Die
    BY <1>a, <2>7, TasksLost, JobsLost, CountsLost DEF Die
  <2> QED
    BY <1>4, <2>2, <2>3, <2>4, <2>5, <2>6, <2>7 DEF Edit, DeleteDirect, ExecuteReviewed
<1>5. CASE CommitDeletion
  <2>1. UNCHANGED <<job, target, executions, runner, exec, batch>>
    BY <1>5 DEF CommitDeletion
  <2>2. DOMAIN run' = DOMAIN run /\ \A k \in DOMAIN run : run'[k].status = run[k].status
    BY <1>5 DEF CommitDeletion, FleetSafe, AuditsShaped
  <2> QED
    BY <1>a, <1>5, <2>1, <2>2, JobsAtRest, CountsStay, DeletionKeepsRows
<1>6. CASE Preview \/ UNCHANGED vars
  BY <1>a, <1>6, JobsAtRest, CountsStay, TasksAtRest DEF Preview, vars
<1> QED
  BY <1>1, <1>2, <1>3, <1>4, <1>5, <1>6 DEF Next

LEMMA RowsAlwaysSafe == Spec => []RowsSafe
BY RowsInit, RowsStep, PTL DEF Spec

-----------------------------------------------------------------------------
(* The theorems *)

\* SummariesAgreeWithRows: what a command job or an audit batch reports is what its
\* rows add up to, whatever dies, is deleted or runs beside it.
THEOREM SummariesAlwaysAgree == Spec => []SummariesAgreeWithRows
<1>1. RowsSafe => SummariesAgreeWithRows
  <2>1. ASSUME RowsSafe PROVE JobAgreesWithTargets
    BY <2>1, AgreementInParts DEF RowsSafe, JobsSafe
  <2>2. ASSUME RowsSafe PROVE BatchCountsItsRuns
    BY <2>2, BatchesCount DEF RowsSafe, FleetSafe, AuditsSafe
  <2> QED
    BY <2>1, <2>2 DEF SummariesAgreeWithRows
<1> QED
  BY <1>1, RowsAlwaysSafe, PTL

\* SecretsAgree: the inventory and the equipment hold the same secret, unless a push
\* failed, a row was edited or two tasks met.
THEOREM SecretsAlwaysAgree == Spec => []SecretsAgree
<1>1. RowsSafe => SecretsAgree
  BY DEF RowsSafe, TasksSafe
<1> QED
  BY <1>1, RowsAlwaysSafe, PTL

\* A row that overlaps what the check had read is refused: the row it does overlap
\* was committed, or moved there, since, or was compared for equality only.
OutranTheCheck(t, f) ==
  /\ at[t] = "commit" /\ at'[t] # "commit" /\ f \in DOMAIN device /\ device'[f] = device[f]
  /\ \/ f \notin DOMAIN work[t].seen
     \/ work[t].seen[f].addr # device[f].addr
     \/ work[t].kind = "quick" /\ device[f].addr # work[t].row.addr

LEMMA SavedBeside ==
  ASSUME NEW t \in Tasks, at[t] = "commit", at'[t] # "commit", NEW addr,
         Passed(t, addr), work[t].kind = "quick" => addr = work[t].row.addr,
         NEW f \in DOMAIN device, device'[f] = device[f], addr.net \cap device[f].addr.net # {}
  PROVE  OutranTheCheck(t, f)
BY DEF NoOverlap, Overlaps, OutranTheCheck, Passed

\* Who changes an address: a task that commits a new row or a row in place of one,
\* with an address that passed its check against what the task had seen.
LEMMA WhoMoves ==
  ASSUME RowsSafe, [Next]_vars
  PROVE  \/ \A d \in DOMAIN device' : d \in DOMAIN device /\ device'[d].addr = device[d].addr
         \/ \E t \in Tasks, d \in FreeIds : \E row :
              /\ device' = WithRow(d, row) /\ RowGood(row)
              /\ at[t] = "commit" /\ at'[t] # "commit"
              /\ Passed(t, row.addr) /\ (work[t].kind = "quick" => row.addr = work[t].row.addr)
              /\ work[t].counted \in Nat /\ work[t].limit \in Nat /\ work[t].counted + 1 <= work[t].limit
         \/ \E t \in Tasks : \E d, row :
              /\ device' = [device EXCEPT ![d] = row]
              /\ at[t] = "commit" /\ at'[t] # "commit" /\ work[t].kind = "update" /\ Passed(t, row.addr)
<1> DEFINE Stand  == \A d \in DOMAIN device' : d \in DOMAIN device /\ device'[d].addr = device[d].addr
           Insert == \E t \in Tasks, d \in FreeIds : \E row :
              /\ device' = WithRow(d, row) /\ RowGood(row)
              /\ at[t] = "commit" /\ at'[t] # "commit"
              /\ Passed(t, row.addr) /\ (work[t].kind = "quick" => row.addr = work[t].row.addr)
              /\ work[t].counted \in Nat /\ work[t].limit \in Nat /\ work[t].counted + 1 <= work[t].limit
           Move   == \E t \in Tasks : \E d, row :
              /\ device' = [device EXCEPT ![d] = row]
              /\ at[t] = "commit" /\ at'[t] # "commit" /\ work[t].kind = "update" /\ Passed(t, row.addr)
<1>1. ASSUME NEW t \in Tasks, CommitDevice(t) PROVE Stand \/ Insert
  <2>1. /\ at[t] = "commit" /\ RowGood(work[t].row) /\ CheckMade(t) /\ work[t].kind \in {"create", "quick"}
        /\ at'[t] = "done"
    BY <1>1, TaskHas, Ended DEF CommitDevice, AtHand, Saving, Requested, RowsSafe, TasksSafe
  <2>2. Passed(t, work[t].row.addr)
    BY <2>1 DEF CheckMade, Saving, Requested
  <2>3. CASE UNCHANGED device
    BY <2>3
  <2>4. CASE device' # device
    BY <1>1, <2>1, <2>2, <2>4 DEF CommitDevice, CheckMade
  <2> QED
    BY <2>3, <2>4
<1>5. ASSUME NEW t \in Tasks, CommitUpdate(t) PROVE Stand \/ Move
  <2>1. /\ at[t] = "commit" /\ CheckMade(t) /\ work[t].kind = "update" /\ at'[t] = "done"
    BY <1>5, TaskHas, Ended DEF CommitUpdate, RowsSafe, TasksSafe
  <2>2. Passed(t, work[t].row.addr)
    BY <2>1 DEF CheckMade, Saving, Requested
  <2>3. CASE UNCHANGED device
    BY <2>3
  <2>4. CASE device' # device
    BY <1>5, <2>1, <2>2, <2>4 DEF CommitUpdate
  <2> QED
    BY <2>3, <2>4
<1>2. ASSUME NEW t \in Tasks, ScanCommit(t) PROVE Stand \/ Insert
  <2>1. /\ at[t] = "commit" /\ work[t].kind = "scan" /\ AtHand(t) /\ CheckMade(t)
        /\ at'[t] # "commit"
    BY <1>2, TaskHas, Ended, Reported DEF ScanCommit, AbortScan, RowsSafe, TasksSafe
  <2>2. PICK row : row = [work[t].row EXCEPT !.secret = work[t].secret]
    OBVIOUS
  <2>3. /\ DOMAIN work[t].row = RowFields /\ work[t].row.addr = HostAddress(Target(t)) /\ Target(t) \in Hosts
        /\ NoOverlap(HostAddress(Target(t)), work[t].seen)
    BY <2>1 DEF AtHand, Scanning, Named, Target, CheckMade, Passed, Checked
  <2>4. RowGood(row) /\ Passed(t, row.addr)
    BY <2>1, <2>2, <2>3 DEF RowGood, RowFields, HostAddress, Passed
  <2>5. CASE UNCHANGED device
    BY <2>5
  <2>6. CASE device' # device
    <3>1. \E d \in FreeIds : device' = WithRow(d, row)
      BY <1>2, <2>2, <2>6 DEF ScanCommit, AbortScan
    <3> QED
      BY <2>1, <2>4, <3>1 DEF CheckMade, Passed
  <2> QED
    BY <2>5, <2>6
<1>3. ASSUME NEW t \in Tasks, NEW d \in Devices, ApplyAaa(t, d) PROVE Stand
  BY <1>3 DEF ApplyAaa, RowsSafe, TasksSafe, RowsShaped, RowGood, RowFields
<1>4. InventoryStep => Stand \/ Insert \/ Move
  <2>1. ASSUME NEW t \in Tasks, NEW d \in Devices,
               \/ CreateDevice(t) \/ QuickAddDevice(t) \/ QuickLimit(t) \/ UpdateDevice(t, d) \/ FlushDevice(t)
               \/ StartScan(t) \/ ScanCheck(t) \/ ScanGather(t) \/ ScanApply(t) \/ ScanLicence(t) \/ PushAaa(t)
        PROVE  UNCHANGED device
    BY <2>1 DEF CreateDevice, QuickAddDevice, QuickLimit, UpdateDevice, FlushDevice, StartScan, ScanCheck,
                ScanGather, ScanApply, ScanLicence, PushAaa
  <2>2. ASSUME NEW t \in Tasks,
               \/ CreateDevice(t) \/ QuickAddDevice(t) \/ QuickLimit(t) \/ FlushDevice(t)
               \/ StartScan(t) \/ ScanCheck(t) \/ ScanGather(t) \/ ScanApply(t) \/ ScanLicence(t) \/ PushAaa(t)
        PROVE  UNCHANGED device
    BY <2>2 DEF CreateDevice, QuickAddDevice, QuickLimit, FlushDevice, StartScan, ScanCheck,
                ScanGather, ScanApply, ScanLicence, PushAaa
  <2> QED
    BY <1>1, <1>2, <1>3, <1>5, <2>1, <2>2 DEF InventoryStep, StartTask, TaskStep
<1>6. CommandStep \/ SecurityStep => UNCHANGED device
  <2>1. CommandStep => UNCHANGED device
    BY DEF CommandStep, StartJob, JobStep, CreateJob, RunJob, FinishJob, Connect, CommandsSent,
           TargetFails, TargetCompletes, inventory
  <2>2. SecurityStep => UNCHANGED device
    BY SecurityEffect DEF RowsSafe, FleetSafe, AuditsSafe, InventoryStays
  <2> QED
    BY <2>1, <2>2
<1>7. Edit => Stand
  <2>1. DeleteGroup => Stand
    BY DEF DeleteGroup, DropGroup, RowsSafe, TasksSafe, RowsShaped, RowGood, RowFields
  <2>2. ChangeLicence \/ UpdateSchedule \/ SaveCredentials \/ SavePolicy \/ Die => UNCHANGED device
    BY DEF ChangeLicence, UpdateSchedule, SaveCredentials, SavePolicy, Die, inventory
  <2>3. \A op, ids : Inspected(op, ids) => UNCHANGED device
    BY DEF Inspected, Others
  <2> QED
    BY <2>1, <2>2, <2>3 DEF Edit, DeleteDirect, ExecuteReviewed
<1>8. CommitDeletion => Stand
  BY DEF CommitDeletion
<1>9. Preview \/ UNCHANGED vars => UNCHANGED device
  BY DEF Preview, vars, inventory
<1> QED
  BY <1>4, <1>6, <1>7, <1>8, <1>9 DEF Next

\* ChecksAreOutrunByRacesOnly: rows overlap, or pass the licence's limit, only when
\* another row was committed, or moved, between a check and the commit it was for,
\* or through quick-add, which compares addresses and sees no network.
THEOREM ChecksAlwaysHold == Spec => ChecksAreOutrunByRacesOnly
<1> DEFINE Overlapping == \A d, e \in DOMAIN device' :
             /\ d # e /\ device'[d].addr.net \cap device'[e].addr.net # {}
             /\ ~(/\ d \in DOMAIN device /\ e \in DOMAIN device
                  /\ device[d].addr = device'[d].addr /\ device[e].addr = device'[e].addr)
             => \E t \in Tasks, f \in {d, e} \cap DOMAIN device :
                  /\ at[t] = "commit" /\ at'[t] # "commit" /\ device'[f] = device[f]
                  /\ \/ f \notin DOMAIN work[t].seen
                     \/ work[t].seen[f].addr # device[f].addr
                     \/ work[t].kind = "quick" /\ device[f].addr # work[t].row.addr
           Limited == DOMAIN device' \ DOMAIN device # {} =>
             \/ Cardinality(DOMAIN device') <= HookLimit
             \/ \E t \in Tasks : at[t] = "commit" /\ at'[t] # "commit"
                                 /\ (Cardinality(DOMAIN device) > work[t].counted \/ HookLimit < work[t].limit)
\* One row is saved by a task, the others stand.
<1>a. ASSUME NEW t \in Tasks, at[t] = "commit", at'[t] # "commit", NEW d, NEW addr,
             DOMAIN device' \subseteq DOMAIN device \cup {d},
             d \in DOMAIN device' => device'[d].addr = addr,
             \A e \in DOMAIN device \ {d} : device'[e] = device[e],
             Passed(t, addr), work[t].kind = "quick" => addr = work[t].row.addr
      PROVE  Overlapping
  <2>1. ASSUME NEW f \in DOMAIN device \ {d}, addr.net \cap device[f].addr.net # {}
        PROVE  OutranTheCheck(t, f)
    BY <1>a, <2>1, SavedBeside
  <2>2. ASSUME NEW e \in DOMAIN device', NEW f \in DOMAIN device', e # f,
               device'[e].addr.net \cap device'[f].addr.net # {},
               ~(/\ e \in DOMAIN device /\ f \in DOMAIN device
                 /\ device[e].addr = device'[e].addr /\ device[f].addr = device'[f].addr)
        PROVE  \E g \in {e, f} \cap DOMAIN device : OutranTheCheck(t, g)
    <3>1. CASE e = d
      BY <1>a, <2>1, <2>2, <3>1
    <3>2. CASE f = d
      BY <1>a, <2>1, <2>2, <3>2
    <3>3. CASE e # d /\ f # d
      BY <1>a, <2>2, <3>3
    <3> QED
      BY <3>1, <3>2, <3>3
  <2> QED
    BY <2>2 DEF OutranTheCheck
<1>1. ASSUME RowsSafe,
             \A d \in DOMAIN device' : d \in DOMAIN device /\ device'[d].addr = device[d].addr
      PROVE  Overlapping /\ Limited
  BY <1>1
<1>2. ASSUME RowsSafe, NEW t \in Tasks, NEW d, NEW row, device' = [device EXCEPT ![d] = row],
             at[t] = "commit", at'[t] # "commit", work[t].kind = "update", Passed(t, row.addr)
      PROVE  Overlapping /\ Limited
  <2>1. /\ DOMAIN device' = DOMAIN device /\ (d \in DOMAIN device' => device'[d] = row)
        /\ \A e \in DOMAIN device \ {d} : device'[e] = device[e]
    BY <1>2
  <2>2. Overlapping
    BY <1>a, <1>2, <2>1
  <2> QED
    BY <2>1, <2>2
<1>3. ASSUME RowsSafe, NEW t \in Tasks, NEW d \in FreeIds, NEW row,
             device' = WithRow(d, row), RowGood(row),
             at[t] = "commit", at'[t] # "commit", Passed(t, row.addr),
             work[t].kind = "quick" => row.addr = work[t].row.addr,
             work[t].counted \in Nat, work[t].limit \in Nat, work[t].counted + 1 <= work[t].limit
      PROVE  Overlapping /\ Limited
  <2>1. /\ DOMAIN device' = DOMAIN device \cup {d} /\ device'[d] = row
        /\ \A e \in DOMAIN device : device'[e] = device[e]
        /\ Cardinality(DOMAIN device') = Cardinality(DOMAIN device) + 1
    <3>1. IsFiniteSet(DOMAIN device)
      BY <1>3 DEF RowsSafe, TasksSafe, RowsShaped
    <3>2. /\ DOMAIN device' = DOMAIN device \cup {d} /\ d \notin DOMAIN device /\ device'[d] = row
          /\ \A e \in DOMAIN device : device'[e] = device[e]
      BY <1>3 DEF WithRow, FreeIds
    <3> QED
      BY <3>1, <3>2, FS_AddElement
  <2>3. Overlapping
    BY <1>a, <1>3, <2>1
  <2>4. Limited
    <3>1. Cardinality(DOMAIN device) \in Nat /\ HookLimit \in Nat
      BY <1>3, DevicesCount, InventoryAssumption DEF RowsSafe, TasksSafe, HookLimit
    <3>2. \/ Cardinality(DOMAIN device) > work[t].counted
          \/ HookLimit < work[t].limit
          \/ Cardinality(DOMAIN device) + 1 <= HookLimit
      BY <1>3, <3>1
    <3> QED
      BY <1>3, <2>1, <3>2
  <2> QED
    BY <2>3, <2>4
<1>4. RowsSafe /\ [Next]_vars => Overlapping /\ Limited
  BY <1>1, <1>2, <1>3, WhoMoves
<1> HIDE DEF Overlapping, Limited
<1>5. RowsSafe /\ [Next]_vars => [Overlapping]_device /\ [Limited]_device
  BY <1>4
<1>6. Spec => [][Overlapping]_device /\ [][Limited]_device
  BY <1>5, RowsAlwaysSafe, PTL DEF Spec
<1> QED
  BY <1>6 DEF ChecksAreOutrunByRacesOnly, OverlapOutranItsCheck, LimitOutranItsCount, Overlapping, Limited

-----------------------------------------------------------------------------
(* Accounts and roles: no sequence of edits locks everybody, or an editor,  *)
(* out, for every set of accounts, names, roles, hosts and allow-lists.     *)

\* Rows are forms, and a role that an account refers to is there.
RowsAreForms ==
  /\ \A a \in DOMAIN account : account[a] \in Forms
  /\ DOMAIN account \subseteq Admins

RolesResolve ==
  /\ DOMAIN role \subseteq Roles
  /\ \A a \in DOMAIN account : RoleResolves(account[a])

\* The latest edit of an own account left its author able to come back.
SelfEditIsSafe ==
  own # None => /\ own[1] \in DOMAIN account /\ account[own[1]].active
                /\ Allowed(account[own[1]].trusted, own[2])

AccountsSafe ==
  /\ RowsAreForms
  /\ RolesResolve
  /\ SelfEditIsSafe
  /\ ActiveSuperadmins # {}

\* A form keeps its other fields when its role changes.
LEMMA NewRole ==
  ASSUME NEW form \in Forms, NEW r \in Roles \cup {None}
  PROVE  /\ [form EXCEPT !.role = r] \in Forms
         /\ [form EXCEPT !.role = r].role = r
         /\ [form EXCEPT !.role = r].super = form.super
         /\ [form EXCEPT !.role = r].active = form.active
         /\ [form EXCEPT !.role = r].trusted = form.trusted
BY DEF Forms

\* An editor is an active superadmin.
LEMMA EditorsAreSuperadmins == Editors \subseteq ActiveSuperadmins
BY DEF Editors, Signed, Holder, ActiveSuperadmins

\* The account the installer creates.
LEMMA AccountsInit ==
  ASSUME InitAccounts PROVE AccountsSafe
<1>1. PICK a \in Admins, name \in Usernames :
        account = [b \in {a} |-> [name |-> name, active |-> TRUE, super |-> TRUE,
                                  trusted |-> {}, role |-> None]]
  BY DEF InitAccounts
<1>2. DOMAIN account = {a} /\ account[a] = [name |-> name, active |-> TRUE, super |-> TRUE,
                                            trusted |-> {}, role |-> None]
  BY <1>1
<1>3. RowsAreForms
  <2>1. {} \in AllowLists
    BY AccountsAssumption
  <2>2. account[a] \in Forms
    BY <1>2, <2>1 DEF Forms
  <2> QED
    BY <1>2, <2>2 DEF RowsAreForms
<1>4. RolesResolve /\ SelfEditIsSafe
  BY <1>2, AccountsAssumption DEF InitAccounts, RolesResolve, RoleResolves, SelfEditIsSafe
<1>5. a \in ActiveSuperadmins
  BY <1>2 DEF ActiveSuperadmins
<1> QED
  BY <1>3, <1>4, <1>5 DEF AccountsSafe

\* Every edit leaves an active superadmin: its author, or another one.
LEMMA AccountsStep ==
  ASSUME AccountsSafe, [NextAccounts]_accountVars PROVE AccountsSafe'
<1> USE DEF AccountsSafe
<1>1. CASE UNCHANGED <<account, role, own>>
  BY <1>1 DEF RowsAreForms, RolesResolve, RoleResolves, SelfEditIsSafe, Allowed,
              ActiveSuperadmins
<1>2. CASE Restart
  BY <1>2, AccountsAssumption DEF Restart, RowsAreForms, RolesResolve, RoleResolves,
              SelfEditIsSafe, Allowed, ActiveSuperadmins
<1>3. ASSUME NEW form \in Forms, CreateAdminUser(form) PROVE AccountsSafe'
  <2>1. PICK a \in Admins \ DOMAIN account :
          account' = [b \in DOMAIN account \cup {a} |-> IF b = a THEN form ELSE account[b]]
    BY <1>3 DEF CreateAdminUser
  <2>2. /\ DOMAIN account' = DOMAIN account \cup {a}
        /\ account'[a] = form
        /\ \A b \in DOMAIN account : account'[b] = account[b]
    BY <2>1
  <2>3. RowsAreForms'
    BY <2>2 DEF RowsAreForms
  <2>4. RolesResolve' /\ SelfEditIsSafe'
    BY <1>3, <2>2 DEF CreateAdminUser, RolesResolve, RoleResolves, SelfEditIsSafe
  <2>5. ActiveSuperadmins \subseteq ActiveSuperadmins'
    BY <2>2 DEF ActiveSuperadmins
  <2> QED
    BY <2>3, <2>4, <2>5
<1>4. ASSUME NEW editor \in Editors, NEW host \in Sources, NEW a \in DOMAIN account,
             NEW form \in Forms, UpdateAdminUser(editor, host, a, form)
      PROVE  AccountsSafe'
  <2>1. /\ DOMAIN account' = DOMAIN account
        /\ account'[a] = form
        /\ \A b \in DOMAIN account \ {a} : account'[b] = account[b]
        /\ UNCHANGED role
    BY <1>4 DEF UpdateAdminUser
  <2>2. RowsAreForms' /\ RolesResolve'
    BY <1>4, <2>1 DEF UpdateAdminUser, RowsAreForms, RolesResolve, RoleResolves
  <2>3. SelfEditIsSafe'
    <3>1. CASE a = editor
      BY <1>4, <2>1, <3>1 DEF UpdateAdminUser, SelfEditIsSafe
    <3>2. CASE a # editor
      BY <1>4, <3>2 DEF UpdateAdminUser, SelfEditIsSafe
    <3> QED
      BY <3>1, <3>2
  <2>4. ActiveSuperadmins' # {}
    <3>1. ActiveSuperadmins \ {a} \subseteq ActiveSuperadmins'
      BY <2>1 DEF ActiveSuperadmins
    <3>2. CASE a = editor /\ ~IsLast(a)
      BY <3>1, <3>2, EditorsAreSuperadmins DEF IsLast
    <3>3. CASE IsLast(a)
      BY <1>4, <2>1, <3>3 DEF UpdateAdminUser, ActiveSuperadmins
    <3>4. CASE a # editor
      BY <3>1, <3>4, EditorsAreSuperadmins
    <3> QED
      BY <3>2, <3>3, <3>4
  <2> QED
    BY <2>2, <2>3, <2>4
<1>5. ASSUME NEW editor \in Editors, NEW a \in DOMAIN account, DeleteAdminUser(editor, a)
      PROVE  AccountsSafe'
  <2>1. /\ DOMAIN account' = DOMAIN account \ {a}
        /\ \A b \in DOMAIN account \ {a} : account'[b] = account[b]
        /\ UNCHANGED role /\ own' = None
    BY <1>5 DEF DeleteAdminUser
  <2>2. RowsAreForms' /\ RolesResolve' /\ SelfEditIsSafe'
    BY <2>1 DEF RowsAreForms, RolesResolve, RoleResolves, SelfEditIsSafe
  <2>3. editor \in ActiveSuperadmins'
    BY <1>5, <2>1, EditorsAreSuperadmins DEF DeleteAdminUser, ActiveSuperadmins
  <2> QED
    BY <2>2, <2>3
<1>6. ASSUME NEW r \in Roles, NEW permissions \in SUBSET Permissions, CreateRole(r, permissions)
      PROVE  AccountsSafe'
  BY <1>6 DEF CreateRole, RowsAreForms, RolesResolve, RoleResolves, SelfEditIsSafe,
              ActiveSuperadmins
\* What renaming and deleting a role do to the accounts that have it.
<1>role. ASSUME NEW r \in Roles, NEW new, new \in Roles \cup {None},
                account' = [a \in DOMAIN account |->
                              IF account[a].role = r THEN [account[a] EXCEPT !.role = new]
                              ELSE account[a]]
         PROVE  /\ RowsAreForms'
                /\ ActiveSuperadmins' = ActiveSuperadmins
                /\ DOMAIN account' = DOMAIN account
                /\ \A a \in DOMAIN account :
                     account'[a].role = IF account[a].role = r THEN new ELSE account[a].role
  <2>1. DOMAIN account' = DOMAIN account
    BY <1>role
  <2>2. ASSUME NEW a \in DOMAIN account
        PROVE  /\ account'[a] \in Forms
               /\ account'[a].super = account[a].super
               /\ account'[a].active = account[a].active
               /\ account'[a].role = IF account[a].role = r THEN new ELSE account[a].role
    <3>1. account[a] \in Forms
      BY DEF RowsAreForms
    <3>2. CASE account[a].role = r
      BY <1>role, <3>1, <3>2, NewRole
    <3>3. CASE account[a].role # r
      BY <1>role, <3>1, <3>3
    <3> QED
      BY <3>2, <3>3
  <2> QED
    BY <2>1, <2>2 DEF RowsAreForms, ActiveSuperadmins
<1>7. ASSUME NEW r \in Roles, NEW new \in Roles, NEW permissions \in SUBSET Permissions,
             UpdateRole(r, new, permissions)
      PROVE  AccountsSafe'
  <2>1. /\ RowsAreForms' /\ ActiveSuperadmins' = ActiveSuperadmins
        /\ DOMAIN account' = DOMAIN account
        /\ \A a \in DOMAIN account :
             account'[a].role = IF account[a].role = r THEN new ELSE account[a].role
    <3>1. /\ new \in Roles \cup {None}
          /\ account' = [a \in DOMAIN account |->
                           IF account[a].role = r THEN [account[a] EXCEPT !.role = new]
                           ELSE account[a]]
      BY <1>7 DEF UpdateRole
    <3> QED
      BY <3>1, <1>role
  <2>2. DOMAIN role' = (DOMAIN role \ {r}) \cup {new} /\ own' = None
    BY <1>7 DEF UpdateRole
  <2> QED
    BY <2>1, <2>2 DEF RolesResolve, RoleResolves, SelfEditIsSafe
<1>8. ASSUME NEW r \in Roles, DeleteRole(r) PROVE AccountsSafe'
  <2>1. /\ RowsAreForms' /\ ActiveSuperadmins' = ActiveSuperadmins
        /\ DOMAIN account' = DOMAIN account
        /\ \A a \in DOMAIN account :
             account'[a].role = IF account[a].role = r THEN None ELSE account[a].role
    <3>1. /\ None \in Roles \cup {None}
          /\ account' = [a \in DOMAIN account |->
                           IF account[a].role = r THEN [account[a] EXCEPT !.role = None]
                           ELSE account[a]]
      BY <1>8 DEF DeleteRole
    <3> QED
      BY <3>1, <1>role
  <2>2. DOMAIN role' = DOMAIN role \ {r} /\ own' = None
    BY <1>8 DEF DeleteRole
  <2> QED
    BY <2>1, <2>2 DEF RolesResolve, RoleResolves, SelfEditIsSafe
<1>9. ASSUME NEW name, NEW host, Login(name, host) \/ Leave(name)
      PROVE  UNCHANGED <<account, role, own>>
  BY <1>9 DEF Login, Leave
<1>10. UNCHANGED accountVars => UNCHANGED <<account, role, own>>
  BY DEF accountVars
<1> QED
  BY <1>1, <1>2, <1>3, <1>4, <1>5, <1>6, <1>7, <1>8, <1>9, <1>10 DEF NextAccounts, EditAccounts

\* No sequence of edits by any number of administrators, renamed and deleted roles
\* included, takes away the last active superadmin, the address an editor works from,
\* or every permission of an account whose role was deleted.
THEOREM SomebodyCanComeBack == SpecAccounts => []NobodyIsLockedOut
<1>1. InitAccounts => AccountsSafe
  BY AccountsInit
<1>2. AccountsSafe /\ [NextAccounts]_accountVars => AccountsSafe'
  BY AccountsStep
<1>3. AccountsSafe => NobodyIsLockedOut
  BY AccountsAssumption
     DEF AccountsSafe, NobodyIsLockedOut, SelfEditIsSafe, RolesResolve, RoleResolves, Granted
<1> QED
  BY <1>1, <1>2, <1>3, PTL DEF SpecAccounts
=============================================================================
