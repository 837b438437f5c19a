------------------------------ MODULE NcmArchive -----------------------------
(***************************************************************************)
(* The archive of configuration snapshots: services/ncm_archive.py, the    *)
(* retention of services/ncm_retention.py, the backup that a deployment    *)
(* pins (_backup_now of services/ncm_deploy.py) and the snapshot and       *)
(* baseline handlers of api/routes_ncm.py, for one configuration type.     *)
(*                                                                         *)
(* A scheduled run holds the backup writer over several transactions and   *)
(* works beside the requests: it reads the archive, then writes what it    *)
(* concluded.  A request's transactions exclude one another (the gate of   *)
(* services/reference_lock.py), so each of them is one action here.  Which *)
(* schedule runs, and when, is the subject of NcmSchedule; what a          *)
(* deployment does with its snapshots that of NcmDeploy.                   *)
(***************************************************************************)
EXTENDS Integers

CONSTANTS
  Devices,      \* identities of devices
  Contents,     \* configurations a device may run
  Schedules,    \* identities of schedules; each has one executor at most
  Deployments,  \* identities of deployments
  MaxSnapshots, \* BOUND: snapshots ever archived
  None          \* NULL

Snapshots == 1..MaxSnapshots    \* in the order of their creation
Versions  == 1..(MaxSnapshots + 1)

ASSUME ArchiveAssumption ==
  /\ MaxSnapshots \in Nat
  /\ None \notin Devices \cup Contents \cup Schedules \cup Deployments
  /\ None \notin Int

VARIABLES
  running,      \* the configuration each device runs
  snapshot,     \* rows of ncm_configurations
  baseline,     \* rows of ncm_baselines, with what they repeat of the snapshot
  pin,          \* the two snapshot columns of ncm_deployments
  writer,       \* the schedule whose run holds the lock 'backup-writer'
  stage,        \* where each schedule's run is
  horizon,      \* the first row a run finds vacant: older rows precede the run
  seen,         \* what a run has read and is going to archive
  protected     \* what a run has found worth keeping

archived == <<snapshot, baseline, pin>>
scheduled == <<writer, stage, horizon, seen, protected>>
vars == <<running, snapshot, baseline, pin, writer, stage, horizon, seen, protected>>

-----------------------------------------------------------------------------
(* Data *)

Gone(fate) == [fate |-> fate, device |-> None, content |-> None,
               version |-> 0, schedule |-> None]
NoBaseline == [snap |-> None, version |-> 0, content |-> None]
NoPins     == [pre |-> None, post |-> None]
Nothing    == [device |-> None, content |-> None, version |-> 0]

Kept(dev) == {i \in Snapshots : snapshot[i].fate = "kept" /\ snapshot[i].device = dev}

\* latest_configuration: the highest version number.
Latest(dev) ==
  {i \in Kept(dev) : \A k \in Kept(dev) : snapshot[k].version <= snapshot[i].version}

\* The digest differs from the latest snapshot's, or there is none.
Changed(dev) == \A i \in Latest(dev) : snapshot[i].content # running[dev]

\* _next_version_number: MAX(version_number) + 1.
IsNextVersion(dev, v) ==
  /\ \A i \in Kept(dev) : snapshot[i].version < v
  /\ v = 1 \/ \E i \in Kept(dev) : snapshot[i].version = v - 1

IsFresh(i) ==
  /\ snapshot[i].fate = "none"
  /\ \A k \in Snapshots : k < i => snapshot[k].fate # "none"

\* Every row before i is taken and none from i on.
IsHorizon(i) ==
  \A k \in Snapshots : k < i <=> snapshot[k].fate # "none"

Baselined == {baseline[dev].snap : dev \in Devices} \ {None}
Pinned    == {pin[d][column] : d \in Deployments, column \in {"pre", "post"}} \ {None}

-----------------------------------------------------------------------------
(* Writing and removing rows *)

\* Variant with a fault: the row does not say whose configuration it is.
InsertOrphan(i, dev, content, version, s) ==
  snapshot' = [snapshot EXCEPT ![i] =
    [fate |-> "kept", device |-> None, content |-> content, version |-> version,
     schedule |-> s]]

Insert(i, dev, content, version, s) ==
  snapshot' = [snapshot EXCEPT ![i] =
    [fate |-> "kept", device |-> dev, content |-> content, version |-> version,
     schedule |-> s]]

\* Variant with a fault: a baseline keeps pointing at a deleted snapshot.
RemoveUnderBaseline(rows, fate) ==
  /\ snapshot' = [i \in Snapshots |-> IF i \in rows THEN Gone(fate) ELSE snapshot[i]]
  /\ pin' = [d \in Deployments |->
       [pre  |-> IF pin[d].pre \in rows THEN None ELSE pin[d].pre,
        post |-> IF pin[d].post \in rows THEN None ELSE pin[d].post]]
  /\ UNCHANGED baseline

\* The foreign keys that point at a deleted snapshot become NULL.
Remove(rows, fate) ==
  /\ snapshot' = [i \in Snapshots |-> IF i \in rows THEN Gone(fate) ELSE snapshot[i]]
  /\ baseline' = [dev \in Devices |->
       IF baseline[dev].snap \in rows THEN [baseline[dev] EXCEPT !.snap = None]
       ELSE baseline[dev]]
  /\ pin' = [d \in Deployments |->
       [pre  |-> IF pin[d].pre \in rows THEN None ELSE pin[d].pre,
        post |-> IF pin[d].post \in rows THEN None ELSE pin[d].post]]

SetPin(d, column, i) == pin' = [pin EXCEPT ![d][column] = i]

-----------------------------------------------------------------------------
(* A scheduled run: run_schedule, _run_backup, prune *)

Open(s) ==
  /\ stage[s] = "idle"
  /\ writer = None
  /\ writer' = s
  /\ stage' = [stage EXCEPT ![s] = "backup"]
  /\ \E i \in Versions : IsHorizon(i) /\ horizon' = [horizon EXCEPT ![s] = i]
  /\ UNCHANGED <<running, archived, seen, protected>>

\* archive_configuration up to the insertion: an unchanged configuration
\* writes nothing.
Inspect(s, dev) ==
  /\ stage[s] = "backup"
  /\ Changed(dev)
  /\ \E v \in Versions :
       /\ IsNextVersion(dev, v)
       /\ seen' = [seen EXCEPT ![s] =
            [device |-> dev, content |-> running[dev], version |-> v]]
  /\ stage' = [stage EXCEPT ![s] = "store"]
  /\ UNCHANGED <<running, archived, writer, horizon, protected>>

Store(s) ==
  /\ stage[s] = "store"
  /\ \E i \in Snapshots :
       /\ IsFresh(i)
       /\ Insert(i, seen[s].device, seen[s].content, seen[s].version, s)
  /\ stage' = [stage EXCEPT ![s] = "backup"]
  /\ seen' = [seen EXCEPT ![s] = Nothing]
  /\ UNCHANGED <<running, baseline, pin, writer, horizon, protected>>

\* prune, the queries of what has to stay.
ReadProtected(s) ==
  /\ stage[s] = "backup"
  /\ protected' = [protected EXCEPT ![s] =
       Baselined \cup Pinned \cup UNION {Latest(dev) : dev \in Devices}]
  /\ stage' = [stage EXCEPT ![s] = "prune"]
  /\ UNCHANGED <<running, archived, writer, horizon, seen>>

\* The end of run_schedule: after retention, or at any time when the process
\* dies or an exception rolls its transaction back.
Close(s) ==
  /\ writer' = IF writer = s THEN None ELSE writer
  /\ stage' = [stage EXCEPT ![s] = "idle"]
  /\ horizon' = [horizon EXCEPT ![s] = 1]
  /\ seen' = [seen EXCEPT ![s] = Nothing]
  /\ protected' = [protected EXCEPT ![s] = {}]

\* prune, the query of the schedule's old snapshots and their deletion.  Those
\* created before the cutoff are the first ones; retention_days is at least
\* one, so none of them is of this run.
Prune(s, cutoff) ==
  /\ stage[s] = "prune"
  /\ cutoff <= horizon[s]
  /\ Remove({i \in Snapshots : /\ snapshot[i].fate = "kept"
                               /\ snapshot[i].schedule = s
                               /\ i < cutoff
                               /\ i \notin protected[s]}, "pruned")
  /\ Close(s)
  /\ UNCHANGED running

Leave(s) ==
  /\ stage[s] # "idle"
  /\ Close(s)
  /\ UNCHANGED <<running, archived>>

-----------------------------------------------------------------------------
(* Requests *)

\* archive_configuration in one transaction: i is the snapshot that shows what
\* the device runs, new or already there.
Archive(dev, i) ==
  /\ \/ /\ i \in Latest(dev)
        /\ snapshot[i].content = running[dev]
        /\ UNCHANGED snapshot
     \/ /\ Changed(dev)
        /\ IsFresh(i)
        /\ \E v \in Versions : IsNextVersion(dev, v) /\ Insert(i, dev, running[dev], v, None)
  /\ UNCHANGED <<running, baseline, scheduled>>

\* Variants with a fault: the lock is not taken.
PinBackupUnlocked(d, column, dev, i) == Archive(dev, i) /\ SetPin(d, column, i)
PlainBackupUnlocked(dev, i) == Archive(dev, i) /\ UNCHANGED pin

\* _backup_now for a deployment: the transaction that archives also pins.
PinBackup(d, column, dev, i) == writer = None /\ Archive(dev, i) /\ SetPin(d, column, i)

\* A backup that nothing points at: after a rollback, or a manual one.
PlainBackup(dev, i) == writer = None /\ Archive(dev, i) /\ UNCHANGED pin

\* delete_configuration.  It does not take the writer.
DeleteConfiguration(i) ==
  /\ snapshot[i].fate = "kept"
  /\ Remove({i}, "deleted")
  /\ UNCHANGED <<running, scheduled>>

\* Variant with a fault: the lock is not taken.
SetBaselineUnlocked(dev, i) ==
  /\ i \in Kept(dev)
  /\ baseline' = [baseline EXCEPT ![dev] =
       [snap |-> i, version |-> snapshot[i].version, content |-> snapshot[i].content]]
  /\ UNCHANGED <<running, snapshot, pin, scheduled>>

SetBaseline(dev, i) ==
  /\ writer = None
  /\ i \in Kept(dev)
  /\ baseline' = [baseline EXCEPT ![dev] =
       [snap |-> i, version |-> snapshot[i].version, content |-> snapshot[i].content]]
  /\ UNCHANGED <<running, snapshot, pin, scheduled>>

ClearBaseline(dev) ==
  /\ baseline[dev] # NoBaseline
  /\ baseline' = [baseline EXCEPT ![dev] = NoBaseline]
  /\ UNCHANGED <<running, snapshot, pin, scheduled>>

\* The device is reconfigured, by a deployment or behind the platform's back.
Reconfigure(dev, content) ==
  /\ running[dev] # content
  /\ running' = [running EXCEPT ![dev] = content]
  /\ UNCHANGED <<archived, scheduled>>

-----------------------------------------------------------------------------
Init ==
  /\ running \in [Devices -> Contents]
  /\ snapshot = [i \in Snapshots |-> Gone("none")]
  /\ baseline = [dev \in Devices |-> NoBaseline]
  /\ pin = [d \in Deployments |-> NoPins]
  /\ writer = None
  /\ stage = [s \in Schedules |-> "idle"]
  /\ horizon = [s \in Schedules |-> 1]
  /\ seen = [s \in Schedules |-> Nothing]
  /\ protected = [s \in Schedules |-> {}]

ScheduledRun(s) ==
  \/ Open(s)
  \/ \E dev \in Devices : Inspect(s, dev)
  \/ Store(s)
  \/ ReadProtected(s)
  \/ \E cutoff \in Versions : Prune(s, cutoff)
  \/ Leave(s)

Request ==
  \/ \E dev \in Devices : ClearBaseline(dev)
  \/ \E i \in Snapshots :
       \/ DeleteConfiguration(i)
       \/ \E dev \in Devices :
            \/ PlainBackup(dev, i)
            \/ SetBaseline(dev, i)
            \/ \E d \in Deployments, column \in {"pre", "post"} : PinBackup(d, column, dev, i)

Next ==
  \/ \E s \in Schedules : ScheduledRun(s)
  \/ Request
  \/ \E dev \in Devices, content \in Contents : Reconfigure(dev, content)

Spec == Init /\ [][Next]_vars

-----------------------------------------------------------------------------
(* Properties *)

Rows ==
  {Gone(fate) : fate \in {"none", "deleted", "pruned"}}
    \cup [fate : {"kept"}, device : Devices, content : Contents, version : Versions,
          schedule : Schedules \cup {None}]

\* Every variable has its type; a kept snapshot is some device's configuration.
TypeOK ==
  /\ running \in [Devices -> Contents]
  /\ snapshot \in [Snapshots -> Rows]
  /\ baseline \in [Devices -> [snap : Snapshots \cup {None},
                               version : Versions \cup {0},
                               content : Contents \cup {None}]]
  /\ pin \in [Deployments -> [pre : Snapshots \cup {None}, post : Snapshots \cup {None}]]
  /\ writer \in Schedules \cup {None}
  /\ stage \in [Schedules -> {"idle", "backup", "store", "prune"}]
  /\ horizon \in [Schedules -> Versions]
  /\ seen \in [Schedules -> [device : Devices \cup {None}, content : Contents \cup {None},
                             version : Versions \cup {0}]]
  /\ protected \in [Schedules -> SUBSET Snapshots]

\* Version numbers follow the order in which a device's snapshots were taken,
\* so that no two of them share one and "the latest" is the last one taken,
\* although the number is read before it is used and numbers are taken up
\* again after a deletion.
VersionsFollowHistory ==
  \A i, k \in Snapshots :
    /\ snapshot[i].fate = "kept" /\ snapshot[k].fate = "kept"
    /\ snapshot[i].device = snapshot[k].device
    /\ i < k
    => snapshot[i].version < snapshot[k].version

\* What a baseline repeats of its snapshot is what the snapshot says, and the
\* snapshot is there and is the device's own.
BaselineAgreesWithArchive ==
  \A dev \in Devices : baseline[dev].snap # None =>
    LET row == snapshot[baseline[dev].snap] IN
    /\ row.fate = "kept"
    /\ row.device = dev
    /\ row.version = baseline[dev].version
    /\ row.content = baseline[dev].content

IsPruned(i) == snapshot[i].fate = "kept" /\ snapshot'[i].fate = "pruned"

\* Retention never removes a snapshot that is, at that moment, a baseline or
\* the rollback or verification point of a deployment, although it decides
\* what to keep before it deletes.
PinnedIsNotPruned ==
  [][\A i \in Snapshots : IsPruned(i) => i \notin Baselined \cup Pinned]_vars

-----------------------------------------------------------------------------
(* The inductive invariant behind the safety properties *)

\* A run that is under way holds the writer.
RunHoldsWriter == \A s \in Schedules : stage[s] # "idle" => writer = s

\* What a run is going to archive is a configuration of a device, and its
\* number is still higher than any that the device has.
NumberStillNext ==
  \A s \in Schedules : stage[s] = "store" =>
    /\ seen[s].device \in Devices
    /\ seen[s].content \in Contents
    /\ seen[s].version \in Versions
    /\ \A i \in Kept(seen[s].device) : snapshot[i].version < seen[s].version

\* What was worth keeping when retention looked still includes all that is.
StillProtected ==
  \A s \in Schedules : stage[s] = "prune" => Baselined \cup Pinned \subseteq protected[s]

\* Rows are taken in order.
RowsInOrder ==
  \A i, k \in Snapshots : i < k /\ snapshot[i].fate = "none" => snapshot[k].fate = "none"

\* What a deployment points at is there.
PinsAreKept ==
  \A d \in Deployments : \A column \in {"pre", "post"} :
    pin[d][column] # None => snapshot[pin[d][column]].fate = "kept"

Safe ==
  /\ TypeOK
  /\ RunHoldsWriter
  /\ NumberStillNext
  /\ StillProtected
  /\ RowsInOrder
  /\ VersionsFollowHistory
  /\ BaselineAgreesWithArchive
  /\ PinsAreKept

=============================================================================
