-------------------------- MODULE NcmArchive_proofs -------------------------
(***************************************************************************)
(* Safety of NcmArchive for every set of devices, configurations,          *)
(* schedules and deployments and for any number of snapshots.              *)
(***************************************************************************)
EXTENDS NcmArchive, TLAPS

-----------------------------------------------------------------------------
(* Types *)

\* The assumption on the constants, in the form the proofs use it.
LEMMA Constants ==
  /\ MaxSnapshots \in Nat
  /\ Snapshots \subseteq Nat /\ Versions \subseteq Nat
  /\ 1 \in Versions /\ 0 \notin Versions
  /\ None \notin Devices /\ None \notin Contents /\ None \notin Schedules
  /\ None \notin Deployments /\ None \notin Snapshots
BY ArchiveAssumption DEF Snapshots, Versions

\* A kept row is a whole one; any other is blank.
LEMMA RowShape ==
  ASSUME TypeOK, NEW i \in Snapshots
  PROVE  /\ snapshot[i].fate = "kept" =>
              /\ snapshot[i].device \in Devices
              /\ snapshot[i].content \in Contents
              /\ snapshot[i].version \in Versions
         /\ snapshot[i].fate \in {"none", "kept", "deleted", "pruned"}
<1>1. snapshot[i] \in Rows
  BY DEF TypeOK
<1>2. CASE \E fate \in {"none", "deleted", "pruned"} : snapshot[i] = Gone(fate)
  BY <1>2 DEF Gone
<1>3. CASE snapshot[i] \in [fate : {"kept"}, device : Devices, content : Contents,
                            version : Versions, schedule : Schedules \cup {None}]
  BY <1>3
<1> QED
  BY <1>1, <1>2, <1>3 DEF Rows

\* A row that is inserted as a whole keeps the table's type.
LEMMA InsertType ==
  ASSUME TypeOK, NEW i \in Snapshots, NEW dev \in Devices, NEW content \in Contents,
         NEW v \in Versions, NEW s \in Schedules \cup {None},
         Insert(i, dev, content, v, s)
  PROVE  snapshot' \in [Snapshots -> Rows]
BY DEF TypeOK, Insert, Rows

\* Removing rows keeps the types of the three tables.
LEMMA RemoveType ==
  ASSUME TypeOK, NEW rows, NEW fate \in {"deleted", "pruned"}, Remove(rows, fate)
  PROVE  /\ snapshot' \in [Snapshots -> Rows]
         /\ baseline' \in [Devices -> [snap : Snapshots \cup {None},
                                       version : Versions \cup {0},
                                       content : Contents \cup {None}]]
         /\ pin' \in [Deployments -> [pre  : Snapshots \cup {None},
                                      post : Snapshots \cup {None}]]
<1>1. snapshot' \in [Snapshots -> Rows]
  BY DEF TypeOK, Remove, Rows
<1>2. \A dev \in Devices : [baseline[dev] EXCEPT !.snap = None] \in
        [snap : Snapshots \cup {None}, version : Versions \cup {0},
         content : Contents \cup {None}]
  <2> TAKE dev \in Devices
  <2>1. baseline[dev] \in [snap : Snapshots \cup {None}, version : Versions \cup {0},
                           content : Contents \cup {None}]
    BY DEF TypeOK
  <2> QED
    BY <2>1
<1> QED
  BY <1>1, <1>2 DEF TypeOK, Remove

\* The elements of the two sets.
LEMMA Links ==
  /\ \A i : i \in Baselined <=> i # None /\ \E dev \in Devices : baseline[dev].snap = i
  /\ \A i : i \in Pinned <=>
       i # None /\ \E d \in Deployments : pin[d].pre = i \/ pin[d].post = i
<1>1. \A i : i \in Baselined <=> i # None /\ \E dev \in Devices : baseline[dev].snap = i
  BY DEF Baselined
<1>2. ASSUME NEW i
      PROVE  i \in Pinned <=>
               i # None /\ \E d \in Deployments : pin[d].pre = i \/ pin[d].post = i
  BY DEF Pinned
<1> QED
  BY <1>1, <1>2

\* What is designated or pinned is a snapshot.
LEMMA LinksType ==
  ASSUME TypeOK PROVE Baselined \subseteq Snapshots /\ Pinned \subseteq Snapshots
<1>1. Baselined \subseteq Snapshots
  BY DEF TypeOK, Baselined
<1>2. ASSUME NEW i \in Pinned PROVE i \in Snapshots
  <2>1. PICK d \in Deployments : (pin[d].pre = i \/ pin[d].post = i) /\ i # None
    BY Links
  <2>2. pin[d] \in [pre : Snapshots \cup {None}, post : Snapshots \cup {None}]
    BY DEF TypeOK
  <2> QED
    BY <2>1, <2>2
<1> QED
  BY <1>1, <1>2

\* The two ways a transaction archives.
LEMMA ArchiveWrites ==
  ASSUME TypeOK, NEW dev \in Devices, NEW i \in Snapshots, Archive(dev, i)
  PROVE  /\ \/ UNCHANGED snapshot
            \/ /\ IsFresh(i)
               /\ \E v \in Versions : IsNextVersion(dev, v) /\ Insert(i, dev, running[dev], v, None)
         /\ UNCHANGED <<running, baseline, scheduled>>
BY DEF Archive

\* The types of what a transaction pins and archives.
LEMMA SetPinType ==
  ASSUME TypeOK, NEW d \in Deployments, NEW column \in {"pre", "post"}, NEW i \in Snapshots,
         SetPin(d, column, i)
  PROVE  pin' \in [Deployments -> [pre  : Snapshots \cup {None},
                                   post : Snapshots \cup {None}]]
<1>1. CASE column = "pre"
  BY <1>1 DEF TypeOK, SetPin
<1>2. CASE column = "post"
  BY <1>2 DEF TypeOK, SetPin
<1> QED
  BY <1>1, <1>2

\* A transaction that archives keeps the table's type.
LEMMA ArchiveType ==
  ASSUME TypeOK, NEW dev \in Devices, NEW i \in Snapshots, Archive(dev, i)
  PROVE  snapshot' \in [Snapshots -> Rows]
<1>1. CASE UNCHANGED snapshot
  BY <1>1 DEF TypeOK
<1>2. CASE \E v \in Versions : Insert(i, dev, running[dev], v, None)
  <2>1. PICK v \in Versions : Insert(i, dev, running[dev], v, None)
    BY <1>2
  <2>2. running[dev] \in Contents
    BY DEF TypeOK
  <2> QED
    BY <2>1, <2>2, InsertType
<1> QED
  BY <1>1, <1>2, ArchiveWrites

-----------------------------------------------------------------------------
(* The inductive invariant *)

\* It holds at the start.
LEMMA InitSafe == Init => Safe
<1> SUFFICES ASSUME Init PROVE Safe
  OBVIOUS
<1>1. TypeOK
  BY Constants DEF Init, TypeOK, Rows, Gone, NoBaseline, NoPins, Nothing
<1>2. \A i \in Snapshots : snapshot[i].fate = "none"
  BY DEF Init, Gone
<1>3. RunHoldsWriter /\ NumberStillNext /\ StillProtected
  BY DEF Init, RunHoldsWriter, NumberStillNext, StillProtected
<1>4. RowsInOrder /\ VersionsFollowHistory
  BY <1>2 DEF RowsInOrder, VersionsFollowHistory
<1>5. BaselineAgreesWithArchive
  BY DEF Init, BaselineAgreesWithArchive, NoBaseline
<1>6. PinsAreKept
  BY DEF Init, PinsAreKept, NoPins
<1> QED
  BY <1>1, <1>3, <1>4, <1>5, <1>6 DEF Safe

\* Every step keeps the types.
LEMMA TypeStep == Safe /\ [Next]_vars => TypeOK'
<1> SUFFICES ASSUME Safe, [Next]_vars PROVE TypeOK'
  OBVIOUS
<1> USE DEF archived, scheduled
<1>type. TypeOK /\ NumberStillNext
  BY DEF Safe
<1>c. UNCHANGED vars => TypeOK'
  BY <1>type DEF vars, TypeOK
<1>1. ASSUME NEW s \in Schedules, Open(s) PROVE TypeOK'
  BY <1>1, <1>type DEF TypeOK, Open
<1>2. ASSUME NEW s \in Schedules, NEW dev \in Devices, Inspect(s, dev) PROVE TypeOK'
  <2>1. PICK v \in Versions :
          seen' = [seen EXCEPT ![s] =
                    [device |-> dev, content |-> running[dev], version |-> v]]
    BY <1>2 DEF Inspect
  <2> QED
    BY <1>2, <2>1, <1>type DEF TypeOK, Inspect
<1>3. ASSUME NEW s \in Schedules, Store(s) PROVE TypeOK'
  <2>1. PICK i \in Snapshots :
          Insert(i, seen[s].device, seen[s].content, seen[s].version, s)
    BY <1>3 DEF Store
  <2>2. snapshot' \in [Snapshots -> Rows]
    BY <2>1, <1>3, <1>type, InsertType DEF Store, NumberStillNext
  <2> QED
    BY <1>3, <2>2, <1>type DEF TypeOK, Store, Nothing
<1>4. ASSUME NEW s \in Schedules, ReadProtected(s) PROVE TypeOK'
  <2>1. Baselined \subseteq Snapshots /\ Pinned \subseteq Snapshots
    BY <1>type, LinksType
  <2>2. \A dev \in Devices : Latest(dev) \subseteq Snapshots
    BY DEF Latest, Kept
  <2> QED
    BY <1>4, <2>1, <2>2, <1>type DEF TypeOK, ReadProtected
<1>5. ASSUME NEW s \in Schedules, Close(s)
      PROVE  /\ writer' \in Schedules \cup {None}
             /\ stage' \in [Schedules -> {"idle", "backup", "store", "prune"}]
             /\ horizon' \in [Schedules -> Versions]
             /\ seen' \in [Schedules -> [device : Devices \cup {None},
                                         content : Contents \cup {None},
                                         version : Versions \cup {0}]]
             /\ protected' \in [Schedules -> SUBSET Snapshots]
  BY <1>5, <1>type, Constants DEF TypeOK, Close, Nothing
<1>6. ASSUME NEW s \in Schedules, NEW cutoff \in Versions, Prune(s, cutoff) PROVE TypeOK'
  <2>1. Close(s) /\ UNCHANGED running
    BY <1>6 DEF Prune
  <2>2. PICK rows : Remove(rows, "pruned")
    BY <1>6 DEF Prune
  <2> QED
    BY <2>1, <2>2, <1>5, <1>type, RemoveType DEF TypeOK
<1>7. ASSUME NEW s \in Schedules, Leave(s) PROVE TypeOK'
  BY <1>7, <1>5, <1>type DEF Leave, TypeOK
<1>8. ASSUME NEW dev \in Devices, ClearBaseline(dev) PROVE TypeOK'
  BY <1>8, <1>type DEF ClearBaseline, TypeOK, NoBaseline
<1>9. ASSUME NEW i \in Snapshots, DeleteConfiguration(i) PROVE TypeOK'
  BY <1>9, <1>type, RemoveType DEF DeleteConfiguration, TypeOK
<1>10. ASSUME NEW i \in Snapshots, NEW dev \in Devices, PlainBackup(dev, i) PROVE TypeOK'
  BY <1>10, <1>type, ArchiveType, ArchiveWrites DEF PlainBackup, TypeOK
<1>11. ASSUME NEW i \in Snapshots, NEW dev \in Devices, SetBaseline(dev, i) PROVE TypeOK'
  <2>1. snapshot[i].version \in Versions /\ snapshot[i].content \in Contents
    BY <1>11, <1>type, RowShape DEF SetBaseline, Kept
  <2> QED
    BY <1>11, <2>1, <1>type DEF SetBaseline, TypeOK
<1>12. ASSUME NEW i \in Snapshots, NEW dev \in Devices, NEW d \in Deployments,
              NEW column \in {"pre", "post"}, PinBackup(d, column, dev, i)
       PROVE  TypeOK'
  BY <1>12, <1>type, ArchiveType, ArchiveWrites, SetPinType DEF PinBackup, TypeOK
<1>13. ASSUME NEW dev \in Devices, NEW content \in Contents, Reconfigure(dev, content)
       PROVE  TypeOK'
  BY <1>13, <1>type DEF Reconfigure, TypeOK
<1> QED
  BY <1>c, <1>1, <1>2, <1>3, <1>4, <1>6, <1>7, <1>8, <1>9, <1>10, <1>11, <1>12, <1>13
     DEF Next, ScheduledRun, Request

\* A row is inserted with a number above those its device has.
Inserts(i) ==
  /\ IsFresh(i)
  /\ \E dev \in Devices, content \in Contents, v \in Versions, s \in Schedules \cup {None} :
       /\ Insert(i, dev, content, v, s)
       /\ \A k \in Kept(dev) : snapshot[k].version < v

\* Kept rows are removed.
Removes(rows) ==
  /\ \A i \in rows : i \in Snapshots /\ snapshot[i].fate = "kept"
  /\ \E fate \in {"deleted", "pruned"} : Remove(rows, fate)

\* While nobody holds the writer, no scheduled run is under way.
LEMMA NoRun ==
  ASSUME Safe, writer = None PROVE \A s \in Schedules : stage[s] = "idle"
BY Constants DEF Safe, RunHoldsWriter

\* An insertion takes the first vacant row.
LEMMA InsertKeepsOrder ==
  ASSUME Safe, NEW i \in Snapshots, Inserts(i)
  PROVE  RowsInOrder' /\ VersionsFollowHistory' /\ (UNCHANGED baseline => BaselineAgreesWithArchive')
<1>1. PICK dev \in Devices, content \in Contents, v \in Versions, s \in Schedules \cup {None} :
        /\ Insert(i, dev, content, v, s)
        /\ \A k \in Kept(dev) : snapshot[k].version < v
  BY DEF Inserts
<1>2. /\ snapshot'[i].fate = "kept" /\ snapshot'[i].device = dev /\ snapshot'[i].version = v
      /\ \A k \in Snapshots : k # i => snapshot'[k] = snapshot[k]
  BY <1>1 DEF Insert, Safe, TypeOK
<1>3. /\ snapshot[i].fate = "none"
      /\ \A k \in Snapshots : k < i => snapshot[k].fate # "none"
      /\ \A k \in Snapshots : i < k => snapshot[k].fate = "none"
  BY DEF Inserts, IsFresh, Safe, RowsInOrder
<1>4. Snapshots \subseteq Int
  BY Constants
<1>5. RowsInOrder'
  <2> SUFFICES ASSUME NEW j \in Snapshots, NEW k \in Snapshots,
                      j < k, snapshot'[j].fate = "none"
               PROVE  snapshot'[k].fate = "none"
    BY DEF RowsInOrder
  <2>1. j # i /\ snapshot[j].fate = "none"
    BY <1>2
  <2>2. i < k
    BY <2>1, <1>3, <1>4
  <2> QED
    BY <2>2, <1>2, <1>3, <1>4
<1>6. VersionsFollowHistory'
  <2> SUFFICES ASSUME NEW j \in Snapshots, NEW k \in Snapshots,
                      snapshot'[j].fate = "kept", snapshot'[k].fate = "kept",
                      snapshot'[j].device = snapshot'[k].device, j < k
               PROVE  snapshot'[j].version < snapshot'[k].version
    BY DEF VersionsFollowHistory
  <2>1. CASE k = i
    <3>1. j # i /\ j \in Kept(dev)
      BY <2>1, <1>2, <1>4 DEF Kept
    <3> QED
      BY <2>1, <3>1, <1>1, <1>2
  <2>2. CASE j = i
    BY <2>2, <1>2, <1>3, <1>4
  <2>3. CASE j # i /\ k # i
    BY <2>3, <1>2 DEF Safe, VersionsFollowHistory
  <2> QED
    BY <2>1, <2>2, <2>3
<1>7. ASSUME UNCHANGED baseline PROVE BaselineAgreesWithArchive'
  <2> SUFFICES ASSUME NEW d \in Devices, baseline[d].snap # None
               PROVE  snapshot'[baseline[d].snap] = snapshot[baseline[d].snap]
    BY <1>7 DEF Safe, BaselineAgreesWithArchive
  <2>1. snapshot[baseline[d].snap].fate = "kept"
    BY DEF Safe, BaselineAgreesWithArchive
  <2>2. baseline[d].snap \in Snapshots
    BY DEF Safe, TypeOK
  <2> QED
    BY <2>1, <2>2, <1>2, <1>3
<1> QED
  BY <1>5, <1>6, <1>7

\* A removal takes nothing else away and leaves no dangling link.
LEMMA RemoveKeeps ==
  ASSUME Safe, NEW rows, Removes(rows)
  PROVE  /\ RowsInOrder' /\ VersionsFollowHistory' /\ BaselineAgreesWithArchive'
         /\ Baselined' \subseteq Baselined /\ Pinned' \subseteq Pinned
         /\ \A i \in Snapshots : snapshot'[i].fate = "kept" => snapshot'[i] = snapshot[i]
<1>1. PICK fate \in {"deleted", "pruned"} : Remove(rows, fate)
  BY DEF Removes
<1>2. \A i \in Snapshots : /\ i \in rows => snapshot'[i].fate = fate
                           /\ i \notin rows => snapshot'[i] = snapshot[i]
  BY <1>1 DEF Remove, Gone
<1>3. \A i \in rows : snapshot[i].fate = "kept"
  BY DEF Removes
<1>4. \A i \in Snapshots : snapshot'[i].fate = "kept" => snapshot'[i] = snapshot[i]
  BY <1>2
<1>5. RowsInOrder'
  BY <1>2, <1>3 DEF Safe, RowsInOrder
<1>6. VersionsFollowHistory'
  <2> SUFFICES ASSUME NEW j \in Snapshots, NEW k \in Snapshots,
                      snapshot'[j].fate = "kept", snapshot'[k].fate = "kept",
                      snapshot'[j].device = snapshot'[k].device, j < k
               PROVE  snapshot'[j].version < snapshot'[k].version
    BY DEF VersionsFollowHistory
  <2> QED
    BY <1>4 DEF Safe, VersionsFollowHistory
<1>7. \A dev \in Devices :
        /\ baseline[dev].snap \in rows => baseline'[dev].snap = None
        /\ baseline[dev].snap \notin rows => baseline'[dev] = baseline[dev]
  <2> TAKE dev \in Devices
  <2>1. baseline[dev] \in [snap : Snapshots \cup {None}, version : Versions \cup {0},
                           content : Contents \cup {None}]
    BY DEF Safe, TypeOK
  <2> QED
    BY <1>1, <2>1 DEF Remove
<1>8. BaselineAgreesWithArchive'
  <2> SUFFICES ASSUME NEW dev \in Devices, baseline'[dev].snap # None
               PROVE  /\ baseline'[dev] = baseline[dev]
                      /\ snapshot'[baseline[dev].snap] = snapshot[baseline[dev].snap]
    BY DEF Safe, BaselineAgreesWithArchive
  <2>1. baseline[dev].snap \notin rows /\ baseline'[dev] = baseline[dev]
    BY <1>7
  <2>2. baseline[dev].snap \in Snapshots
    BY <2>1 DEF Safe, TypeOK
  <2> QED
    BY <2>1, <2>2, <1>2
<1>9. Baselined' \subseteq Baselined
  BY <1>7 DEF Baselined
<1>10. Pinned' \subseteq Pinned
  <2>1. \A d \in Deployments : /\ pin'[d].pre \in {None, pin[d].pre}
                               /\ pin'[d].post \in {None, pin[d].post}
    BY <1>1 DEF Remove
  <2> QED
    BY <2>1 DEF Pinned
<1> QED
  BY <1>4, <1>5, <1>6, <1>8, <1>9, <1>10

\* What the actions do to the rows, in these terms.
LEMMA ArchiveInserts ==
  ASSUME Safe, NEW dev \in Devices, NEW i \in Snapshots, Archive(dev, i)
  PROVE  UNCHANGED snapshot \/ Inserts(i)
<1>1. running[dev] \in Contents
  BY DEF Safe, TypeOK
<1>2. CASE /\ IsFresh(i)
           /\ \E v \in Versions : IsNextVersion(dev, v) /\ Insert(i, dev, running[dev], v, None)
  BY <1>1, <1>2 DEF Inserts, IsNextVersion
<1> QED
  BY <1>2, ArchiveWrites DEF Safe

\* A run stores a row with the number it had read.
LEMMA StoreInserts ==
  ASSUME Safe, NEW s \in Schedules, Store(s)
  PROVE  \E i \in Snapshots : Inserts(i)
<1>1. PICK i \in Snapshots :
        IsFresh(i) /\ Insert(i, seen[s].device, seen[s].content, seen[s].version, s)
  BY DEF Store
<1>2. /\ seen[s].device \in Devices /\ seen[s].content \in Contents
      /\ seen[s].version \in Versions
      /\ \A k \in Kept(seen[s].device) : snapshot[k].version < seen[s].version
  BY DEF Store, Safe, NumberStillNext
<1> QED
  BY <1>1, <1>2 DEF Inserts

\* Retention removes kept rows that it does not protect.
LEMMA PruneRemoves ==
  ASSUME NEW s \in Schedules, NEW cutoff, Prune(s, cutoff)
  PROVE  \E rows : Removes(rows) /\ rows \cap protected[s] = {}
<1> DEFINE old == {i \in Snapshots : /\ snapshot[i].fate = "kept"
                                     /\ snapshot[i].schedule = s
                                     /\ i < cutoff
                                     /\ i \notin protected[s]}
<1>1. Remove(old, "pruned")
  BY DEF Prune
<1>2. old \cap protected[s] = {} /\ \A i \in old : i \in Snapshots /\ snapshot[i].fate = "kept"
  OBVIOUS
<1>3. Removes(old)
  BY <1>1, <1>2 DEF Removes
<1> QED
  BY <1>2, <1>3

\* Baselines and pins are set only while no scheduled run is under way.
LEMMA SetBaselineKeeps ==
  ASSUME Safe, NEW dev \in Devices, NEW i \in Snapshots, SetBaseline(dev, i)
  PROVE  BaselineAgreesWithArchive'
<1> SUFFICES ASSUME NEW d \in Devices, baseline'[d].snap # None
             PROVE  LET row == snapshot[baseline'[d].snap] IN
                    /\ row.fate = "kept" /\ row.device = d
                    /\ row.version = baseline'[d].version
                    /\ row.content = baseline'[d].content
  BY DEF SetBaseline, BaselineAgreesWithArchive
<1>1. CASE d = dev
  BY <1>1 DEF SetBaseline, Kept, Safe, TypeOK
<1>2. CASE d # dev
  <2>1. baseline'[d] = baseline[d]
    BY <1>2 DEF SetBaseline, Safe, TypeOK
  <2> QED
    BY <2>1 DEF Safe, BaselineAgreesWithArchive
<1> QED
  BY <1>1, <1>2

\* Every step keeps the order of the rows, the order of the numbers and the
\* agreement of the baselines.
LEMMA RowsStep ==
  ASSUME Safe, [Next]_vars
  PROVE  RowsInOrder' /\ VersionsFollowHistory' /\ BaselineAgreesWithArchive'
<1> DEFINE Kept3 == RowsInOrder' /\ VersionsFollowHistory' /\ BaselineAgreesWithArchive'
<1>s. RowsInOrder /\ VersionsFollowHistory /\ BaselineAgreesWithArchive
  BY DEF Safe
<1>u. ASSUME UNCHANGED <<snapshot, baseline>> PROVE Kept3
  BY <1>u, <1>s DEF RowsInOrder, VersionsFollowHistory, BaselineAgreesWithArchive
<1>v. ASSUME UNCHANGED snapshot PROVE RowsInOrder' /\ VersionsFollowHistory'
  BY <1>v, <1>s DEF RowsInOrder, VersionsFollowHistory
<1>i. ASSUME NEW i \in Snapshots, Inserts(i), UNCHANGED baseline PROVE Kept3
  BY <1>i, InsertKeepsOrder
<1>r. ASSUME NEW rows, Removes(rows) PROVE Kept3
  BY <1>r, RemoveKeeps
<1>1. ASSUME NEW s \in Schedules, ScheduledRun(s) PROVE Kept3
  <2>1. CASE Open(s) \/ ReadProtected(s) \/ Leave(s) \/ \E dev \in Devices : Inspect(s, dev)
    BY <2>1, <1>u DEF Open, ReadProtected, Leave, Inspect, archived
  <2>2. CASE Store(s)
    BY <2>2, <1>i, StoreInserts DEF Store
  <2>3. ASSUME NEW cutoff \in Versions, Prune(s, cutoff) PROVE Kept3
    BY <2>3, <1>r, PruneRemoves
  <2> QED
    BY <1>1, <2>1, <2>2, <2>3 DEF ScheduledRun
<1>2. ASSUME NEW dev \in Devices, ClearBaseline(dev) PROVE Kept3
  <2>1. /\ UNCHANGED snapshot
        /\ \A d \in Devices : baseline'[d] = baseline[d] \/ baseline'[d].snap = None
    BY <1>2 DEF ClearBaseline, NoBaseline, Safe, TypeOK
  <2>2. BaselineAgreesWithArchive'
    BY <2>1, <1>s DEF BaselineAgreesWithArchive
  <2> QED
    BY <2>1, <2>2, <1>v
<1>3. ASSUME NEW i \in Snapshots, DeleteConfiguration(i) PROVE Kept3
  <2>1. Removes({i})
    BY <1>3 DEF DeleteConfiguration, Removes
  <2> QED
    BY <2>1, <1>r
<1>4. ASSUME NEW i \in Snapshots, NEW dev \in Devices, Archive(dev, i) PROVE Kept3
  BY <1>4, <1>u, <1>i, ArchiveInserts, ArchiveWrites DEF Archive
<1>5. ASSUME NEW i \in Snapshots, NEW dev \in Devices, SetBaseline(dev, i) PROVE Kept3
  BY <1>5, <1>v, SetBaselineKeeps DEF SetBaseline
<1>6. ASSUME NEW dev \in Devices, NEW content \in Contents, Reconfigure(dev, content)
      PROVE  Kept3
  BY <1>6, <1>u DEF Reconfigure, archived
<1>7. CASE UNCHANGED vars
  BY <1>7, <1>u DEF vars
<1> QED
  BY <1>1, <1>2, <1>3, <1>4, <1>5, <1>6, <1>7
     DEF Next, Request, PlainBackup, PinBackup

\* Every step but a run's own leaves the runs alone.
LEMMA RequestsLeaveRuns ==
  ASSUME Request \/ (\E dev \in Devices, content \in Contents : Reconfigure(dev, content))
           \/ UNCHANGED vars
  PROVE  UNCHANGED scheduled
BY DEF Request, ClearBaseline, DeleteConfiguration, PlainBackup, SetBaseline, PinBackup,
       Archive, Reconfigure, vars, scheduled

\* What a run's step does to the runs.
LEMMA RunStep ==
  ASSUME Safe, NEW s \in Schedules, ScheduledRun(s)
  PROVE  /\ writer' \in {s, None}
         /\ writer' = s \/ stage'[s] = "idle"
         /\ \A t \in Schedules : t # s => /\ stage[t] = "idle" /\ stage'[t] = "idle"
                                          /\ stage' [t] = stage[t]
<1>1. stage[s] # "idle" \/ Open(s)
  BY DEF ScheduledRun, Inspect, Store, ReadProtected, Prune, Leave
<1>2. writer = s \/ (writer = None /\ Open(s))
  BY <1>1 DEF Open, Safe, RunHoldsWriter
<1>3. \A t \in Schedules : t # s => stage[t] = "idle"
  BY <1>2, Constants DEF Safe, RunHoldsWriter
<1>4. \A t \in Schedules : t # s => stage'[t] = stage[t]
  BY DEF ScheduledRun, Open, Inspect, Store, ReadProtected, Prune, Leave, Close, Safe, TypeOK
<1>5. writer' \in {s, None} /\ (writer' = s \/ stage'[s] = "idle")
  <2>1. CASE Open(s)
    BY <2>1 DEF Open
  <2>2. CASE Close(s)
    BY <2>2, <1>2 DEF Close, Open, Safe, TypeOK
  <2>3. CASE UNCHANGED writer /\ ~Open(s)
    BY <2>3, <1>2
  <2> QED
    BY <2>1, <2>2, <2>3 DEF ScheduledRun, Inspect, Store, ReadProtected, Prune, Leave
<1> QED
  BY <1>3, <1>4, <1>5

\* Every step keeps what is known of the runs.
LEMMA HolderStep ==
  ASSUME Safe, [Next]_vars PROVE RunHoldsWriter'
<1>1. ASSUME NEW s \in Schedules, ScheduledRun(s) PROVE RunHoldsWriter'
  BY <1>1, RunStep DEF RunHoldsWriter
<1>2. CASE UNCHANGED scheduled
  BY <1>2 DEF Safe, RunHoldsWriter, scheduled
<1> QED
  BY <1>1, <1>2, RequestsLeaveRuns DEF Next

\* The number a run is going to use stays above those in use.
LEMMA NumberStep ==
  ASSUME Safe, [Next]_vars PROVE NumberStillNext'
<1> SUFFICES ASSUME NEW t \in Schedules, stage'[t] = "store"
             PROVE  /\ seen'[t].device \in Devices
                    /\ seen'[t].content \in Contents
                    /\ seen'[t].version \in Versions
                    /\ \A i \in Snapshots :
                         snapshot'[i].fate = "kept" /\ snapshot'[i].device = seen'[t].device
                         => snapshot'[i].version < seen'[t].version
  BY DEF NumberStillNext, Kept
<1>s. stage[t] = "store" =>
        /\ seen[t].device \in Devices
        /\ seen[t].content \in Contents
        /\ seen[t].version \in Versions
        /\ \A i \in Kept(seen[t].device) : snapshot[i].version < seen[t].version
  BY DEF Safe, NumberStillNext
<1>type. stage \in [Schedules -> {"idle", "backup", "store", "prune"}]
  BY DEF Safe, TypeOK
<1>1. ASSUME NEW dev \in Devices, Inspect(t, dev)
      PROVE  /\ seen'[t].device \in Devices
             /\ seen'[t].content \in Contents
             /\ seen'[t].version \in Versions
             /\ \A i \in Snapshots :
                  snapshot'[i].fate = "kept" /\ snapshot'[i].device = seen'[t].device
                  => snapshot'[i].version < seen'[t].version
  <2>1. PICK v \in Versions :
          /\ IsNextVersion(dev, v)
          /\ seen' = [seen EXCEPT ![t] =
                       [device |-> dev, content |-> running[dev], version |-> v]]
    BY <1>1 DEF Inspect
  <2>2. seen'[t] = [device |-> dev, content |-> running[dev], version |-> v]
    BY <2>1 DEF Safe, TypeOK
  <2>3. running[dev] \in Contents
    BY DEF Safe, TypeOK
  <2>4. UNCHANGED snapshot
    BY <1>1 DEF Inspect, archived
  <2>5. \A i \in Snapshots : snapshot'[i].fate = "kept" /\ snapshot'[i].device = dev
                             => snapshot'[i].version < v
    BY <2>1, <2>4 DEF IsNextVersion, Kept
  <2> QED
    BY <2>2, <2>3, <2>5
<1>k. ASSUME stage[t] = "store", seen'[t] = seen[t],
             \A i \in Snapshots : snapshot'[i].fate = "kept" => snapshot'[i] = snapshot[i]
      PROVE  /\ seen'[t].device \in Devices
             /\ seen'[t].content \in Contents
             /\ seen'[t].version \in Versions
             /\ \A i \in Snapshots :
                  snapshot'[i].fate = "kept" /\ snapshot'[i].device = seen'[t].device
                  => snapshot'[i].version < seen'[t].version
  BY <1>k, <1>s DEF Kept
<1>2. ASSUME NEW s \in Schedules, ScheduledRun(s)
      PROVE  \E dev \in Devices : Inspect(t, dev)
  <2>1. s = t
    BY <1>2, RunStep
  <2>2. ~Store(s) /\ ~Open(s) /\ ~ReadProtected(s) /\ ~Close(s)
    BY <2>1, <1>type DEF Store, Open, ReadProtected, Close
  <2> QED
    BY <1>2, <2>1, <2>2 DEF ScheduledRun, Prune, Leave
<1>3. ASSUME Request
      PROVE  \A i \in Snapshots : snapshot'[i].fate = "kept" => snapshot'[i] = snapshot[i]
  <2>1. stage[t] # "idle" /\ writer # None
    BY <1>3, RequestsLeaveRuns, NoRun DEF scheduled
  <2>2. ASSUME NEW i \in Snapshots, DeleteConfiguration(i)
        PROVE  \A k \in Snapshots : snapshot'[k].fate = "kept" => snapshot'[k] = snapshot[k]
    <3>1. Removes({i})
      BY <2>2 DEF DeleteConfiguration, Removes
    <3> QED
      BY <3>1, RemoveKeeps
  <2> QED
    BY <1>3, <2>1, <2>2 DEF Request, ClearBaseline, PlainBackup, SetBaseline, PinBackup
<1>4. CASE Request
  BY <1>3, <1>4, <1>k, RequestsLeaveRuns DEF scheduled
<1>5. CASE (\E dev \in Devices, content \in Contents : Reconfigure(dev, content))
             \/ UNCHANGED vars
  BY <1>5, <1>k, RequestsLeaveRuns DEF scheduled, Reconfigure, archived, vars
<1> QED
  BY <1>1, <1>2, <1>4, <1>5 DEF Next

\* What is designated or pinned grows only while the writer is free.
LEMMA LinksStep ==
  ASSUME Safe, [Next]_vars, writer # None
  PROVE  Baselined' \subseteq Baselined /\ Pinned' \subseteq Pinned
<1> DEFINE Shrinks == Baselined' \subseteq Baselined /\ Pinned' \subseteq Pinned
<1>u. ASSUME UNCHANGED <<baseline, pin>> PROVE Shrinks
  BY <1>u DEF Baselined, Pinned
<1>1. ASSUME NEW s \in Schedules, ScheduledRun(s) PROVE Shrinks
  <2>1. ASSUME NEW cutoff \in Versions, Prune(s, cutoff) PROVE Shrinks
    BY <2>1, PruneRemoves, RemoveKeeps
  <2>2. CASE ~\E cutoff \in Versions : Prune(s, cutoff)
    BY <1>1, <2>2, <1>u
       DEF ScheduledRun, Open, Inspect, Store, ReadProtected, Leave, archived
  <2> QED
    BY <2>1, <2>2
<1>2. CASE Request
  <2>1. ASSUME NEW dev \in Devices, ClearBaseline(dev) PROVE Shrinks
    <3>1. \A d \in Devices : baseline'[d] = baseline[d] \/ baseline'[d].snap = None
      BY <2>1 DEF ClearBaseline, NoBaseline, Safe, TypeOK
    <3>2. Baselined' \subseteq Baselined
      BY <3>1 DEF Baselined
    <3> QED
      BY <2>1, <3>2 DEF ClearBaseline, Pinned
  <2>2. ASSUME NEW i \in Snapshots, DeleteConfiguration(i) PROVE Shrinks
    <3>1. Removes({i})
      BY <2>2 DEF DeleteConfiguration, Removes
    <3> QED
      BY <3>1, RemoveKeeps
  <2> QED
    BY <1>2, <2>1, <2>2 DEF Request, PlainBackup, SetBaseline, PinBackup
<1>3. CASE (\E dev \in Devices, content \in Contents : Reconfigure(dev, content))
             \/ UNCHANGED vars
  BY <1>3, <1>u DEF Reconfigure, archived, vars
<1> QED
  BY <1>1, <1>2, <1>3 DEF Next

\* What retention found worth keeping stays all there is.
LEMMA ProtectedStep ==
  ASSUME Safe, [Next]_vars PROVE StillProtected'
<1> SUFFICES ASSUME NEW t \in Schedules, stage'[t] = "prune"
             PROVE  (Baselined \cup Pinned)' \subseteq protected'[t]
  BY DEF StillProtected
<1>type. /\ stage \in [Schedules -> {"idle", "backup", "store", "prune"}]
         /\ protected \in [Schedules -> SUBSET Snapshots]
  BY DEF Safe, TypeOK
<1>1. CASE ReadProtected(t)
  <2>1. Baselined' = Baselined /\ Pinned' = Pinned
    BY <1>1 DEF ReadProtected, archived, Baselined, Pinned
  <2>2. Baselined \cup Pinned \subseteq protected'[t]
    BY <1>1, <1>type DEF ReadProtected
  <2> QED
    BY <2>1, <2>2
<1>2. ASSUME stage[t] = "prune", protected'[t] = protected[t]
      PROVE  (Baselined \cup Pinned)' \subseteq protected'[t]
  <2>1. writer # None
    BY <1>2, Constants DEF Safe, RunHoldsWriter
  <2>2. Baselined \cup Pinned \subseteq protected[t]
    BY <1>2 DEF Safe, StillProtected
  <2> QED
    BY <1>2, <2>1, <2>2, LinksStep
<1>3. ASSUME NEW s \in Schedules, ScheduledRun(s) PROVE ReadProtected(t)
  <2>1. s = t
    BY <1>3, RunStep
  <2>2. ~Store(s) /\ ~Open(s) /\ ~Close(s) /\ ~\E dev \in Devices : Inspect(s, dev)
    BY <2>1, <1>type DEF Store, Open, Close, Inspect
  <2> QED
    BY <1>3, <2>1, <2>2 DEF ScheduledRun, Prune, Leave
<1>4. CASE UNCHANGED scheduled
  BY <1>4, <1>2 DEF scheduled
<1> QED
  BY <1>1, <1>3, <1>4, RequestsLeaveRuns DEF Next

\* A pin that is new, or stays on a row that stays, points at a kept row.
LEMMA PinsFollow ==
  ASSUME Safe,
         \A d \in Deployments : \A column \in {"pre", "post"} :
           \/ pin'[d][column] = None
           \/ /\ pin'[d][column] = pin[d][column]
              /\ snapshot'[pin[d][column]].fate = snapshot[pin[d][column]].fate
           \/ snapshot'[pin'[d][column]].fate = "kept"
  PROVE  PinsAreKept'
<1> SUFFICES ASSUME NEW d \in Deployments, NEW column \in {"pre", "post"},
                    pin'[d][column] # None
             PROVE  snapshot'[pin'[d][column]].fate = "kept"
  BY DEF PinsAreKept
<1>1. pin[d][column] # None => snapshot[pin[d][column]].fate = "kept"
  BY DEF Safe, PinsAreKept
<1> QED
  BY <1>1

\* An insertion disturbs no pin.
LEMMA InsertKeepsPins ==
  ASSUME Safe, NEW i \in Snapshots, Inserts(i), NEW j \in Snapshots, snapshot[j].fate = "kept"
  PROVE  snapshot'[j].fate = "kept"
BY DEF Inserts, IsFresh, Insert, Safe, TypeOK

\* A removal takes the pins off the rows it removes.
LEMMA RemoveKeepsPins ==
  ASSUME Safe, NEW rows, Removes(rows) PROVE PinsAreKept'
<1>1. PICK fate \in {"deleted", "pruned"} : Remove(rows, fate)
  BY DEF Removes
<1> SUFFICES ASSUME NEW d \in Deployments, NEW column \in {"pre", "post"}
             PROVE  \/ pin'[d][column] = None
                    \/ /\ pin'[d][column] = pin[d][column]
                       /\ snapshot'[pin[d][column]].fate = snapshot[pin[d][column]].fate
  BY PinsFollow
<1>2. pin'[d][column] = IF pin[d][column] \in rows THEN None ELSE pin[d][column]
  BY <1>1 DEF Remove
<1>3. pin[d][column] \in Snapshots \cup {None}
  BY DEF Safe, TypeOK
<1>4. CASE pin[d][column] \in Snapshots /\ pin[d][column] \notin rows
  <2>1. snapshot'[pin[d][column]] = snapshot[pin[d][column]]
    BY <1>1, <1>4 DEF Remove
  <2> QED
    BY <1>2, <1>4, <2>1
<1> QED
  BY <1>2, <1>3, <1>4

\* After a transaction that archives, its snapshot is kept and so is every
\* other that was.
LEMMA ArchiveKeeps ==
  ASSUME Safe, NEW dev \in Devices, NEW i \in Snapshots, Archive(dev, i)
  PROVE  /\ snapshot'[i].fate = "kept"
         /\ \A j \in Snapshots : snapshot[j].fate = "kept" => snapshot'[j].fate = "kept"
<1>1. CASE UNCHANGED snapshot /\ i \in Latest(dev)
  BY <1>1 DEF Latest, Kept
<1>2. CASE IsFresh(i) /\ \E v \in Versions : Insert(i, dev, running[dev], v, None)
  <2>1. snapshot'[i].fate = "kept"
    BY <1>2 DEF Insert, Safe, TypeOK
  <2>2. Inserts(i)
    BY <1>2, <2>1, ArchiveInserts DEF IsFresh
  <2> QED
    BY <2>1, <2>2, InsertKeepsPins
<1> QED
  BY <1>1, <1>2 DEF Archive

\* Every step keeps what the deployments point at.
LEMMA PinsStep ==
  ASSUME Safe, [Next]_vars PROVE PinsAreKept'
<1>p. \A d \in Deployments : \A column \in {"pre", "post"} :
        /\ pin[d][column] \in Snapshots \cup {None}
        /\ pin[d][column] # None => snapshot[pin[d][column]].fate = "kept"
  BY DEF Safe, TypeOK, PinsAreKept
<1>k. ASSUME UNCHANGED pin,
             \A j \in Snapshots : snapshot[j].fate = "kept" => snapshot'[j].fate = "kept"
      PROVE  PinsAreKept'
  BY <1>k, <1>p DEF PinsAreKept
<1>u. ASSUME UNCHANGED <<snapshot, pin>> PROVE PinsAreKept'
  BY <1>u, <1>k
<1>1. ASSUME NEW s \in Schedules, ScheduledRun(s) PROVE PinsAreKept'
  <2>1. CASE Open(s) \/ ReadProtected(s) \/ Leave(s) \/ \E dev \in Devices : Inspect(s, dev)
    BY <2>1, <1>u DEF Open, ReadProtected, Leave, Inspect, archived
  <2>2. CASE Store(s)
    BY <2>2, <1>k, StoreInserts, InsertKeepsPins DEF Store
  <2>3. ASSUME NEW cutoff \in Versions, Prune(s, cutoff) PROVE PinsAreKept'
    BY <2>3, PruneRemoves, RemoveKeepsPins
  <2> QED
    BY <1>1, <2>1, <2>2, <2>3 DEF ScheduledRun
<1>2. ASSUME NEW dev \in Devices, ClearBaseline(dev) PROVE PinsAreKept'
  BY <1>2, <1>u DEF ClearBaseline
<1>3. ASSUME NEW i \in Snapshots, DeleteConfiguration(i) PROVE PinsAreKept'
  <2>1. Removes({i})
    BY <1>3 DEF DeleteConfiguration, Removes
  <2> QED
    BY <2>1, RemoveKeepsPins
<1>4. ASSUME NEW i \in Snapshots, NEW dev \in Devices, PlainBackup(dev, i)
      PROVE  PinsAreKept'
  BY <1>4, <1>k, ArchiveKeeps DEF PlainBackup
<1>5. ASSUME NEW i \in Snapshots, NEW dev \in Devices, SetBaseline(dev, i)
      PROVE  PinsAreKept'
  BY <1>5, <1>u DEF SetBaseline
<1>6. ASSUME NEW i \in Snapshots, NEW dev \in Devices, NEW e \in Deployments,
             NEW place \in {"pre", "post"}, PinBackup(e, place, dev, i)
      PROVE  PinsAreKept'
  <2>1. \A j \in Snapshots : snapshot[j].fate = "kept" => snapshot'[j].fate = "kept"
    BY <1>6, ArchiveKeeps DEF PinBackup
  <2>2. snapshot'[i].fate = "kept"
    BY <1>6, ArchiveKeeps DEF PinBackup
  <2>3. \A d \in Deployments : \A column \in {"pre", "post"} :
          pin'[d][column] = pin[d][column] \/ pin'[d][column] = i
    BY <1>6 DEF PinBackup, SetPin, Safe, TypeOK
  <2> SUFFICES ASSUME NEW d \in Deployments, NEW column \in {"pre", "post"},
                      pin'[d][column] # None
               PROVE  snapshot'[pin'[d][column]].fate = "kept"
    BY DEF PinsAreKept
  <2>4. CASE pin'[d][column] = i
    BY <2>4, <2>2
  <2>5. CASE pin'[d][column] = pin[d][column]
    BY <2>5, <2>1, <1>p
  <2> QED
    BY <2>3, <2>4, <2>5
<1>7. ASSUME NEW dev \in Devices, NEW content \in Contents, Reconfigure(dev, content)
      PROVE  PinsAreKept'
  BY <1>7, <1>u DEF Reconfigure, archived
<1>8. CASE UNCHANGED vars
  BY <1>8, <1>u DEF vars
<1> QED
  BY <1>1, <1>2, <1>3, <1>4, <1>5, <1>6, <1>7, <1>8 DEF Next, Request

\* The invariant is inductive.
LEMMA NextSafe == Safe /\ [Next]_vars => Safe'
BY TypeStep, RowsStep, HolderStep, NumberStep, ProtectedStep, PinsStep DEF Safe

\* It holds always.
LEMMA SafeAlways == Spec => []Safe
BY InitSafe, NextSafe, PTL DEF Spec

-----------------------------------------------------------------------------
(* Theorems *)

\* Every variable keeps its type, and a kept snapshot stays whole.
THEOREM TypeCorrect == Spec => []TypeOK
<1>1. Safe => TypeOK
  BY DEF Safe
<1> QED
  BY <1>1, SafeAlways, PTL

\* The order of a device's version numbers is the order of its history, for
\* any number of schedules, requests and deletions.
THEOREM VersionsOrdered == Spec => []VersionsFollowHistory
<1>1. Safe => VersionsFollowHistory
  BY DEF Safe
<1> QED
  BY <1>1, SafeAlways, PTL

\* A baseline says of its snapshot what the snapshot says.
THEOREM BaselinesAgree == Spec => []BaselineAgreesWithArchive
<1>1. Safe => BaselineAgreesWithArchive
  BY DEF Safe
<1> QED
  BY <1>1, SafeAlways, PTL

\* One step of retention spares baselines and pins.
LEMMA PruneSpares ==
  ASSUME Safe, [Next]_vars, NEW i \in Snapshots, IsPruned(i)
  PROVE  i \notin Baselined \cup Pinned
<1>f. snapshot[i].fate = "kept" /\ snapshot'[i].fate = "pruned"
  BY DEF IsPruned
<1>1. ASSUME NEW s \in Schedules, NEW cutoff \in Versions, Prune(s, cutoff)
      PROVE  i \notin Baselined \cup Pinned
  <2>1. i \notin protected[s]
    BY <1>1, <1>f DEF Prune, Remove
  <2> QED
    BY <1>1, <2>1 DEF Prune, Safe, StillProtected
<1>2. ASSUME NEW k \in Snapshots, DeleteConfiguration(k) PROVE FALSE
  BY <1>2, <1>f DEF DeleteConfiguration, Remove, Gone
<1>3. ASSUME NEW k \in Snapshots, Inserts(k) PROVE FALSE
  BY <1>3, <1>f DEF Inserts, Insert, Safe, TypeOK
<1>4. ~UNCHANGED snapshot
  BY <1>f
<1>5. ASSUME NEW k \in Snapshots, NEW dev \in Devices PROVE ~Archive(dev, k)
  BY <1>3, <1>4, ArchiveInserts
<1>6. ASSUME NEW s \in Schedules PROVE ~Store(s)
  BY <1>3, StoreInserts
<1> QED
  BY <1>1, <1>2, <1>4, <1>5, <1>6
     DEF Next, ScheduledRun, Request, Open, Inspect, ReadProtected, Leave, ClearBaseline,
         PlainBackup, SetBaseline, PinBackup, Reconfigure, archived, vars

\* Retention never removes a baseline or the rollback or verification point
\* of a deployment.
THEOREM PinnedStays == Spec => PinnedIsNotPruned
<1>1. Safe /\ [Next]_vars => \A i \in Snapshots : IsPruned(i) => i \notin Baselined \cup Pinned
  BY PruneSpares
<1>2. Safe /\ [Next]_vars =>
        [\A i \in Snapshots : IsPruned(i) => i \notin Baselined \cup Pinned]_vars
  BY <1>1
<1> QED
  BY <1>2, SafeAlways, PTL DEF Spec, PinnedIsNotPruned

=============================================================================
