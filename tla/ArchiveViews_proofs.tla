------------------------- MODULE ArchiveViews_proofs -------------------------
(***************************************************************************)
(* The pages over the archive are honest for every set of devices,         *)
(* configurations, schedules and deployments and any number of snapshots.  *)
(* Rests on the invariant of NcmArchive_proofs; the page adds only that a  *)
(* row it has read names a snapshot that is unchanged or gone.             *)
(***************************************************************************)
EXTENDS ArchiveViews, NcmArchive_proofs, FiniteSetTheorems, NaturalsInduction

-----------------------------------------------------------------------------
(* The invariant *)

PageTyped ==
  page \in [Devices -> [snap : Snapshots \cup {None}, version : Versions \cup {0},
                        content : Contents \cup {None}]]

ViewsSafe == Safe /\ PageTyped /\ PageAgreesWithArchive

\* A snapshot that was taken once stays what it is or goes, and its row is never taken again.
LEMMA SnapshotsStay ==
  ASSUME Safe, [Next]_vars, NEW i \in Snapshots, snapshot[i].fate # "none"
  PROVE  snapshot'[i] = snapshot[i] \/ snapshot'[i].fate \in {"deleted", "pruned"}
<1> DEFINE Stays == snapshot'[i] = snapshot[i] \/ snapshot'[i].fate \in {"deleted", "pruned"}
<1>u. ASSUME UNCHANGED snapshot PROVE Stays
  BY <1>u
<1>i. ASSUME NEW k \in Snapshots, Inserts(k) PROVE Stays
  BY <1>i DEF Inserts, IsFresh, Insert, Safe, TypeOK
<1>r. ASSUME NEW rows, Removes(rows) PROVE Stays
  BY <1>r DEF Removes, Remove, Gone
<1>1. ASSUME NEW s \in Schedules, ScheduledRun(s) PROVE Stays
  <2>1. CASE Open(s) \/ ReadProtected(s) \/ Leave(s) \/ \E dev \in Devices : Inspect(s, dev)
    BY <2>1, <1>u DEF Open, ReadProtected, Leave, Inspect, archived
  <2>2. CASE Store(s)
    BY <2>2, <1>i, StoreInserts
  <2>3. ASSUME NEW cutoff \in Versions, Prune(s, cutoff) PROVE Stays
    BY <2>3, <1>r, PruneRemoves
  <2> QED
    BY <1>1, <2>1, <2>2, <2>3 DEF ScheduledRun
<1>2. ASSUME NEW k \in Snapshots, DeleteConfiguration(k) PROVE Stays
  <2>1. Removes({k})
    BY <1>2 DEF DeleteConfiguration, Removes
  <2> QED
    BY <2>1, <1>r
<1>3. ASSUME NEW k \in Snapshots, NEW dev \in Devices, Archive(dev, k) PROVE Stays
  BY <1>3, <1>u, <1>i, ArchiveInserts
<1>4. CASE \/ \E dev \in Devices : ClearBaseline(dev)
           \/ \E k \in Snapshots, dev \in Devices : SetBaseline(dev, k)
           \/ \E dev \in Devices, content \in Contents : Reconfigure(dev, content)
           \/ UNCHANGED vars
  BY <1>4, <1>u DEF ClearBaseline, SetBaseline, Reconfigure, vars, archived
<1> QED
  BY <1>1, <1>2, <1>3, <1>4 DEF Next, Request, PlainBackup, PinBackup

-----------------------------------------------------------------------------
(* The page *)

\* It holds at the start, when the page shows that there is no baseline.
LEMMA ViewsInit == InitViews => ViewsSafe
<1> SUFFICES ASSUME InitViews PROVE ViewsSafe
  OBVIOUS
<1>1. Safe /\ page = baseline
  BY InitSafe DEF InitViews
<1>2. PageTyped
  BY <1>1 DEF Safe, TypeOK, PageTyped
<1>3. \A dev \in Devices : page[dev].snap = None
  <2>1. page = [dev \in Devices |-> NoBaseline]
    BY DEF InitViews, Init
  <2>2. NoBaseline.snap = None
    BY DEF NoBaseline
  <2> QED
    BY <2>1, <2>2
<1> QED
  BY <1>1, <1>2, <1>3 DEF ViewsSafe, PageAgreesWithArchive

\* The first query reads baselines that agree with their snapshots.
LEMMA PageOpens ==
  ASSUME Safe, OpenDrift PROVE PageTyped' /\ PageAgreesWithArchive'
<1>1. page' = baseline /\ UNCHANGED snapshot
  BY DEF OpenDrift, vars
<1>2. PageTyped'
  BY <1>1 DEF Safe, TypeOK, PageTyped
<1>3. PageAgreesWithArchive'
  BY <1>1 DEF Safe, BaselineAgreesWithArchive, PageAgreesWithArchive
<1> QED
  BY <1>2, <1>3

\* Whatever the archive does afterwards leaves the page's rows true or their snapshots gone.
LEMMA PageStays ==
  ASSUME ViewsSafe, [Next]_vars, UNCHANGED page PROVE PageTyped' /\ PageAgreesWithArchive'
<1>1. PageTyped'
  BY DEF ViewsSafe, PageTyped
<1>2. ASSUME NEW dev \in Devices, page[dev].snap # None
      PROVE  LET row == snapshot'[page[dev].snap] IN
             /\ row.fate # "none"
             /\ row.fate = "kept" => /\ row.device = dev
                                     /\ row.version = page[dev].version
                                     /\ row.content = page[dev].content
  <2>1. page[dev].snap \in Snapshots
    BY <1>2 DEF ViewsSafe, PageTyped
  <2>2. /\ snapshot[page[dev].snap].fate # "none"
        /\ snapshot[page[dev].snap].fate = "kept" =>
             /\ snapshot[page[dev].snap].device = dev
             /\ snapshot[page[dev].snap].version = page[dev].version
             /\ snapshot[page[dev].snap].content = page[dev].content
    BY <1>2 DEF ViewsSafe, PageAgreesWithArchive
  <2>3. \/ snapshot'[page[dev].snap] = snapshot[page[dev].snap]
        \/ snapshot'[page[dev].snap].fate \in {"deleted", "pruned"}
    BY <2>1, <2>2, SnapshotsStay DEF ViewsSafe
  <2> QED
    BY <2>2, <2>3
<1>3. PageAgreesWithArchive'
  BY <1>2 DEF PageAgreesWithArchive
<1> QED
  BY <1>1, <1>3

\* Every step keeps the invariant; opening the page is no step of the archive.
LEMMA ViewsStep == ViewsSafe /\ [NextViews]_views => ViewsSafe'
<1> SUFFICES ASSUME ViewsSafe, [NextViews]_views PROVE ViewsSafe'
  OBVIOUS
<1>1. [Next]_vars
  BY DEF NextViews, OpenDrift, views, vars
<1>2. Safe'
  BY <1>1, NextSafe DEF ViewsSafe
<1>3. CASE OpenDrift
  BY <1>2, <1>3, PageOpens DEF ViewsSafe
<1>4. CASE UNCHANGED page
  BY <1>1, <1>2, <1>4, PageStays DEF ViewsSafe
<1> QED
  BY <1>3, <1>4 DEF NextViews, views

\* It holds always.
LEMMA ViewsAlways == SpecViews => []ViewsSafe
BY ViewsInit, ViewsStep, PTL DEF SpecViews

-----------------------------------------------------------------------------
(* What follows for the pages *)

\* A kept snapshot of a device is a whole row.
LEMMA KeptRow ==
  ASSUME Safe, NEW dev, NEW i \in Kept(dev)
  PROVE  i \in Snapshots /\ i \in Nat /\ snapshot[i].version \in Nat /\ snapshot[i].version >= 1
<1>1. i \in Snapshots /\ snapshot[i].fate = "kept"
  BY DEF Kept
<1>2. snapshot[i].version \in Versions
  BY <1>1, RowShape DEF Safe
<1> QED
  BY <1>1, <1>2, Constants DEF Versions

\* The order of creation is the order of the version numbers.
LEMMA CreationIsVersion ==
  ASSUME Safe, NEW dev, NEW i \in Kept(dev), NEW k \in Kept(dev), i < k
  PROVE  snapshot[i].version < snapshot[k].version
BY DEF Safe, VersionsFollowHistory, Kept

\* The snapshot created last is the one with the highest number, and there is only one.
LEMMA NewestIsLatest ==
  ASSUME Safe, NEW dev, NEW i \in Newest(dev)
  PROVE  /\ i \in Latest(dev)
         /\ \A k \in Latest(dev) \cup Newest(dev) : k = i
<1>1. i \in Kept(dev) /\ \A k \in Kept(dev) : k <= i
  BY DEF Newest
<1>2. \A k \in Kept(dev) : k # i => snapshot[k].version < snapshot[i].version
  <2> SUFFICES ASSUME NEW k \in Kept(dev), k # i PROVE snapshot[k].version < snapshot[i].version
    OBVIOUS
  <2>1. k < i
    BY <1>1, KeptRow
  <2> QED
    BY <1>1, <2>1, CreationIsVersion
<1>3. i \in Latest(dev)
  BY <1>1, <1>2, KeptRow DEF Latest
<1>4. ASSUME NEW k \in Latest(dev) PROVE k = i
  <2>1. k \in Kept(dev) /\ snapshot[i].version <= snapshot[k].version
    BY <1>1, <1>4 DEF Latest
  <2> QED
    BY <1>1, <1>2, <2>1, KeptRow
<1>5. ASSUME NEW k \in Newest(dev) PROVE k = i
  <2>1. k \in Kept(dev) /\ i <= k
    BY <1>1, <1>5 DEF Newest
  <2> QED
    BY <1>1, <2>1, KeptRow
<1> QED
  BY <1>3, <1>4, <1>5

\* A bounded set of numbers has a greatest element.
LEMMA Greatest ==
  ASSUME NEW S \in SUBSET Nat, S # {}, NEW bound \in Nat, \A i \in S : i <= bound
  PROVE  \E i \in S : \A k \in S : k <= i
<1> DEFINE Bounds == {n \in Nat : \A k \in S : k <= n}
<1>1. Bounds \in SUBSET Nat /\ bound \in Bounds
  OBVIOUS
<1>2. PICK n \in Bounds : \A m \in Bounds : n <= m
  <2> DEFINE Less == OpToRel(<, Nat)
  <2>1. PICK n \in Bounds : \A m \in Bounds : <<m, n>> \notin Less
    <3> HIDE DEF Bounds, Less
    <3>1. IsWellFoundedOn(Less, Nat)
      BY NatLessThanWellFounded DEF Less
    <3> QED
      BY <1>1, <3>1, WFMin
  <2>2. \A m \in Nat : m < n => <<m, n>> \in Less
    BY <1>1 DEF OpToRel
  <2>3. \A m \in Bounds : ~ (m < n)
    BY <1>1, <2>1, <2>2
  <2> QED
    BY <1>1, <2>3
<1>3. n \in S
  <2> SUFFICES ASSUME n \notin S PROVE FALSE
    OBVIOUS
  <2>1. \A k \in S : k <= n - 1
    BY <1>2
  <2>2. PICK k \in S : TRUE
    OBVIOUS
  <2>3. n - 1 \in Bounds
    BY <1>2, <2>1, <2>2
  <2> QED
    BY <1>2, <2>3
<1> QED
  BY <1>2, <1>3

\* A device with a snapshot has a newest one.
LEMMA NewestExists ==
  ASSUME Safe, NEW dev, Kept(dev) # {} PROVE Newest(dev) # {}
<1>1. Kept(dev) \in SUBSET Nat
  BY KeptRow
<1>2. MaxSnapshots \in Nat /\ \A i \in Kept(dev) : i <= MaxSnapshots
  BY Constants DEF Kept, Snapshots
<1>3. PICK i \in Kept(dev) : \A k \in Kept(dev) : k <= i
  <2> HIDE DEF Kept
  <2> QED
    BY <1>1, <1>2, Greatest
<1> QED
  BY <1>3 DEF Newest

\* A device has no more snapshots than its latest version number: the numbers tell them apart.
LEMMA NotMoreThanVersions ==
  ASSUME Safe, NEW dev, NEW i \in Latest(dev)
  PROVE  Cardinality(Kept(dev)) <= snapshot[i].version
<1> DEFINE last == snapshot[i].version
           number == [k \in Kept(dev) |-> snapshot[k].version]
<1>1. i \in Kept(dev) /\ \A k \in Kept(dev) : snapshot[k].version <= last
  BY DEF Latest
<1>2. last \in Nat /\ last >= 1
  BY <1>1, KeptRow
<1>3. \A k \in Kept(dev) : k \in Nat /\ number[k] \in 1 .. last
  BY <1>1, <1>2, KeptRow
<1>4. ASSUME NEW j \in Kept(dev), NEW k \in Kept(dev), number[j] = number[k] PROVE j = k
  <2>1. ~ (j < k) /\ ~ (k < j)
    BY <1>3, <1>4, CreationIsVersion
  <2> QED
    BY <1>3, <2>1
<1>5. number \in Injection(Kept(dev), 1 .. last)
  BY <1>3, <1>4 DEF Injection, IsInjective
<1>6. IsFiniteSet(1 .. last) /\ Cardinality(1 .. last) = last
  <2> HIDE DEF last
  <2>1. 1 \in Int /\ last \in Int
    BY <1>2
  <2>2. /\ IsFiniteSet(1 .. last)
        /\ Cardinality(1 .. last) = IF 1 > last THEN 0 ELSE last - 1 + 1
    BY <2>1, FS_Interval
  <2> QED
    BY <1>2, <2>2
<1>7. Cardinality(Kept(dev)) <= Cardinality(1 .. last)
  BY <1>5, <1>6, FS_Injection
<1> QED
  BY <1>6, <1>7

\* The three conjuncts of DriftIsHonest, for one device.
LEMMA InSyncIsSo ==
  ASSUME ViewsSafe, NEW dev \in Devices, Drift(page[dev], dev) = "in_sync", NEW i \in Latest(dev)
  PROVE  snapshot[i].content = page[dev].content
<1>1. Kept(dev) # {}
  BY DEF Latest
<1>2. page[dev].snap \in Kept(dev)
  BY <1>1 DEF Drift
<1>3. PICK n \in Newest(dev) : snapshot[n].content = snapshot[page[dev].snap].content
  BY <1>1, <1>2 DEF Drift
<1>4. n = i
  BY <1>3, NewestIsLatest DEF ViewsSafe
<1>5. snapshot[page[dev].snap].content = page[dev].content
  BY <1>2, Constants DEF ViewsSafe, PageAgreesWithArchive, Kept
<1> QED
  BY <1>3, <1>4, <1>5

\* A device that is called drifted has moved on from its baseline.
LEMMA DriftedIsSo ==
  ASSUME ViewsSafe, NEW dev \in Devices, Drift(page[dev], dev) = "drifted", NEW i \in Latest(dev)
  PROVE  page[dev].version < snapshot[i].version /\ snapshot[i].content # page[dev].content
<1>1. Kept(dev) # {}
  BY DEF Latest
<1>2. page[dev].snap \in Kept(dev)
  BY <1>1 DEF Drift
<1>3. \A n \in Newest(dev) : snapshot[n].content # snapshot[page[dev].snap].content
  BY <1>1, <1>2 DEF Drift
<1>4. PICK n \in Newest(dev) : TRUE
  BY <1>1, NewestExists DEF ViewsSafe
<1>5. n = i
  BY <1>4, NewestIsLatest DEF ViewsSafe
<1>6. /\ snapshot[page[dev].snap].content = page[dev].content
      /\ snapshot[page[dev].snap].version = page[dev].version
  BY <1>2, Constants DEF ViewsSafe, PageAgreesWithArchive, Kept
<1>7. page[dev].snap < n
  <2>1. page[dev].snap <= n /\ n \in Kept(dev)
    BY <1>2, <1>4 DEF Newest
  <2>2. page[dev].snap # n
    BY <1>3, <1>4
  <2> QED
    BY <1>2, <2>1, <2>2, KeptRow DEF ViewsSafe
<1>8. snapshot[page[dev].snap].version < snapshot[n].version
  <2>1. n \in Kept(dev)
    BY <1>4 DEF Newest
  <2> QED
    BY <1>2, <1>7, <2>1, CreationIsVersion DEF ViewsSafe
<1> QED
  BY <1>3, <1>4, <1>5, <1>6, <1>8

\* The device list shows the number the archive counts on from, no less than the rows it counts.
LEMMA StatusIsSo ==
  ASSUME ViewsSafe, NEW dev \in Devices, Kept(dev) # {}
  PROVE  /\ DeviceStatus(dev).latest >= DeviceStatus(dev).total
         /\ \A i \in Latest(dev) : DeviceStatus(dev).latest = snapshot[i].version
<1> DEFINE n == CHOOSE i \in Newest(dev) : TRUE
<1>1. n \in Newest(dev)
  BY NewestExists DEF ViewsSafe
<1> HIDE DEF n
<1>2. n \in Latest(dev) /\ \A k \in Latest(dev) : k = n
  BY <1>1, NewestIsLatest DEF ViewsSafe
<1>3. /\ DeviceStatus(dev).latest = snapshot[n].version
      /\ DeviceStatus(dev).total = Cardinality(Kept(dev))
  BY DEF DeviceStatus, n
<1>4. Cardinality(Kept(dev)) <= snapshot[n].version
  BY <1>2, NotMoreThanVersions DEF ViewsSafe
<1>5. Cardinality(Kept(dev)) \in Nat /\ snapshot[n].version \in Nat
  <2>1. IsFiniteSet(Kept(dev))
    <3>1. 1 \in Int /\ MaxSnapshots \in Int
      BY Constants
    <3>2. IsFiniteSet(Snapshots)
      BY <3>1, FS_Interval DEF Snapshots
    <3>3. Kept(dev) \in SUBSET Snapshots
      BY DEF Kept
    <3> QED
      BY <3>2, <3>3, FS_Subset
  <2>2. n \in Kept(dev)
    BY <1>1 DEF Newest
  <2> QED
    BY <2>1, <2>2, FS_CardinalityType, KeptRow DEF ViewsSafe
<1> QED
  BY <1>2, <1>3, <1>4, <1>5

-----------------------------------------------------------------------------
(* Theorem *)

\* What the drift page and the device list say is so, whatever was archived, pruned, deleted or
\* designated between the page's two queries.
THEOREM PagesAreHonest == SpecViews => []DriftIsHonest
<1>1. ViewsSafe => DriftIsHonest
  BY InSyncIsSo, DriftedIsSo, StatusIsSo DEF DriftIsHonest
<1> QED
  BY <1>1, ViewsAlways, PTL

=============================================================================
