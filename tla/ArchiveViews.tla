----------------------------- MODULE ArchiveViews -----------------------------
(***************************************************************************)
(* The pages that read the archive: the drift page (services/ncm_drift.py, *)
(* get_drift) and the device list (list_device_status) of                  *)
(* api/routes_ncm.py.  They only read, so they wait for nobody; the drift  *)
(* page asks for the baselines first and for the snapshots in a second     *)
(* query, and whatever commits in between is in the second answer only.    *)
(*                                                                         *)
(* The pages take the snapshot created last for the latest one, where the  *)
(* archive and retention take the highest version number.                  *)
(***************************************************************************)
EXTENDS NcmArchive, FiniteSets

VARIABLE page   \* the rows of ncm_baselines, as the first query returned them

views == <<running, snapshot, baseline, pin, writer, stage, horizon, seen, protected, page>>

-----------------------------------------------------------------------------
\* ORDER BY created_at DESC, the first row of the device.
Newest(dev) == {i \in Kept(dev) : \A k \in Kept(dev) : k <= i}

\* Variant with a fault: the version that the baseline repeats stands for its snapshot.
DriftByVersion(row, dev) ==
  CASE Kept(dev) = {} -> "no_snapshot"
    [] Kept(dev) # {} /\ row = NoBaseline -> "no_baseline"
    [] OTHER -> IF \E i \in Newest(dev) : snapshot[i].version = row.version THEN "in_sync"
                ELSE "drifted"

\* evaluate_device_drift: row against the newest snapshot, by their digests.
Drift(row, dev) ==
  CASE Kept(dev) = {} -> "no_snapshot"
    [] Kept(dev) # {} /\ row = NoBaseline -> "no_baseline"
    [] Kept(dev) # {} /\ row # NoBaseline /\ row.snap \notin Kept(dev) -> "baseline_gone"
    [] Kept(dev) # {} /\ row # NoBaseline /\ row.snap \in Kept(dev) ->
         IF \E i \in Newest(dev) : snapshot[i].content = snapshot[row.snap].content
           THEN "in_sync" ELSE "drifted"

\* The versions the two pages show beside a device.
DeviceStatus(dev) ==
  [latest |-> IF Kept(dev) = {} THEN None ELSE snapshot[CHOOSE i \in Newest(dev) : TRUE].version,
   total  |-> Cardinality(Kept(dev))]

\* The first query of compute_fleet_drift.
OpenDrift ==
  /\ page' = baseline
  /\ UNCHANGED vars

InitViews == Init /\ page = baseline
NextViews ==
  \/ OpenDrift
  \/ Next /\ UNCHANGED page
SpecViews == InitViews /\ [][NextViews]_views

-----------------------------------------------------------------------------
(* Properties *)

\* What the drift page says is so when its second query is answered, whatever
\* was archived, pruned, deleted or designated since the first one.  It calls a
\* device in sync only if the device's latest snapshot, by number, is the
\* configuration that was designated, and not another one that took up the
\* number of a deleted snapshot; it calls it drifted only with a baseline older
\* than the latest; and the device list shows the version that the archive
\* counts on from.
DriftIsHonest ==
  \A dev \in Devices :
    /\ Drift(page[dev], dev) = "in_sync" =>
         \A i \in Latest(dev) : snapshot[i].content = page[dev].content
    /\ Drift(page[dev], dev) = "drifted" =>
         \A i \in Latest(dev) : /\ page[dev].version < snapshot[i].version
                                /\ snapshot[i].content # page[dev].content
    /\ Kept(dev) # {} => /\ DeviceStatus(dev).latest >= DeviceStatus(dev).total
                         /\ \A i \in Latest(dev) : DeviceStatus(dev).latest = snapshot[i].version

\* The part of the inductive invariant that is about the page: a row it has read
\* names a snapshot that is unchanged or gone.
PageAgreesWithArchive ==
  \A dev \in Devices : page[dev].snap # None =>
    LET row == snapshot[page[dev].snap] IN
    /\ row.fate # "none"
    /\ row.fate = "kept" => /\ row.device = dev
                            /\ row.version = page[dev].version
                            /\ row.content = page[dev].content

=============================================================================
