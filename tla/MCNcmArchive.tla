---------------------------- MODULE MCNcmArchive ----------------------------
(***************************************************************************)
(* Which instances are alike, and a sentence of the documentation on       *)
(* retention that the code keeps only while no snapshot is deleted by hand *)
(* at the same time.                                                       *)
(***************************************************************************)
EXTENDS ArchiveViews, TLC

\* Which configuration is which makes no difference.
Symmetry == Permutations(Contents)

\* docs/CONFIGURATION.md: "The latest snapshot for each device/configuration
\* type, designated baselines, and deployment rollback/verification snapshots
\* remain protected."
LatestIsNotPruned ==
  [][\A dev \in Devices : \A i \in Latest(dev) : ~IsPruned(i)]_vars
=============================================================================
