----------------------------- MODULE ConfigCompare -----------------------------
(***************************************************************************)
(* NCM -> Configuration Compare (compare_configurations of                 *)
(* api/routes_ncm.py, services/ncm_compare.py): the latest snapshots of    *)
(* the selected devices, area by area, against what most of them have.     *)
(***************************************************************************)
EXTENDS Shared, Integers, FiniteSets, FiniteSetsExt, SequencesExt

CONSTANTS
  Blank,         \* an archived configuration without a character
  CategoryLines, \* [configuration -> [area -> its lines there, or None]]
  Fleets,        \* the latest snapshots to compare: [device -> configuration or None]
  SelectLimit    \* BOUND: devices in a request

\* The categories are a fixed table of patterns; None is no device.
ASSUME CompareAssumption ==
  /\ IsFiniteSet(UNION {DOMAIN CategoryLines[c] : c \in DOMAIN CategoryLines})
  /\ \A f \in Fleets : None \notin DOMAIN f

VARIABLES
  fleet,
  selection      \* the devices of the request, in the order they were selected

compareVars == <<fleet, selection>>

Areas == UNION {DOMAIN CategoryLines[c] : c \in DOMAIN CategoryLines}

-----------------------------------------------------------------------------
(* One area, for the devices `all` of a request. *)

\* The places with something to compare; a device that is selected twice has two of them
\* and is one key of the dictionaries.
Comparable(all) == {i \in DOMAIN all : fleet[all[i]] \notin {None, Blank}}
Compared(all)   == {all[i] : i \in Comparable(all)}

LinesOf(d, area) == CategoryLines[fleet[d]][area]
Alike(all, area, d) == {e \in Compared(all) : LinesOf(e, area) = LinesOf(d, area)}
Votes(all, area, d) == Cardinality(Alike(all, area, d))

\* Variant with a fault: the device selected first is what the others are held against.
LeaderIsFirst(all, area) == all[Min(Comparable(all))]

\* max over the tally, which keeps the first of equals: a device with the majority's lines.
Leader(all, area) ==
  LET tally == [d \in Compared(all) |-> Votes(all, area, d)]
  IN  all[CHOOSE i \in Comparable(all) :
            \A j \in Comparable(all) : /\ tally[all[j]] <= tally[all[i]]
                                       /\ j < i => tally[all[j]] < tally[all[i]]]

Matching(all, area) ==
  LET leader == Leader(all, area)
  IN  IF Votes(all, area, leader) = 1 THEN {} ELSE Alike(all, area, leader)

-----------------------------------------------------------------------------
(* All areas *)

\* An area that no device uses is dropped.
Shown(all) == {area \in Areas : \E d \in Compared(all) : LinesOf(d, area) # None}

\* The cells of a device in the rows of the matrix: one for each time it was selected.
Cells(all, d) == Cardinality({i \in Comparable(all) : all[i] = d})
\* difference_counts.
Differences(all) ==
  LET matching == [area \in Shown(all) |-> Matching(all, area)]
  IN  [d \in Compared(all) |->
         Cells(all, d) * Cardinality({area \in Shown(all) : d \notin matching[area]})]

\* The one device that differs most.
Worst(counts) ==
  {d \in DOMAIN counts : /\ counts[d] > 0
                         /\ \A e \in DOMAIN counts \ {d} : counts[e] < counts[d]}
Outlier(counts) == IF Worst(counts) = {} THEN None ELSE CHOOSE d \in Worst(counts) : TRUE

\* The first device that matches everywhere.
Agreeing(all, counts) == {i \in Comparable(all) : counts[all[i]] = 0}
BaselineDevice(all, counts) ==
  IF Agreeing(all, counts) = {} THEN None ELSE all[Min(Agreeing(all, counts))]

\* compare_devices
CompareDevices(all) ==
  LET places    == Cardinality(Comparable(all))
      counted   == places >= 2
      counts    == Differences(all)
      identical == Cardinality({d \in Compared(all) : counts[d] = 0})
  IN  [without   |-> ToSet(all) \ Compared(all),
       rows      |-> [area \in IF counted THEN Shown(all) ELSE {} |-> Matching(all, area)],
       identical |-> IF counted THEN identical ELSE 0,
       differing |-> IF counted THEN places - identical ELSE 0,
       outlier   |-> IF counted THEN Outlier(counts) ELSE None,
       baseline  |-> IF counted THEN BaselineDevice(all, counts) ELSE None]

-----------------------------------------------------------------------------
InitCompare == fleet \in Fleets /\ selection = <<>>

SelectDevice ==
  /\ Len(selection) < SelectLimit
  /\ \E d \in DOMAIN fleet : selection' = Append(selection, d)
  /\ UNCHANGED fleet

SpecCompare == InitCompare /\ [][SelectDevice]_compareVars

-----------------------------------------------------------------------------
(* Properties *)

\* Two groups of the same size, with different lines, are the largest ones.
Tied(all, area) ==
  \E d, e \in Compared(all) :
    /\ LinesOf(d, area) # LinesOf(e, area)
    /\ Votes(all, area, d) = Votes(all, area, e)
    /\ Votes(all, area, d) > 1
    /\ \A f \in Compared(all) : Votes(all, area, f) <= Votes(all, area, d)

\* Two of the devices change places; every order is reached by such exchanges.
Reordered(all) == {[all EXCEPT ![i] = all[j], ![j] = all[i]] : i, j \in DOMAIN all}

\* An area that more than half of the devices agree on is matched by exactly
\* these; nobody is the outlier of two; and the answer does not depend on the
\* order in which the devices were selected, as the comment on compare_devices
\* wants it, unless two groups tie in some area.  The device to compare the
\* others with may be another one, with the same lines.  A device selected twice
\* is not considered: it counts twice in the matrix and once in the tally.
ComparisonIsFair ==
  LET answer == CompareDevices(selection)
      places == Cardinality(Comparable(selection))
  IN  Cardinality(ToSet(selection)) = Len(selection) =>
        /\ \A area \in DOMAIN answer.rows, d \in Compared(selection) :
             2 * Votes(selection, area, d) > places =>
               answer.rows[area] = Alike(selection, area, d)
        /\ places = 2 => answer.outlier = None
        /\ (\A area \in Areas : ~Tied(selection, area)) =>
             \A other \in Reordered(selection) :
               LET its == CompareDevices(other)
               IN  /\ [its EXCEPT !.baseline = None] = [answer EXCEPT !.baseline = None]
                   /\ its.baseline = None <=> answer.baseline = None
                   /\ its.baseline # None =>
                        \A area \in Areas : LinesOf(its.baseline, area) = LinesOf(answer.baseline, area)
=============================================================================
