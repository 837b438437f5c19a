---------------------------- MODULE AuditReports ----------------------------
(***************************************************************************)
(* The audit runs of the Security Center and what its pages derive from    *)
(* them: scores, the comparison of two runs, activity, dashboard and       *)
(* compliance.  Scores are in tenths of a point.                           *)
(***************************************************************************)
EXTENDS Shared, Integers, Sequences, FiniteSets, FiniteSetsExt

CONSTANTS
  Devices,       \* the device identities
  Keys,          \* the finding identities (domain, check, interface)
  Severity,      \* the true severity of each key
  Controls,      \* the compliance controls its check is mapped to
  Interfaces,    \* the ports a device may have
  Observations,  \* what an assessment may yield: [seen, scope, complete]
  Upgrades,      \* bound: the releases of the engine
  RunLimit,      \* bound: audit runs
  ActivityRuns,  \* how many runs the activity page looks back (200 in the code)
  InitialRuns    \* the history an installation starts with

VARIABLES
  devices,   \* the devices in the inventory
  runs,      \* the runs in the order of started_at
  revision   \* engine_revision of the running process

reportVars == <<devices, runs, revision>>

-----------------------------------------------------------------------------
(* scoring.py *)

Statuses == {"pass", "warn", "manual_review", "fail", "na"}
Weight == [critical |-> 12, high |-> 7, medium |-> 3, low |-> 1, info |-> 0]
HalfCredits == [pass |-> 2, warn |-> 1, manual_review |-> 0, fail |-> 0]

\* round(n / d, 1) of a ratio in tenths: half to even.
Rounded(n, d) ==
  LET q == n \div d
      r == 2 * (n % d)
  IN  IF r > d \/ (r = d /\ q % 2 = 1) THEN q + 1 ELSE q

Observed(seen, keys) == UNION {{<<k, n>> : n \in DOMAIN seen[k]} : k \in keys}
StatusOf(seen, o) == seen[o[1]][o[2]]
Counted(seen, keys) == {o \in Observed(seen, keys) : StatusOf(seen, o) # "na"}
Earned(seen, keys) ==
  SumFunction([o \in Counted(seen, keys) |-> Weight[Severity[o[1]]] * HalfCredits[StatusOf(seen, o)]])
Applicable(seen, keys) == SumFunction([o \in Counted(seen, keys) |-> Weight[Severity[o[1]]]])
ScoreFindings(seen, keys) ==
  IF Applicable(seen, keys) = 0 THEN 1000
  ELSE Rounded(500 * Earned(seen, keys), Applicable(seen, keys))

\* map_findings_to_compliance keeps the last finding of a check; control_status rolls up.
Contributing(seen, control) ==
  {seen[k][Len(seen[k])] : k \in {x \in Keys : control \in Controls[x] /\ seen[x] # <<>>}}
\* The roll-up in the wrong order.
ReviewFirst(seen, control) ==
  LET statuses == Contributing(seen, control)
  IN  IF statuses = {} THEN None
      ELSE IF "manual_review" \in statuses THEN "manual_review"
      ELSE IF "fail" \in statuses THEN "fail"
      ELSE IF statuses = {"na"} THEN "na" ELSE "pass"
ControlStatus(seen, control) ==
  LET statuses == Contributing(seen, control)
  IN  IF statuses = {} THEN None
      ELSE IF "fail" \in statuses THEN "fail"
      ELSE IF "manual_review" \in statuses THEN "manual_review"
      ELSE IF statuses = {"na"} THEN "na" ELSE "pass"

-----------------------------------------------------------------------------
(* The runs *)

Nothing == [seen |-> [k \in Keys |-> <<>>], scope |-> {}, complete |-> FALSE]
\* `engine` is the process that executes the run; `manifest` the revision recorded with the result,
\* None for a run without an assessment row; `recorded` the device identity in that row.
NewRun(device) ==
  [device |-> device, recorded |-> None, status |-> "running", engine |-> revision,
   manifest |-> None, result |-> Nothing, score |-> None]

Results == [seen : [Keys -> Seq(Statuses)], scope : SUBSET Interfaces, complete : BOOLEAN]
RunRecords ==
  [device : Devices \cup {None}, recorded : Devices \cup {None},
   status : {"running", "completed", "failed"}, engine : Int, manifest : Int \cup {None},
   result : Results, score : Int \cup {None}]

\* A check that a framework maps judges the device once; those that yield a finding for each
\* port or statement are mapped by none.
MappedOnce(seen) == \A k \in Keys : Controls[k] # {} => Len(seen[k]) <= 1
ScoreIsRecorded(r) == r.manifest # None => r.score = ScoreFindings(r.result.seen, Keys)

ASSUME ReportsAssumption ==
  /\ IsFiniteSet(Devices) /\ IsFiniteSet(Keys)
  /\ None \notin Devices \cup Statuses /\ ActivityRuns \in Nat
  /\ Severity \in [Keys -> DOMAIN Weight]
  /\ Observations \subseteq Results /\ \A o \in Observations : MappedOnce(o.seen)
  /\ \A history \in InitialRuns :
       /\ history \in Seq(RunRecords)
       /\ \A i \in DOMAIN history :
            /\ history[i].recorded \in {None, history[i].device}
            /\ MappedOnce(history[i].result.seen) /\ ScoreIsRecorded(history[i])

\* _create_running_audit_row; an upload may name no device.
BeginRun(device) ==
  /\ Len(runs) < RunLimit
  /\ runs' = Append(runs, NewRun(device))
  /\ UNCHANGED <<devices, revision>>

IsRunning(i) == runs[i].status = "running" /\ runs[i].engine = revision

\* persist_audit_result.
FinishRun(i, result) ==
  /\ IsRunning(i)
  /\ runs' = [runs EXCEPT ![i] =
        [@ EXCEPT !.status = "completed", !.manifest = revision, !.recorded = runs[i].device,
                  !.result = result, !.score = ScoreFindings(result.seen, Keys)]]
  /\ UNCHANGED <<devices, revision>>

\* The device was not reached, or the assessment raised.
FailRun(i) ==
  /\ IsRunning(i)
  /\ runs' = [runs EXCEPT ![i].status = "failed"]
  /\ UNCHANGED <<devices, revision>>

\* Deleting a device without running work clears it from its runs; its identity never returns.
DeleteDevice(device) ==
  /\ devices' = devices \ {device}
  /\ \A i \in DOMAIN runs : runs[i].device = device => runs[i].status # "running"
  /\ runs' = [i \in DOMAIN runs |->
                IF runs[i].device = device THEN [runs[i] EXCEPT !.device = None] ELSE runs[i]]
  /\ UNCHANGED revision

\* A release with other checks; runs of the old process stay running.
Upgrade ==
  /\ revision < Upgrades
  /\ revision' = revision + 1
  /\ UNCHANGED <<devices, runs>>

InitReports == devices = Devices /\ runs \in InitialRuns /\ revision = 1
NextReports ==
  \/ \E d \in devices \cup {None} : BeginRun(d)
  \/ \E i \in DOMAIN runs : FailRun(i) \/ \E result \in Observations : FinishRun(i, result)
  \/ \E d \in devices : DeleteDevice(d)
  \/ Upgrade
SpecReports == InitReports /\ [][NextReports]_reportVars

-----------------------------------------------------------------------------
(* audit_comparison.py *)

Identity(r) ==
  IF r.recorded # None /\ r.device # None /\ r.recorded # r.device THEN None
  ELSE IF r.recorded # None THEN r.recorded ELSE r.device

\* Nothing rewrites a stored run, so the recorded hashes agree with the rows.
Problem(r) == r.status # "completed" \/ r.manifest = None \/ ~r.result.complete
Incompatible(a, b) ==
  \/ Problem(a) \/ Problem(b)
  \/ a.manifest # b.manifest
  \/ a.result.scope # b.result.scope

ValidPair(i, j) ==
  /\ i < j
  /\ Identity(runs[i]) # None
  /\ Identity(runs[i]) = Identity(runs[j])

Evaluated(r) == {k \in Keys : r.result.seen[k] # <<>>}
Same(r, k) == r.result.seen[k][1]
\* score_comparison without the look at the applicability of the controls.
LooseDelta(i, j) ==
  LET a == runs[i]
      b == runs[j]
  IN  IF /\ ValidPair(i, j) /\ ~Incompatible(a, b)
         /\ Evaluated(a) # {} /\ Evaluated(a) = Evaluated(b)
         /\ \A k \in Evaluated(a) : Len(a.result.seen[k]) = 1 /\ Len(b.result.seen[k]) = 1
      THEN b.score - a.score ELSE None
ScoreDelta(i, j) ==
  LET a == runs[i]
      b == runs[j]
  IN  IF /\ ValidPair(i, j) /\ ~Incompatible(a, b)
         /\ Evaluated(a) # {} /\ Evaluated(a) = Evaluated(b)
         /\ \A k \in Evaluated(a) : /\ Len(a.result.seen[k]) = 1 /\ Len(b.result.seen[k]) = 1
                                    /\ \/ Same(a, k) = Same(b, k)
                                       \/ {Same(a, k), Same(b, k)} = {"pass", "fail"}
      THEN b.score - a.score ELSE None

\* compare: the category of one finding that fails or awaits review in either run.
Category(a, b, k) ==
  LET before == a.result.seen[k]
      after  == b.result.seen[k]
      was    == IF Len(before) = 1 THEN before[1] ELSE None
      is     == IF Len(after) = 1 THEN after[1] ELSE None
  IN  IF Len(before) > 1 \/ Len(after) > 1 \/ Problem(b) THEN "indeterminate"
      ELSE IF is = "manual_review" THEN "manual_review"
      ELSE IF is = "fail" /\ (was \notin {"pass", "fail"} \/ (was = "pass" /\ Incompatible(a, b)))
        THEN "first_observed"
      ELSE IF Incompatible(a, b) THEN "indeterminate"
      ELSE CASE was = "fail" /\ is = "pass" -> "resolved"
             [] was = "fail" /\ is = "fail" -> "persistent"
             [] was = "pass" /\ is = "fail" -> "new"
             [] OTHER -> "indeterminate"

StatusesOf(seen, k) == {seen[k][n] : n \in DOMAIN seen[k]}
Compare(i, j) ==
  LET a == runs[i]
      b == runs[j]
      Open == {k \in Keys : (StatusesOf(a.result.seen, k) \cup StatusesOf(b.result.seen, k))
                              \cap {"fail", "manual_review"} # {}}
  IN  [k \in Open |-> Category(a, b, k)]
Count(items, category) == {k \in DOMAIN items : items[k] = category}

-----------------------------------------------------------------------------
(* routes_security.py *)

CompletedOf(d) == {i \in DOMAIN runs : runs[i].status = "completed" /\ runs[i].device = d}
Audited == {d \in Devices : CompletedOf(d) # {}}
LatestRun(d) == Max(CompletedOf(d))
PreviousRuns(d) == CompletedOf(d) \ {LatestRun(d)}

\* The activity page goes by the identity, and by the recent runs of any status.
RecentRuns == {i \in DOMAIN runs : Len(runs) - i < ActivityRuns}
Predecessors(i) ==
  {j \in RecentRuns : j < i /\ Identity(runs[i]) # None /\ Identity(runs[j]) = Identity(runs[i])}
ActivityDelta(i) == IF Predecessors(i) = {} THEN None ELSE ScoreDelta(Max(Predecessors(i)), i)

Mean(scores) == Rounded(SumFunction(scores), Cardinality(DOMAIN scores))
AverageScore == Mean([d \in Audited |-> runs[LatestRun(d)].score])
\* The dashboard shows the previous average only when every device has a comparable pair.
Paired ==
  {d \in Audited : PreviousRuns(d) # {} /\ ScoreDelta(Max(PreviousRuns(d)), LatestRun(d)) # None}
PreviousAverage ==
  IF Paired # {} /\ Paired = Audited
  THEN Mean([d \in Paired |-> runs[Max(PreviousRuns(d))].score]) ELSE None

SeenLatest(d) == runs[LatestRun(d)].result.seen
\* list_fleet_findings and the severity counts go by the latest runs only.
FleetFindings(status) ==
  {f \in UNION {{d} \X Observed(SeenLatest(d), Keys) : d \in Audited} :
     StatusOf(SeenLatest(f[1]), f[2]) = status}

AllControls == UNION {Controls[k] : k \in Keys}
StatusesOfControl(control) == {ControlStatus(SeenLatest(d), control) : d \in Audited}
FleetStatus(control) ==
  LET statuses == StatusesOfControl(control)
  IN  IF "fail" \in statuses THEN "fail"
      ELSE IF "manual_review" \in statuses THEN "manual_review"
      ELSE IF "pass" \in statuses THEN "pass" ELSE "na"

-----------------------------------------------------------------------------
(* Properties *)

\* Where two runs have a score difference, every open finding of either is accounted for, a gain
\* has a finding that was resolved and a loss one that is new; and the dashboard's average moves
\* only if some device's last two runs have such a finding.
Backed(difference, items) ==
  /\ difference > 0 => Count(items, "resolved") # {}
  /\ difference < 0 => Count(items, "new") # {}
LastTwo(d) == Compare(Max(PreviousRuns(d)), LatestRun(d))
ScoreMovesWithFindings ==
  /\ \A i, j \in DOMAIN runs :
       ScoreDelta(i, j) # None =>
         /\ Count(Compare(i, j), "indeterminate") \cup Count(Compare(i, j), "first_observed") = {}
         /\ Backed(ScoreDelta(i, j), Compare(i, j))
  /\ PreviousAverage # None =>
       \/ AverageScore = PreviousAverage
       \/ \E d \in Paired : /\ runs[LatestRun(d)].score # runs[Max(PreviousRuns(d))].score
                            /\ Backed(AverageScore - PreviousAverage, LastTwo(d))

\* What keeps a device's last two completed runs from being neighbours on the activity page: an
\* audit between them that failed or still runs, or so many runs that the older one is not read.
KeptApart(d) ==
  \/ Max(PreviousRuns(d)) \notin RecentRuns
  \/ \E k \in DOMAIN runs : /\ Max(PreviousRuns(d)) < k /\ k < LatestRun(d)
                           /\ runs[k].device = d

\* The pages are computed apart and agree: a control fails for the fleet exactly when a shown
\* finding mapped to it fails and awaits review when none fails and one awaits review; and the
\* activity page shows a difference for a device's latest completed run exactly when the dashboard
\* has the device among its pairs, the same one.  The exception is KeptApart: the page promises the
\* difference to the "chronologically-previous completed run" (routes_security.py:1018), the code
\* takes the previous run of any status, and after a failed audit shows no difference at all.
PagesAgree ==
  /\ \A control \in AllControls :
       LET Shown(status) == \E f \in FleetFindings(status) : control \in Controls[f[2][1]]
       IN  /\ (FleetStatus(control) = "fail") <=> Shown("fail")
           /\ (FleetStatus(control) = "manual_review") <=> (Shown("manual_review") /\ ~Shown("fail"))
  /\ \A d \in Audited :
       ActivityDelta(LatestRun(d)) =
         IF d \in Paired /\ ~KeptApart(d)
           THEN runs[LatestRun(d)].score - runs[Max(PreviousRuns(d))].score ELSE None
=============================================================================
