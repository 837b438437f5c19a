\* Applying: two requests, the factory file, one text that runs and one that passes the check and
\* does not run; where no file was installed, one request.  Policies: three, two operations.  Repairs: two in a row.  Reports: two devices and
\* four runs, two of them history.  Comparison: four devices.
CONSTANTS
  q1 = q1
  q2 = q2
  factory = factory
  good = good
  empty = empty
  torn = torn
  None = None
  p1 = p1
  p2 = p2
  p3 = p3
  c1 = c1
  c2 = c2
  g1 = g1
  g2 = g2
  g3 = g3
  dg1 = dg1
  d1 = d1
  d2 = d2
  d3 = d3
  u1 = u1
  u2 = u2
  u3 = u3
  w1 = w1
  a1 = a1
  a2 = a2
  r1 = r1
  r2 = r2
  k1 = k1
  k2 = k2
  k3 = k3
  Requests = {q1, q2}
  Contents = {empty, factory, good}
  Loadable = {factory, good}
  Checkable = {factory, good, empty}
  Empty = empty
  Factory = factory
  Torn = torn
  Edits = {factory}
  DirectoryOn = TRUE
  RadiusOn = TRUE
  External = {g2}
  Unsound = {}
  Unsafe = {"slash"}
  LocalUser <- MCLocalUser
  Reported <- MCReported
  GroupCn <- MCGroupCn
  Device <- MCDevice
  DeviceGroups = {dg1}
  Hits <- MCHits
  Bodies <- MCBodies
  Trees <- MCTrees
  RadiusBodies <- MCRadiusBodies
  GrantForms <- MCGrantForms
  SetBodies <- MCSetBodies
  InitialBooks <- MCInitialBooks
  Configurations <- MCConfigurations
  Policies = {p1, p2, p3}
  RadiusPolicies = {r1, r2}
  CommandSets = {c1, c2}
  Addresses = {a1, a2}
  Commands = {"show run", "conf t"}
  Services = {"Login-User", "Administrative-User"}
  MaxPriority = 2
  EditLimit = 2
  FixLimit = 2
  Devices = {d1, d2}
  Keys = {k1, k2, k3}
  Interfaces = {"gi1"}
  Severity <- MCSeverity
  Controls <- MCControls
  Observations <- MCObservations
  InitialRuns <- MCInitialRuns
  Blank = "blank"
  CategoryLines <- MCLines
  Fleets <- MCFleets
  Upgrades = 2
  RunLimit = 4
  ActivityRuns = 3
  SelectLimit = 4
SYMMETRY Symmetry
SPECIFICATION SpecTopics
INVARIANTS
  TypeOK
  HistoryIsDense
  FileCanBeTrusted
  CompiledDecidesAsSimulated
  FixesClearTheirFinding
  ScoreMovesWithFindings
  PagesAgree
  ComparisonIsFair
PROPERTIES
  HistoryIsAppendOnly
  AnswersAreTrue
  EditsKeepTheOthersInOrder
  RewritingKeepsDecisions
