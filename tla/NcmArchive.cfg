\* One device, two configurations, one schedule, one deployment, one reader.
CONSTANTS
  r1 = r1
  a = a
  b = b
  s1 = s1
  d1 = d1
  None = None
  Devices = {r1}
  Contents = {a, b}
  Schedules = {s1}
  Deployments = {d1}
  MaxSnapshots = 4
SYMMETRY Symmetry
SPECIFICATION SpecViews
INVARIANTS
  TypeOK
  VersionsFollowHistory
  DriftIsHonest
PROPERTY PinnedIsNotPruned
