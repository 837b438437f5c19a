\* Two requests and two deployments of one candidate suffice.
CONSTANTS
  q1 = q1
  q2 = q2
  x = x
  y = y
  c1 = c1
  r1 = r1
  s1 = s1
  d1 = d1
  d2 = d2
  None = None
  Requests = {q1, q2}
  Admins = {x, y}
  Candidates = {c1}
  Devices = {r1}
  Schedules = {s1}
  Deployments = {d1, d2}
  MaxSnapshots = 2
CHECK_DEADLOCK FALSE
SPECIFICATION SpecMixes
PROPERTY NeverReused
