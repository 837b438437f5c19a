\* One poller and one request thread suffice for the documented sequence.
CONSTANTS
  p1 = p1
  r1 = r1
  s1 = s1
  Nobody = Nobody
  Pollers = {p1}
  Requests = {r1}
  Schedules = {s1}
  RunTimes = {0, 1}
  DayLen = 2
  MaxTime = 3
  MaxJobs = 4
  MaxAsks = 1
  MaxDeaths = 0
SPECIFICATION Spec
INVARIANT NeverRetriedAutomatically
