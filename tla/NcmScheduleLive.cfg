\* Liveness: two polling processes, one request thread, one schedule.
CONSTANTS
  p1 = p1
  p2 = p2
  r1 = r1
  s1 = s1
  Nobody = Nobody
  Pollers = {p1, p2}
  Requests = {r1}
  Schedules = {s1}
  RunTimes = {0}
  DayLen = 1
  MaxTime = 1
  MaxJobs = 4
  MaxAsks = 1
  MaxDeaths = 1
SPECIFICATION FairSpec
PROPERTIES
  DueIsAttempted
  RunningIsSettled
