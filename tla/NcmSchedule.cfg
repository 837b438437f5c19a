\* One polling process, one request thread, one schedule, two days with edits.
CONSTANTS
  p1 = p1
  r1 = r1
  s1 = s1
  Nobody = Nobody
  Pollers = {p1}
  Requests = {r1}
  Schedules = {s1}
  RunTimes = {0, 1}
  DayLen = 2
  MaxTime = 3
  MaxJobs = 5
  MaxAsks = 1
  MaxDeaths = 1
SPECIFICATION Spec
INVARIANTS
  TypeOK
  OneExecutor
  RunningJobIsRecoverable
  ShownResultIsTheJobs
  JobNumbersUnique
  ReplayNeedsRunNow
PROPERTY ImplementsLedger
