----------------------------- MODULE NcmSchedule ----------------------------
(***************************************************************************)
(* Scheduled and manual configuration backups: ncm_scheduler.py, the locks *)
(* of ncm_lock.py, the job rows of ncm_backup.py and the schedule handlers *)
(* of api/routes_ncm.py.                                                   *)
(*                                                                         *)
(* Every application process runs the polling loop, and any HTTP request   *)
(* may run, edit or delete a schedule or take a manual backup.  A process  *)
(* owns a schedule, and then the single backup writer, through try-locks   *)
(* that the database drops when the process dies.  Steps are separated     *)
(* where the code commits or takes a lock; what a process read before such *)
(* a point and uses after it is kept in its local state.                   *)
(*                                                                         *)
(* What a backup archives is the subject of NcmArchive.                    *)
(***************************************************************************)
EXTENDS Integers

CONSTANTS
  Pollers,      \* processes that run scheduler_loop
  Requests,     \* threads that serve one HTTP request at a time
  Schedules,    \* identities of schedules
  RunTimes,     \* times of day a schedule may be given (offsets in the day)
  DayLen,       \* ticks in a day
  MaxTime,      \* BOUND: the last tick
  MaxJobs,      \* BOUND: backup jobs
  MaxAsks,      \* BOUND: backups asked for by administrators
  MaxDeaths,    \* BOUND: process deaths
  Nobody        \* no process, no schedule, no job

Procs  == Pollers \cup Requests
JobIds == 1..MaxJobs

ASSUME ConstantsAssumption ==
  /\ DayLen \in Nat \ {0}
  /\ MaxTime \in Nat
  /\ MaxJobs \in Nat
  /\ MaxAsks \in Nat
  /\ MaxDeaths \in Nat
  /\ RunTimes \subseteq 0..(DayLen - 1)
  /\ Pollers \cap Requests = {}
  /\ Nobody \notin Procs \cup Schedules \cup JobIds

VARIABLES
  now,          \* the clock
  schedule,     \* rows of ncm_backup_schedules
  state,        \* rows of ncm_schedule_states
  job,          \* rows of ncm_backup_jobs
  scheduleLock, \* holder of the advisory lock 'schedule:<id>'
  writerLock,   \* holder of the advisory lock 'backup-writer'
  pc,           \* where each process is
  target,       \* the schedule a process works on
  asOf,         \* the time it works with: read once per poll, or per request
  todo,         \* the schedules a poll has still to look at
  number,       \* the job number it has read and not used yet
  mine,         \* the job it executes
  verdict,      \* the status it is going to commit
  asks, deaths  \* counters for the bounds

rows   == <<schedule, state, job>>
locks  == <<scheduleLock, writerLock>>
run    == <<target, number, mine, verdict>>
poll   == <<asOf, todo>>
bounds == <<asks, deaths>>
vars   == <<now, schedule, state, job, scheduleLock, writerLock, pc, target, asOf,
            todo, number, mine, verdict, asks, deaths>>

-----------------------------------------------------------------------------
(* Data *)

Never   == -1                  \* a NULL timestamp; every instant is later
BadTime == -1                  \* a daily_run_time that is not HH:MM

\* BackupOutcome.status over every mix of devices that succeed and fail.
Results == {"completed", "partial_success", "failed"}

\* The statuses recover() takes for a finished job.
Terminal == Results \cup {"blocked"}

NoState == [status |-> "absent", slot |-> Never, job |-> Nobody]
NoJob   == [status |-> "none", number |-> 0, source |-> "none",
            started_by |-> "none", schedule |-> Nobody, slot |-> Never]

\* schedule_time.due_slot in a zone without clock changes: today's occurrence
\* if it has come, otherwise yesterday's.  run_schedule replaces an invalid
\* time by midnight.
Midnight(t) == (t \div DayLen) * DayLen

DueSlot(at, t) ==
  IF at = BadTime THEN Midnight(t)
  ELSE IF Midnight(t) + at <= t THEN Midnight(t) + at
  ELSE Midnight(t) + at - DayLen

\* state.last_slot if state else schedule.last_run_at
Checkpoint(s) ==
  IF state[s].status = "absent" THEN schedule[s].lastRun ELSE state[s].slot

\* _next_job_number: MAX(display_number) + 1.
IsNextNumber(n) ==
  /\ \A j \in JobIds : job[j].number < n
  /\ n = 1 \/ \E j \in JobIds : job[j].number = n - 1

\* The identity of a new row: fresh, and it does not matter which.
IsFreshJob(j) ==
  /\ job[j].status = "none"
  /\ \A k \in JobIds : k < j => job[k].status # "none"

IsLive(s) == schedule[s].phase = "live"

-----------------------------------------------------------------------------
(* Locks and local state *)

Holding == {"load", "decide", "number", "claim", "resolve", "backup", "record", "close"}
Writing == {"number", "claim", "resolve", "backup", "record", "close",
            "mnumber", "mclaim", "mbackup"}

\* Between the commit that inserts the job row and the release of the writer.
Executing == {"resolve", "backup", "record", "close", "mbackup"}

\* Variant with a fault: the result of the try-lock is not looked at.
TakeScheduleUnchecked(p, s) ==
  scheduleLock' = [scheduleLock EXCEPT ![s] = p]

TakeSchedule(p, s) ==
  /\ scheduleLock[s] = Nobody
  /\ scheduleLock' = [scheduleLock EXCEPT ![s] = p]

TakeWriter(p) ==
  /\ writerLock = Nobody
  /\ writerLock' = p

\* Variant with a fault: no "finally" around the writer lock.
ReleaseScheduleOnly(p) ==
  /\ scheduleLock' = [s \in Schedules |-> IF scheduleLock[s] = p THEN Nobody
                                          ELSE scheduleLock[s]]
  /\ UNCHANGED writerLock

ReleaseAll(p) ==
  /\ scheduleLock' = [s \in Schedules |-> IF scheduleLock[s] = p THEN Nobody
                                          ELSE scheduleLock[s]]
  /\ writerLock' = IF writerLock = p THEN Nobody ELSE writerLock

Goto(p, place) == pc' = [pc EXCEPT ![p] = place]

Forget(p) ==
  /\ target' = [target EXCEPT ![p] = Nobody]
  /\ number' = [number EXCEPT ![p] = 0]
  /\ mine' = [mine EXCEPT ![p] = Nobody]
  /\ verdict' = [verdict EXCEPT ![p] = "none"]

\* run_schedule returns or raises: a poll goes on with its next schedule.
Leave(p) ==
  /\ ReleaseAll(p)
  /\ Goto(p, IF p \in Pollers THEN "poll" ELSE "idle")
  /\ Forget(p)

-----------------------------------------------------------------------------
(* Initial states: schedules that do not exist yet, or rows that an earlier *)
(* version left, with no state row and perhaps a last run or a bad time.    *)

FutureRow == [phase |-> "new", enabled |-> FALSE, at |-> BadTime,
              created |-> 0, lastRun |-> Never]

LegacyRows ==
  [phase : {"live"}, enabled : {TRUE}, at : RunTimes \cup {BadTime},
   created : {0}, lastRun : {Never, DayLen}]

Init ==
  /\ now = DayLen
  /\ schedule \in [Schedules -> {FutureRow} \cup LegacyRows]
  /\ state = [s \in Schedules |-> NoState]
  /\ job = [j \in JobIds |-> NoJob]
  /\ scheduleLock = [s \in Schedules |-> Nobody]
  /\ writerLock = Nobody
  /\ pc = [p \in Procs |-> "idle"]
  /\ target = [p \in Procs |-> Nobody]
  /\ asOf = [p \in Procs |-> 0]
  /\ todo = [p \in Procs |-> {}]
  /\ number = [p \in Procs |-> 0]
  /\ mine = [p \in Procs |-> Nobody]
  /\ verdict = [p \in Procs |-> "none"]
  /\ asks = 0
  /\ deaths = 0

Tick ==
  /\ now < MaxTime
  /\ now' = now + 1
  /\ UNCHANGED <<rows, locks, pc, run, poll, bounds>>

-----------------------------------------------------------------------------
(* _poll_once *)

\* The schedules and the time are read once, for the whole round.
PollBegin(p) ==
  /\ p \in Pollers
  /\ pc[p] = "idle"
  /\ Goto(p, "poll")
  /\ asOf' = [asOf EXCEPT ![p] = now]
  /\ todo' = [todo EXCEPT ![p] = {s \in Schedules : IsLive(s)}]
  /\ UNCHANGED <<now, rows, locks, run, bounds>>

PollSchedule(p, s) ==
  /\ pc[p] = "poll"
  /\ s \in todo[p]
  /\ TakeSchedule(p, s)
  /\ Goto(p, "load")
  /\ target' = [target EXCEPT ![p] = s]
  /\ todo' = [todo EXCEPT ![p] = @ \ {s}]
  /\ UNCHANGED <<now, rows, writerLock, asOf, number, mine, verdict, bounds>>

\* ncm_lock.Busy: continue
PollBusy(p, s) ==
  /\ pc[p] = "poll"
  /\ s \in todo[p]
  /\ scheduleLock[s] # Nobody
  /\ todo' = [todo EXCEPT ![p] = @ \ {s}]
  /\ UNCHANGED <<now, rows, locks, pc, run, asOf, bounds>>

PollEnd(p) ==
  /\ pc[p] = "poll"
  /\ todo[p] = {}
  /\ Goto(p, "idle")
  /\ asOf' = [asOf EXCEPT ![p] = 0]
  /\ UNCHANGED <<now, rows, locks, run, todo, bounds>>

-----------------------------------------------------------------------------
(* run_schedule *)

\* POST /schedules/{id}/run-now; a busy schedule answers 409.
RunNow(p, s) ==
  /\ p \in Requests
  /\ pc[p] = "idle"
  /\ asks < MaxAsks
  /\ TakeSchedule(p, s)
  /\ Goto(p, "load")
  /\ target' = [target EXCEPT ![p] = s]
  /\ asOf' = [asOf EXCEPT ![p] = now]
  /\ asks' = asks + 1
  /\ UNCHANGED <<now, rows, writerLock, todo, number, mine, verdict, deaths>>

\* The row is read after the lock; a schedule deleted meanwhile is a 404.
NotFound(p) ==
  /\ pc[p] = "load"
  /\ ~IsLive(target[p])
  /\ Leave(p)
  /\ UNCHANGED <<now, rows, poll, bounds>>

\* Variant with a fault: recovery is skipped for a disabled schedule.
RecoverIfEnabled(p) ==
  LET s == target[p]
      j == state[s].job
  IN
  /\ pc[p] = "load"
  /\ IsLive(s)
  /\ IF state[s].status = "running" /\ schedule[s].enabled
     THEN LET r == IF job[j].status \in Terminal THEN job[j].status ELSE "failed"
          IN /\ state' = [state EXCEPT ![s].status = r]
             /\ job' = [job EXCEPT ![j].status = r]
     ELSE UNCHANGED <<state, job>>
  /\ Goto(p, "decide")
  /\ UNCHANGED <<now, schedule, locks, run, poll, bounds>>

\* Variant with a fault: nothing is recovered.
RecoverNothing(p) ==
  /\ pc[p] = "load"
  /\ IsLive(target[p])
  /\ Goto(p, "decide")
  /\ UNCHANGED <<now, rows, locks, run, poll, bounds>>

\* Variant with a fault: the job's own result is not consulted.
RecoverAsFailed(p) ==
  LET s == target[p]
  IN
  /\ pc[p] = "load"
  /\ IsLive(s)
  /\ state' = IF state[s].status = "running"
              THEN [state EXCEPT ![s].status = "failed"] ELSE state
  /\ Goto(p, "decide")
  /\ UNCHANGED <<now, schedule, job, locks, run, poll, bounds>>

\* recover(): the lock is ours, so whoever left "running" behind is dead.
Recover(p) ==
  LET s == target[p]
      j == state[s].job
  IN
  /\ pc[p] = "load"
  /\ IsLive(s)
  /\ IF state[s].status = "running"
     THEN LET r == IF job[j].status \in Terminal THEN job[j].status ELSE "failed"
          IN /\ state' = [state EXCEPT ![s].status = r]
             /\ job' = [job EXCEPT ![j].status = r]
     ELSE UNCHANGED <<state, job>>
  /\ Goto(p, "decide")
  /\ UNCHANGED <<now, schedule, locks, run, poll, bounds>>

Slot(p) == DueSlot(schedule[target[p]].at, asOf[p])

\* Variant with a fault: an occurrence equal to the checkpoint is due again.
DeclinedOffByOne(p) ==
  LET s == target[p]
  IN  \/ ~schedule[s].enabled
      \/ /\ p \in Pollers
         /\ \/ Checkpoint(s) > Slot(p)
            \/ schedule[s].at # BadTime /\ schedule[s].created > Slot(p)

\* A disabled schedule, or a poll with nothing due.
Declined(p) ==
  LET s == target[p]
  IN  \/ ~schedule[s].enabled
      \/ /\ p \in Pollers
         /\ \/ Checkpoint(s) >= Slot(p)
            \/ schedule[s].at # BadTime /\ schedule[s].created > Slot(p)

Decline(p) ==
  /\ pc[p] = "decide"
  /\ Declined(p)
  /\ Leave(p)
  /\ UNCHANGED <<now, rows, poll, bounds>>

\* Busy writer: leave with nothing recorded.
Defer(p) ==
  /\ pc[p] = "decide"
  /\ ~Declined(p)
  /\ writerLock # Nobody
  /\ Leave(p)
  /\ UNCHANGED <<now, rows, poll, bounds>>

OwnWriter(p) ==
  /\ pc[p] = "decide"
  /\ ~Declined(p)
  /\ TakeWriter(p)
  /\ Goto(p, "number")
  /\ UNCHANGED <<now, rows, scheduleLock, run, poll, bounds>>

\* The number is read here, and used by the insert that is committed later.
ReadNumber(p) ==
  /\ pc[p] \in {"number", "mnumber"}
  /\ \E n \in 1..(MaxJobs + 1) :
       /\ IsNextNumber(n)
       /\ number' = [number EXCEPT ![p] = n]
  /\ Goto(p, IF pc[p] = "number" THEN "claim" ELSE "mclaim")
  /\ UNCHANGED <<now, rows, locks, target, mine, verdict, poll, bounds>>

\* One commit consumes the occurrence and inserts the running job.
Claim(p) ==
  LET s == target[p]
      slot == Slot(p)
  IN
  /\ pc[p] = "claim"
  /\ \E j \in JobIds :
       /\ IsFreshJob(j)
       /\ job' = [job EXCEPT ![j] =
            [status |-> "running", number |-> number[p], source |-> "scheduled",
             started_by |-> IF p \in Pollers THEN "(scheduled)" ELSE "admin",
             schedule |-> s, slot |-> slot]]
       /\ state' = [state EXCEPT ![s] = [status |-> "running", slot |-> slot, job |-> j]]
       /\ mine' = [mine EXCEPT ![p] = j]
  /\ schedule' = [schedule EXCEPT ![s].lastRun = asOf[p]]
  /\ Goto(p, "resolve")
  /\ UNCHANGED <<now, locks, target, number, verdict, poll, bounds>>

\* Variant with a fault: a status nobody else knows.
RefuseAsError(p) ==
  /\ pc[p] = "resolve"
  /\ verdict' = [verdict EXCEPT ![p] = "error"]
  /\ Goto(p, "close")
  /\ UNCHANGED <<now, rows, locks, target, number, mine, poll, bounds>>

\* HTTPException: bad time, no credentials, no devices, unsupported type.
Refuse(p) ==
  /\ pc[p] = "resolve"
  /\ verdict' = [verdict EXCEPT ![p] = "blocked"]
  /\ Goto(p, "close")
  /\ UNCHANGED <<now, rows, locks, target, number, mine, poll, bounds>>

Proceed(p) ==
  /\ pc[p] = "resolve"
  /\ schedule[target[p]].at # BadTime
  /\ Goto(p, "backup")
  /\ UNCHANGED <<now, rows, locks, run, poll, bounds>>

\* _run_backup over the devices, up to the commit of the job's own result.
FinishJob(p) ==
  /\ pc[p] = "backup"
  /\ \E r \in Results :
       /\ job' = [job EXCEPT ![mine[p]].status = r]
       /\ verdict' = [verdict EXCEPT ![p] = r]
  /\ Goto(p, "record")
  /\ UNCHANGED <<now, schedule, state, locks, target, number, mine, poll, bounds>>

\* A second commit copies it to the schedule's state.
RecordState(p) ==
  /\ pc[p] = "record"
  /\ state' = [state EXCEPT ![target[p]].status = verdict[p]]
  /\ Goto(p, "close")
  /\ UNCHANGED <<now, schedule, job, locks, run, poll, bounds>>

\* except Exception: the transaction is rolled back.
Fail(p) ==
  /\ pc[p] \in {"resolve", "backup", "record"}
  /\ verdict' = [verdict EXCEPT ![p] = "failed"]
  /\ Goto(p, "close")
  /\ UNCHANGED <<now, rows, locks, target, number, mine, poll, bounds>>

\* The last commit, then both locks are released.  A backup that ran has its
\* result in both rows already.
Close(p) ==
  /\ pc[p] = "close"
  /\ state' = [state EXCEPT ![target[p]].status = verdict[p]]
  /\ job' = [job EXCEPT ![mine[p]].status = verdict[p]]
  /\ Leave(p)
  /\ UNCHANGED <<now, schedule, poll, bounds>>

-----------------------------------------------------------------------------
(* POST /backup: ncm_backup.run_backup under the writer lock alone *)

\* Variant with a fault: the handler calls _run_backup without the lock.
ManualBackupUnlocked(p) ==
  /\ p \in Requests
  /\ pc[p] = "idle"
  /\ asks < MaxAsks
  /\ Goto(p, "mnumber")
  /\ asks' = asks + 1
  /\ UNCHANGED <<now, rows, locks, run, poll, deaths>>

ManualBackup(p) ==
  /\ p \in Requests
  /\ pc[p] = "idle"
  /\ asks < MaxAsks
  /\ TakeWriter(p)
  /\ Goto(p, "mnumber")
  /\ asks' = asks + 1
  /\ UNCHANGED <<now, rows, scheduleLock, run, poll, deaths>>

ManualClaim(p) ==
  /\ pc[p] = "mclaim"
  /\ \E j \in JobIds :
       /\ IsFreshJob(j)
       /\ job' = [job EXCEPT ![j] =
            [status |-> "running", number |-> number[p], source |-> "manual",
             started_by |-> "admin", schedule |-> Nobody, slot |-> Never]]
       /\ mine' = [mine EXCEPT ![p] = j]
  /\ Goto(p, "mbackup")
  /\ UNCHANGED <<now, schedule, state, locks, target, number, verdict, poll, bounds>>

ManualFinish(p) ==
  /\ pc[p] = "mbackup"
  /\ \E r \in Results : job' = [job EXCEPT ![mine[p]].status = r]
  /\ Leave(p)
  /\ UNCHANGED <<now, schedule, state, poll, bounds>>

-----------------------------------------------------------------------------
(* The schedule handlers.  Each holds the schedule's lock (409 when busy)   *)
(* around reads and writes of rows that nobody touches without it, and      *)
(* commits once, so it is one step.                                         *)

CreateSchedule(p, s) ==
  /\ p \in Requests
  /\ pc[p] = "idle"
  /\ schedule[s].phase = "new"
  /\ \E at \in RunTimes, enabled \in BOOLEAN :
       schedule' = [schedule EXCEPT ![s] =
         [phase |-> "live", enabled |-> enabled, at |-> at, created |-> now, lastRun |-> Never]]
  /\ UNCHANGED <<now, state, job, locks, pc, run, poll, bounds>>

UpdateSchedule(p, s) ==
  /\ p \in Requests
  /\ pc[p] = "idle"
  /\ scheduleLock[s] = Nobody
  /\ IsLive(s)
  /\ \E at \in RunTimes, enabled \in BOOLEAN :
       schedule' = [schedule EXCEPT ![s].at = at, ![s].enabled = enabled]
  /\ UNCHANGED <<now, state, job, locks, pc, run, poll, bounds>>

\* The state row goes with the schedule; its jobs lose their schedule.
DeleteSchedule(p, s) ==
  /\ p \in Requests
  /\ pc[p] = "idle"
  /\ scheduleLock[s] = Nobody
  /\ IsLive(s)
  /\ schedule' = [schedule EXCEPT ![s].phase = "gone"]
  /\ state' = [state EXCEPT ![s] = NoState]
  /\ job' = [j \in JobIds |-> IF job[j].schedule = s THEN [job[j] EXCEPT !.schedule = Nobody]
                              ELSE job[j]]
  /\ UNCHANGED <<now, locks, pc, run, poll, bounds>>

-----------------------------------------------------------------------------
\* A process dies, or loses its database session: what it had not committed
\* is gone and the database drops its locks.
Die(p) ==
  /\ pc[p] # "idle"
  /\ deaths < MaxDeaths
  /\ deaths' = deaths + 1
  /\ ReleaseAll(p)
  /\ Goto(p, "idle")
  /\ Forget(p)
  /\ asOf' = [asOf EXCEPT ![p] = 0]
  /\ todo' = [todo EXCEPT ![p] = {}]
  /\ UNCHANGED <<now, rows, asks>>

\* What a process does on its own once it is under way.
Work(p) ==
  \/ PollBegin(p) \/ PollEnd(p)
  \/ \E s \in Schedules : PollSchedule(p, s) \/ PollBusy(p, s)
  \/ NotFound(p) \/ Recover(p) \/ Decline(p) \/ Defer(p) \/ OwnWriter(p)
  \/ ReadNumber(p) \/ Claim(p) \/ Refuse(p) \/ Proceed(p)
  \/ FinishJob(p) \/ RecordState(p) \/ Fail(p) \/ Close(p)
  \/ ManualClaim(p) \/ ManualFinish(p)

\* What administrators ask for.
Ask(p) ==
  \/ ManualBackup(p)
  \/ \E s \in Schedules : \/ RunNow(p, s) \/ CreateSchedule(p, s)
                          \/ UpdateSchedule(p, s) \/ DeleteSchedule(p, s)

Next == Tick \/ \E p \in Procs : Work(p) \/ Ask(p) \/ Die(p)

\* Processes are scheduled and a request under way runs to its end; nobody
\* has to ask for anything, time need not pass, and nothing has to die.
Fairness == \A p \in Procs : WF_vars(Work(p))

Spec == Init /\ [][Next]_vars
FairSpec == Spec /\ Fairness
-----------------------------------------------------------------------------
(* Properties *)

StateStatuses == {"absent", "running"} \cup Terminal
JobStatuses   == {"none", "running"} \cup Terminal
Instants      == Int

ScheduleRows == [phase : {"new", "live", "gone"}, enabled : BOOLEAN,
                 at : RunTimes \cup {BadTime}, created : Instants, lastRun : Instants]
StateRows == [status : StateStatuses, slot : Instants, job : JobIds \cup {Nobody}]
JobRows   == [status : JobStatuses, number : Nat, source : {"none", "manual", "scheduled"},
              started_by : {"none", "admin", "(scheduled)"},
              schedule : Schedules \cup {Nobody}, slot : Instants]
Places    == {"idle", "poll"} \cup Holding \cup Writing

TypeOK ==
  /\ now \in Instants
  /\ schedule \in [Schedules -> ScheduleRows]
  /\ state \in [Schedules -> StateRows]
  /\ job \in [JobIds -> JobRows]
  /\ scheduleLock \in [Schedules -> Procs \cup {Nobody}]
  /\ writerLock \in Procs \cup {Nobody}
  /\ pc \in [Procs -> Places]
  /\ target \in [Procs -> Schedules \cup {Nobody}]
  /\ asOf \in [Procs -> Instants]
  /\ todo \in [Procs -> SUBSET Schedules]
  /\ number \in [Procs -> Nat]
  /\ mine \in [Procs -> JobIds \cup {Nobody}]
  /\ verdict \in [Procs -> {"none"} \cup Terminal]
  /\ asks \in Nat
  /\ deaths \in Nat

\* At most one live process is between the claim and the close of a backup,
\* whatever the mix of polls, Run Now and manual backups.
OneExecutor ==
  \A p, q \in Procs : pc[p] \in Executing /\ pc[q] \in Executing => p = q

\* A scheduled job that is still "running" is the one its schedule's state
\* points to, and that state says "running" too: no interrupted job can be
\* missed by recover(), and no claim overwrites one that was not settled.
RunningJobIsRecoverable ==
  \A j \in JobIds :
    job[j].status = "running" /\ job[j].schedule # Nobody
      => /\ state[job[j].schedule].status = "running"
         /\ state[job[j].schedule].job = j

\* The result a schedule shows is the result of the job it links to, across
\* the separate commits of the two rows, failures between them and recovery.
ShownResultIsTheJobs ==
  \A s \in Schedules :
    state[s].status \in Terminal => job[state[s].job].status = state[s].status

\* MAX+1 numbers are read and inserted in different steps and never collide
\* (the column is unique: a collision would lose the backup).
JobNumbersUnique ==
  \A j, k \in JobIds :
    job[j].status # "none" /\ job[k].status # "none" /\ job[j].number = job[k].number
      => j = k

Automatic(j) == job[j].started_by = "(scheduled)"

\* The scheduler starts one occurrence twice only if an administrator ran the
\* schedule in between (which may move the checkpoint back, after an edit of
\* the time): polls of several processes, deaths and edits never replay it.
ReplayNeedsRunNow ==
  \A j, k \in JobIds :
    /\ Automatic(j) /\ Automatic(k)
    /\ job[j].number < job[k].number
    /\ job[j].schedule = job[k].schedule /\ job[j].schedule # Nobody
    /\ job[j].slot = job[k].slot
    => \E m \in JobIds : /\ job[m].schedule = job[j].schedule
                         /\ job[m].started_by = "admin"
                         /\ job[j].number < job[m].number
                         /\ job[m].number < job[k].number
-----------------------------------------------------------------------------
(* The inductive invariant behind these properties *)

\* A place is reached only by a process that owns its locks.
LocksHeld ==
  \A p \in Procs :
    /\ pc[p] \in Holding => /\ target[p] \in Schedules
                            /\ scheduleLock[target[p]] = p
    /\ pc[p] \in Writing => writerLock = p

\* Rows of a live schedule: the state row links to one of its own jobs.
StateLinksItsJob ==
  /\ \A s \in Schedules : state[s].status # "absent" =>
       /\ state[s].job \in JobIds
       /\ job[state[s].job].schedule = s
  /\ \A j \in JobIds : job[j].schedule # Nobody => job[j].status # "none"

\* What run_schedule read and did before the place it has reached still holds.
ScheduleStillThere ==
  \A p \in Procs : pc[p] \in Holding \ {"load"} => IsLive(target[p])

NothingUnsettled ==
  \A p \in Procs : pc[p] \in {"decide", "number", "claim"} => state[target[p]].status # "running"

OwnsItsJob(p) ==
  /\ pc[p] \in Executing => mine[p] \in JobIds
  /\ pc[p] \in Executing \ {"mbackup"} =>
       /\ state[target[p]].status # "absent"
       /\ state[target[p]].job = mine[p]
  /\ pc[p] \in {"resolve", "backup", "record"} => state[target[p]].status = "running"
  /\ pc[p] \in {"resolve", "backup", "mbackup"} => job[mine[p]].status = "running"
  /\ pc[p] = "record" => job[mine[p]].status = verdict[p]
  /\ pc[p] \in {"record", "close"} => verdict[p] \in Terminal
  /\ pc[p] = "mbackup" => job[mine[p]].schedule = Nobody

\* The number read is still beyond every number used.
NumberStillFree ==
  \A p \in Procs : pc[p] \in {"claim", "mclaim"} => \A j \in JobIds : job[j].number < number[p]

\* The occurrence a poll decided to run is still later than the checkpoint.
StillDue ==
  \A p \in Pollers : pc[p] \in {"number", "claim"} => Checkpoint(target[p]) < Slot(p)

\* The state row carries the slot of the latest job of its schedule.
CheckpointIsLatest ==
  /\ \A s \in Schedules : state[s].status # "absent" =>
       /\ state[s].slot = job[state[s].job].slot
       /\ \A j \in JobIds : job[j].schedule = s => job[j].number <= job[state[s].job].number
  /\ \A j \in JobIds : job[j].schedule # Nobody =>
       /\ state[job[j].schedule].status # "absent"
       /\ job[j].started_by \in {"admin", "(scheduled)"}

\* Slots grow with job numbers along automatic runs without a Run Now between.
SlotsGrow ==
  \A j, k \in JobIds :
    /\ Automatic(j) /\ Automatic(k)
    /\ job[j].number < job[k].number
    /\ job[j].schedule = job[k].schedule /\ job[j].schedule # Nobody
    => \/ job[j].slot < job[k].slot
       \/ \E m \in JobIds : /\ job[m].schedule = job[j].schedule
                            /\ job[m].started_by = "admin"
                            /\ job[j].number < job[m].number
                            /\ job[m].number < job[k].number

Safe ==
  /\ TypeOK
  /\ LocksHeld
  /\ StateLinksItsJob
  /\ ScheduleStillThere
  /\ NothingUnsettled
  /\ \A p \in Procs : OwnsItsJob(p)
  /\ RunningJobIsRecoverable
  /\ ShownResultIsTheJobs

Ordered ==
  /\ NumberStillFree
  /\ JobNumbersUnique
  /\ StillDue
  /\ CheckpointIsLatest
  /\ SlotsGrow

Inductive == Safe /\ Ordered

-----------------------------------------------------------------------------
(* Refinement *)

JobsAt(places) == {mine[p] : p \in {q \in Procs : pc[q] \in places}}

Ledger == INSTANCE BackupLedger WITH
  Outcomes <- Terminal,
  outcome  <- [j \in JobIds |-> job[j].status],
  working  <- JobsAt({"resolve", "backup", "mbackup"}),
  closing  <- JobsAt({"record", "close"})

\* The jobs follow the abstract ledger: a job is started once, its result is
\* written by its live executor, and recover() settles it only when that
\* executor is gone and left no result.
ImplementsLedger == Ledger!Spec
=============================================================================
