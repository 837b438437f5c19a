------------------------- MODULE NcmSchedule_proofs -------------------------
(***************************************************************************)
(* Safety of NcmSchedule for every set of processes and schedules and for  *)
(* every value of the bounds.                                              *)
(***************************************************************************)
EXTENDS NcmSchedule, TLAPS

-----------------------------------------------------------------------------
(* Types *)

\* The assumption on the constants, in the form the proofs use it.
LEMMA Constants ==
  /\ DayLen \in Int /\ DayLen > 0
  /\ RunTimes \subseteq Int
  /\ Nobody \notin Procs /\ Nobody \notin Schedules /\ Nobody \notin JobIds
  /\ JobIds \subseteq Nat
BY ConstantsAssumption DEF JobIds

\* A due slot is an instant, whatever the time of day.
LEMMA DueSlotType ==
  ASSUME NEW at \in Int, NEW t \in Int
  PROVE  DueSlot(at, t) \in Int
<1>1. t \div DayLen \in Int
  BY ConstantsAssumption
<1>2. Midnight(t) \in Int
  BY <1>1, ConstantsAssumption DEF Midnight
<1> QED
  BY <1>2, ConstantsAssumption DEF DueSlot

\* The slot a process computes for a schedule that exists.
LEMMA SlotType ==
  ASSUME TypeOK, NEW p \in Procs, target[p] \in Schedules
  PROVE  Slot(p) \in Int
<1>1. schedule[target[p]].at \in Int /\ asOf[p] \in Int
  <2>1. RunTimes \cup {BadTime} \subseteq Int
    BY Constants DEF BadTime
  <2>2. schedule[target[p]] \in ScheduleRows
    BY DEF TypeOK
  <2> QED
    BY <2>1, <2>2 DEF TypeOK, ScheduleRows, Instants
<1> QED
  BY <1>1, DueSlotType DEF Slot

\* The values that rows are reset to are of their types.
LEMMA EmptyRows ==
  NoState \in StateRows /\ NoJob \in JobRows
BY DEF NoState, NoJob, StateRows, JobRows, StateStatuses, JobStatuses, Instants, Never

\* The updates of single columns of a row keep the tables' types.
LEMMA JobStatusType ==
  ASSUME NEW f \in [JobIds -> JobRows], NEW j \in JobIds, NEW r \in JobStatuses
  PROVE  [f EXCEPT ![j].status = r] \in [JobIds -> JobRows]
<1>1. [f[j] EXCEPT !.status = r] \in JobRows
  BY DEF JobRows
<1> QED
  BY <1>1

\* A new status keeps the type of the state rows.
LEMMA StateStatusType ==
  ASSUME NEW f \in [Schedules -> StateRows], NEW s \in Schedules, NEW r \in StateStatuses
  PROVE  [f EXCEPT ![s].status = r] \in [Schedules -> StateRows]
<1>1. [f[s] EXCEPT !.status = r] \in StateRows
  BY DEF StateRows
<1> QED
  BY <1>1

\* A job that loses its schedule is still a job row.
LEMMA JobScheduleType ==
  ASSUME NEW row \in JobRows PROVE [row EXCEPT !.schedule = Nobody] \in JobRows
  BY DEF JobRows

\* A new last run keeps the type of the schedules.
LEMMA LastRunType ==
  ASSUME NEW f \in [Schedules -> ScheduleRows], NEW s \in Schedules, NEW t \in Int
  PROVE  [f EXCEPT ![s].lastRun = t] \in [Schedules -> ScheduleRows]
<1>1. [f[s] EXCEPT !.lastRun = t] \in ScheduleRows
  BY DEF ScheduleRows, Instants
<1> QED
  BY <1>1

\* A deletion keeps the type of the schedules.
LEMMA PhaseType ==
  ASSUME NEW f \in [Schedules -> ScheduleRows], NEW s \in Schedules
  PROVE  [f EXCEPT ![s].phase = "gone"] \in [Schedules -> ScheduleRows]
<1>1. [f[s] EXCEPT !.phase = "gone"] \in ScheduleRows
  BY DEF ScheduleRows
<1> QED
  BY <1>1

\* An edit of time and switch keeps the type of the schedules.
LEMMA EditType ==
  ASSUME NEW f \in [Schedules -> ScheduleRows], NEW s \in Schedules,
         NEW at \in RunTimes, NEW enabled \in BOOLEAN
  PROVE  [f EXCEPT ![s].at = at, ![s].enabled = enabled] \in [Schedules -> ScheduleRows]
<1>1. [[f[s] EXCEPT !.at = at] EXCEPT !.enabled = enabled] \in ScheduleRows
  BY DEF ScheduleRows
<1> QED
  BY <1>1

\* The initial tables, legacy rows included, have their types.
LEMMA InitType == Init => TypeOK
<1> SUFFICES ASSUME Init PROVE TypeOK
  OBVIOUS
<1>1. FutureRow \in ScheduleRows
  BY DEF FutureRow, ScheduleRows, Instants, Never, BadTime
<1>2. LegacyRows \subseteq ScheduleRows
  <2> SUFFICES ASSUME NEW r \in LegacyRows PROVE r \in ScheduleRows
    OBVIOUS
  <2>1. -1 \in Int /\ 0 \in Int /\ DayLen \in Int
    BY Constants
  <2> QED
    BY <2>1 DEF LegacyRows, ScheduleRows, Instants, Never
<1> QED
  BY <1>1, <1>2, EmptyRows, ConstantsAssumption DEF Init, TypeOK, Places, Instants

\* What Leave leaves behind.
LEMMA LeaveType ==
  ASSUME TypeOK, NEW p \in Procs, Leave(p)
  PROVE  /\ scheduleLock' \in [Schedules -> Procs \cup {Nobody}]
         /\ writerLock' \in Procs \cup {Nobody}
         /\ pc' \in [Procs -> Places]
         /\ target' \in [Procs -> Schedules \cup {Nobody}]
         /\ number' \in [Procs -> Nat]
         /\ mine' \in [Procs -> JobIds \cup {Nobody}]
         /\ verdict' \in [Procs -> {"none"} \cup Terminal]
BY DEF TypeOK, Leave, ReleaseAll, Goto, Forget, Places

\* Every step keeps the types.
LEMMA TypeStep == Safe /\ [Next]_vars => TypeOK'
<1> SUFFICES ASSUME Safe, [Next]_vars PROVE TypeOK'
  OBVIOUS
<1> USE DEF rows, locks, run, poll, bounds
<1>type. TypeOK /\ LocksHeld
  BY DEF Safe
<1>goto. ASSUME NEW p \in Procs, NEW place \in Places, Goto(p, place)
         PROVE  pc' \in [Procs -> Places]
  BY <1>type, <1>goto DEF TypeOK, Goto
<1>places. Holding \subseteq Places /\ Writing \subseteq Places /\ {"idle", "poll"} \subseteq Places
  BY DEF Places
<1>1. CASE Tick
  BY <1>1, <1>type DEF TypeOK, Tick, Instants
<1>2. ASSUME NEW p \in Procs, PollBegin(p) PROVE TypeOK'
  BY <1>2, <1>type, <1>places, <1>goto DEF TypeOK, PollBegin, Goto
<1>3. ASSUME NEW p \in Procs, NEW s \in Schedules, PollSchedule(p, s) PROVE TypeOK'
  BY <1>3, <1>type DEF TypeOK, PollSchedule, TakeSchedule, Goto, Places, Holding
<1>4. ASSUME NEW p \in Procs, NEW s \in Schedules, PollBusy(p, s) PROVE TypeOK'
  BY <1>4, <1>type DEF TypeOK, PollBusy
<1>5. ASSUME NEW p \in Procs, PollEnd(p) PROVE TypeOK'
  BY <1>5, <1>type DEF TypeOK, PollEnd, Goto, Places, Instants
<1>6. ASSUME NEW p \in Procs, NEW s \in Schedules, RunNow(p, s) PROVE TypeOK'
  BY <1>6, <1>type DEF TypeOK, RunNow, TakeSchedule, Goto, Places, Holding
<1>7. ASSUME NEW p \in Procs, NotFound(p) \/ Decline(p) \/ Defer(p) PROVE TypeOK'
  BY <1>7, <1>type, LeaveType DEF TypeOK, NotFound, Decline, Defer
<1>8. ASSUME NEW p \in Procs, Recover(p) PROVE TypeOK'
  <2>1. target[p] \in Schedules
    BY <1>8, <1>type DEF LocksHeld, Recover, Holding
  <2>2. state[target[p]].status # "absent" => state[target[p]].job \in JobIds
    BY <2>1 DEF Safe, StateLinksItsJob
  <2>3. \A r \in Terminal : r \in StateStatuses /\ r \in JobStatuses
    BY DEF StateStatuses, JobStatuses
  <2>4. "failed" \in Terminal
    BY DEF Terminal, Results
  <2>5. state' \in [Schedules -> StateRows] /\ job' \in [JobIds -> JobRows]
    <3>1. CASE state[target[p]].status = "running"
      <4>1. PICK r \in Terminal :
              /\ state' = [state EXCEPT ![target[p]].status = r]
              /\ job' = [job EXCEPT ![state[target[p]].job].status = r]
        BY <1>8, <2>4, <3>1 DEF Recover
      <4> QED
        BY <4>1, <3>1, <2>1, <2>2, <2>3, <1>type, JobStatusType, StateStatusType DEF TypeOK
    <3>2. CASE state[target[p]].status # "running"
      BY <1>8, <3>2, <1>type DEF TypeOK, Recover
    <3> QED
      BY <3>1, <3>2
  <2> QED
    BY <1>8, <1>type, <2>5, <1>goto, <1>places DEF TypeOK, Recover, Holding
<1>9. ASSUME NEW p \in Procs, OwnWriter(p) PROVE TypeOK'
  BY <1>9, <1>type DEF TypeOK, OwnWriter, TakeWriter, Goto, Places, Writing
<1>10. ASSUME NEW p \in Procs, ReadNumber(p) PROVE TypeOK'
  <2>1. 1..(MaxJobs + 1) \subseteq Nat
    BY ConstantsAssumption
  <2> QED
    BY <1>10, <1>type, <2>1 DEF TypeOK, ReadNumber, Goto, Places, Writing
<1>11. ASSUME NEW p \in Procs, Claim(p) PROVE TypeOK'
  <2>1. target[p] \in Schedules
    BY <1>11, <1>type DEF LocksHeld, Claim, Holding
  <2>2. Slot(p) \in Instants
    BY <2>1, <1>type, SlotType DEF Instants
  <2>3. "running" \in StateStatuses /\ "running" \in JobStatuses
    BY DEF StateStatuses, JobStatuses
  <2>4. schedule' \in [Schedules -> ScheduleRows]
    BY <1>11, <1>type, <2>1, LastRunType DEF TypeOK, Claim, Instants
  <2>5. state' \in [Schedules -> StateRows]
    BY <1>11, <1>type, <2>1, <2>2, <2>3 DEF TypeOK, Claim, StateRows
  <2>6. job' \in [JobIds -> JobRows]
    BY <1>11, <1>type, <2>1, <2>2, <2>3 DEF TypeOK, Claim, JobRows
  <2>7. mine' \in [Procs -> JobIds \cup {Nobody}]
    BY <1>11, <1>type DEF TypeOK, Claim
  <2> QED
    BY <1>11, <1>type, <2>4, <2>5, <2>6, <2>7, <1>goto, <1>places DEF TypeOK, Claim, Holding
<1>12. ASSUME NEW p \in Procs, Refuse(p) \/ Proceed(p) \/ Fail(p) PROVE TypeOK'
  BY <1>12, <1>type DEF TypeOK, Refuse, Proceed, Fail, Goto, Places, Holding, Terminal, Results
<1>13. ASSUME NEW p \in Procs, FinishJob(p) PROVE TypeOK'
  <2>1. mine[p] \in JobIds
    BY <1>13 DEF Safe, OwnsItsJob, FinishJob, Executing
  <2>2. \A r \in Results : r \in JobStatuses /\ r \in Terminal
    BY DEF JobStatuses, Terminal
  <2>3. job' \in [JobIds -> JobRows]
    BY <1>13, <1>type, <2>1, <2>2, JobStatusType DEF TypeOK, FinishJob
  <2>4. verdict' \in [Procs -> {"none"} \cup Terminal]
    BY <1>13, <1>type, <2>2 DEF TypeOK, FinishJob
  <2> QED
    BY <1>13, <1>type, <2>3, <2>4, <1>goto, <1>places DEF TypeOK, FinishJob, Holding
<1>14. ASSUME NEW p \in Procs, RecordState(p) PROVE TypeOK'
  <2>1. target[p] \in Schedules /\ verdict[p] \in StateStatuses
    BY <1>14, <1>type
    DEF Safe, LocksHeld, OwnsItsJob, RecordState, Holding, StateStatuses
  <2>2. state' \in [Schedules -> StateRows]
    BY <1>14, <1>type, <2>1 DEF TypeOK, RecordState, StateRows
  <2> QED
    BY <1>14, <1>type, <2>2, <1>goto, <1>places DEF TypeOK, RecordState, Holding
<1>15. ASSUME NEW p \in Procs, Close(p) PROVE TypeOK'
  <2>1. target[p] \in Schedules /\ mine[p] \in JobIds
    BY <1>15, <1>type DEF Safe, LocksHeld, OwnsItsJob, Close, Holding, Executing
  <2>2. verdict[p] \in StateStatuses /\ verdict[p] \in JobStatuses
    BY <1>15 DEF Safe, OwnsItsJob, Close, StateStatuses, JobStatuses
  <2>3. state' \in [Schedules -> StateRows]
    BY <1>15, <1>type, <2>1, <2>2 DEF TypeOK, Close, StateRows
  <2>4. job' \in [JobIds -> JobRows]
    BY <1>15, <1>type, <2>1, <2>2, JobStatusType DEF TypeOK, Close
  <2> QED
    BY <1>15, <1>type, <2>3, <2>4, LeaveType DEF TypeOK, Close
<1>16. ASSUME NEW p \in Procs, ManualBackup(p) PROVE TypeOK'
  BY <1>16, <1>type DEF TypeOK, ManualBackup, TakeWriter, Goto, Places, Writing
<1>17. ASSUME NEW p \in Procs, ManualClaim(p) PROVE TypeOK'
  <2>1. "running" \in JobStatuses /\ Never \in Instants
    BY DEF JobStatuses, Never, Instants
  <2>2. job' \in [JobIds -> JobRows]
    BY <1>17, <1>type, <2>1 DEF TypeOK, ManualClaim, JobRows
  <2> QED
    BY <1>17, <1>type, <2>2, <1>goto, <1>places DEF TypeOK, ManualClaim, Writing
<1>18. ASSUME NEW p \in Procs, ManualFinish(p) PROVE TypeOK'
  <2>1. mine[p] \in JobIds
    BY <1>18 DEF Safe, OwnsItsJob, ManualFinish, Executing
  <2>2. Results \subseteq JobStatuses
    BY DEF JobStatuses, Terminal
  <2>3. job' \in [JobIds -> JobRows]
    BY <1>18, <1>type, <2>1, <2>2, JobStatusType DEF TypeOK, ManualFinish
  <2> QED
    BY <1>18, <1>type, <2>3, LeaveType DEF TypeOK, ManualFinish
<1>19. ASSUME NEW p \in Procs, NEW s \in Schedules,
              CreateSchedule(p, s) \/ UpdateSchedule(p, s)
       PROVE  TypeOK'
  <2>1. schedule' \in [Schedules -> ScheduleRows]
    <3>1. CASE CreateSchedule(p, s)
      <4>1. \A at \in RunTimes, enabled \in BOOLEAN :
              [phase |-> "live", enabled |-> enabled, at |-> at, created |-> now,
               lastRun |-> Never] \in ScheduleRows
        BY <1>type DEF TypeOK, ScheduleRows, Instants, Never
      <4>2. PICK row \in ScheduleRows : schedule' = [schedule EXCEPT ![s] = row]
        BY <3>1, <4>1 DEF CreateSchedule
      <4> QED
        BY <4>2, <1>type DEF TypeOK
    <3>2. CASE UpdateSchedule(p, s)
      <4>1. PICK at \in RunTimes, enabled \in BOOLEAN :
              schedule' = [schedule EXCEPT ![s].at = at, ![s].enabled = enabled]
        BY <3>2 DEF UpdateSchedule
      <4> QED
        BY <4>1, <1>type, EditType DEF TypeOK
    <3> QED
      BY <1>19, <3>1, <3>2
  <2> QED
    BY <1>19, <1>type, <2>1 DEF TypeOK, CreateSchedule, UpdateSchedule
<1>20. ASSUME NEW p \in Procs, NEW s \in Schedules, DeleteSchedule(p, s) PROVE TypeOK'
  <2>1. schedule' \in [Schedules -> ScheduleRows]
    BY <1>20, <1>type, PhaseType DEF TypeOK, DeleteSchedule
  <2>2. job' \in [JobIds -> JobRows]
    BY <1>20, <1>type, JobScheduleType DEF TypeOK, DeleteSchedule
  <2> QED
    BY <1>20, <1>type, <2>1, <2>2, EmptyRows DEF TypeOK, DeleteSchedule
<1>21. ASSUME NEW p \in Procs, Die(p) PROVE TypeOK'
  BY <1>21, <1>type DEF TypeOK, Die, ReleaseAll, Goto, Forget, Places, Instants
<1>22. CASE UNCHANGED vars
  BY <1>22, <1>type DEF TypeOK, vars
<1> QED
  BY <1>1, <1>2, <1>3, <1>4, <1>5, <1>6, <1>7, <1>8, <1>9, <1>10, <1>11, <1>12, <1>13,
     <1>14, <1>15, <1>16, <1>17, <1>18, <1>19, <1>20, <1>21, <1>22
  DEF Next, Work, Ask

-----------------------------------------------------------------------------
(* Locks *)

\* Every step leaves a process in a place whose locks it owns.
LEMMA LocksStep == Safe /\ [Next]_vars => LocksHeld'
<1> SUFFICES ASSUME Safe, [Next]_vars PROVE LocksHeld'
  OBVIOUS
<1> USE DEF rows, locks, run, poll, bounds, LocksHeld
<1>type. TypeOK /\ LocksHeld
  BY DEF Safe
<1>leave. ASSUME NEW p \in Procs, ReleaseAll(p), Forget(p),
                 NEW place \in {"poll", "idle"}, Goto(p, place)
          PROVE  LocksHeld'
  BY <1>leave, <1>type, Constants DEF TypeOK, ReleaseAll, Goto, Forget, Holding, Writing
<1>stay. ASSUME NEW p \in Procs, NEW place, Goto(p, place), UNCHANGED <<target, locks>>,
                place \in Holding => pc[p] \in Holding,
                place \in Writing => pc[p] \in Writing
         PROVE  LocksHeld'
  BY <1>stay, <1>type DEF TypeOK, Goto
<1>1. CASE Tick
  BY <1>1, <1>type DEF Tick
<1>2. ASSUME NEW p \in Procs, PollBegin(p) \/ PollEnd(p) PROVE LocksHeld'
  BY <1>2, <1>stay DEF PollBegin, PollEnd, Holding, Writing
<1>3. ASSUME NEW p \in Procs, NEW s \in Schedules, PollSchedule(p, s) \/ RunNow(p, s)
      PROVE  LocksHeld'
  BY <1>3, <1>type, Constants
  DEF TypeOK, PollSchedule, RunNow, TakeSchedule, Goto, Holding, Writing
<1>4. ASSUME NEW p \in Procs, NEW s \in Schedules, PollBusy(p, s) PROVE LocksHeld'
  BY <1>4, <1>type DEF PollBusy
<1>5. ASSUME NEW p \in Procs,
             NotFound(p) \/ Decline(p) \/ Defer(p) \/ Close(p) \/ ManualFinish(p)
      PROVE  LocksHeld'
  BY <1>5, <1>leave DEF NotFound, Decline, Defer, Close, ManualFinish, Leave
<1>6. ASSUME NEW p \in Procs, Recover(p) PROVE LocksHeld'
  BY <1>6, <1>stay DEF Recover, Holding, Writing
<1>7. ASSUME NEW p \in Procs, OwnWriter(p) \/ ManualBackup(p) PROVE LocksHeld'
  BY <1>7, <1>type, Constants
  DEF TypeOK, OwnWriter, ManualBackup, TakeWriter, Goto, Holding, Writing
<1>8. ASSUME NEW p \in Procs, ReadNumber(p) \/ ManualClaim(p) PROVE LocksHeld'
  BY <1>8, <1>stay DEF ReadNumber, ManualClaim, Holding, Writing
<1>9. ASSUME NEW p \in Procs,
             Claim(p) \/ Refuse(p) \/ Proceed(p) \/ FinishJob(p) \/ RecordState(p) \/ Fail(p)
      PROVE  LocksHeld'
  BY <1>9, <1>stay DEF Claim, Refuse, Proceed, FinishJob, RecordState, Fail, Holding, Writing
<1>10. ASSUME NEW p \in Procs, NEW s \in Schedules,
              CreateSchedule(p, s) \/ UpdateSchedule(p, s) \/ DeleteSchedule(p, s)
       PROVE  LocksHeld'
  BY <1>10, <1>type DEF CreateSchedule, UpdateSchedule, DeleteSchedule
<1>11. ASSUME NEW p \in Procs, Die(p) PROVE LocksHeld'
  BY <1>11, <1>leave DEF Die
<1>12. CASE UNCHANGED vars
  BY <1>12, <1>type DEF vars
<1> QED
  BY <1>1, <1>2, <1>3, <1>4, <1>5, <1>6, <1>7, <1>8, <1>9, <1>10, <1>11, <1>12
  DEF Next, Work, Ask

-----------------------------------------------------------------------------
(* Rows *)

\* The actions that write the state and job rows.
LEMMA RowWriters ==
  ASSUME [Next]_vars
  PROVE  \/ UNCHANGED <<state, job>>
         \/ \E p \in Procs :
              \/ Recover(p) \/ Claim(p) \/ FinishJob(p) \/ RecordState(p) \/ Close(p)
              \/ ManualClaim(p) \/ ManualFinish(p)
              \/ \E s \in Schedules : DeleteSchedule(p, s)
BY DEF Next, Work, Ask, vars, rows, Tick, PollBegin, PollSchedule, PollBusy, PollEnd,
       RunNow, NotFound, Decline, Defer, OwnWriter, ReadNumber, Refuse, Proceed, Fail,
       ManualBackup, CreateSchedule, UpdateSchedule, Die

\* No two processes work on one schedule, or between number and close.
LEMMA Exclusive ==
  ASSUME Safe, NEW p \in Procs, NEW q \in Procs, p # q
  PROVE  /\ pc[p] \in Holding /\ pc[q] \in Holding => target[p] # target[q]
         /\ ~(pc[p] \in Writing /\ pc[q] \in Writing)
BY DEF Safe, LocksHeld

\* A step that leaves a job as it is, up to its status.
KeepsJob(j) ==
  /\ job'[j].schedule = job[j].schedule
  /\ job'[j].number = job[j].number
  /\ job'[j].slot = job[j].slot
  /\ job'[j].started_by = job[j].started_by

\* A step that only sets the status of one state row, and of one job.
SetsState(s, r) ==
  \A t \in Schedules :
    /\ state'[t].status = IF t = s THEN r ELSE state[t].status
    /\ state'[t].job = state[t].job
    /\ state'[t].slot = state[t].slot

SetsJob(j, r) ==
  \A k \in JobIds :
    /\ job'[k].status = IF k = j THEN r ELSE job[k].status
    /\ KeepsJob(k)

\* The two updates of a status, pointwise.
LEMMA SetsStateIntro ==
  ASSUME TypeOK, NEW s \in Schedules, NEW r, state' = [state EXCEPT ![s].status = r]
  PROVE  SetsState(s, r)
BY DEF TypeOK, StateRows, SetsState

\* The same for a job.
LEMMA SetsJobIntro ==
  ASSUME TypeOK, NEW j \in JobIds, NEW r, job' = [job EXCEPT ![j].status = r]
  PROVE  SetsJob(j, r)
BY DEF TypeOK, JobRows, SetsJob, KeepsJob

\* The result r that recovery puts into the rows of a job j left behind.
Settles(p, j, r) ==
  /\ state[target[p]].status = "running"
  /\ state[target[p]].job = j
  /\ job[j].schedule = target[p]
  /\ job[j].status \in Terminal => job[j].status = r
  /\ job[j].status \notin Terminal => r = "failed"
  /\ SetsState(target[p], r)
  /\ SetsJob(j, r)

\* What Recover writes: nothing, or one result into both rows.
LEMMA RecoverWrites ==
  ASSUME Safe, NEW p \in Procs, Recover(p)
  PROVE  /\ target[p] \in Schedules
         /\ \/ /\ state[target[p]].status # "running"
               /\ UNCHANGED <<state, job>>
            \/ /\ state[target[p]].status = "running"
               /\ \E r \in Terminal, j \in JobIds : Settles(p, j, r)
<1>1. target[p] \in Schedules
  BY DEF Safe, LocksHeld, Recover, Holding
<1>2. "failed" \in Terminal
  BY DEF Terminal, Results
<1>3. CASE state[target[p]].status = "running"
  <2> DEFINE j == state[target[p]].job
             r == IF job[j].status \in Terminal THEN job[j].status ELSE "failed"
  <2>1. j \in JobIds /\ job[j].schedule = target[p] /\ r \in Terminal
    BY <1>1, <1>2, <1>3 DEF Safe, StateLinksItsJob
  <2>2. /\ state' = [state EXCEPT ![target[p]].status = r]
        /\ job' = [job EXCEPT ![j].status = r]
    BY <1>3 DEF Recover
  <2>3. SetsState(target[p], r) /\ SetsJob(j, r)
    BY <2>1, <2>2, <1>1, SetsStateIntro, SetsJobIntro DEF Safe
  <2> QED
    <3>1. Settles(p, j, r)
      BY <1>3, <2>1, <2>3 DEF Settles
    <3> QED
      BY <3>1, <2>1, <1>1, <1>3
<1> QED
  BY <1>1, <1>3 DEF Recover

\* What Claim and ManualClaim write: a new job, that no state row linked to.
AddsJob(j, p, source, startedBy, s, slot) ==
  /\ job[j].status = "none"
  /\ job[j].schedule = Nobody
  /\ job'[j].status = "running"
  /\ job'[j].number = number[p]
  /\ job'[j].source = source
  /\ job'[j].started_by = startedBy
  /\ job'[j].schedule = s
  /\ job'[j].slot = slot
  /\ \A k \in JobIds : k # j => job'[k] = job[k]
  /\ mine' = [mine EXCEPT ![p] = j]

Starter(p) == IF p \in Pollers THEN "(scheduled)" ELSE "admin"

\* What Claim writes: a new running job, and its schedule's state row.
LEMMA ClaimWrites ==
  ASSUME Safe, NEW p \in Procs, Claim(p)
  PROVE  /\ target[p] \in Schedules
         /\ state[target[p]].status # "running"
         /\ \A t \in Schedules : t # target[p] => state'[t] = state[t]
         /\ state'[target[p]].status = "running"
         /\ state'[target[p]].slot = Slot(p)
         /\ \E j \in JobIds :
              /\ AddsJob(j, p, "scheduled", Starter(p), target[p], Slot(p))
              /\ state'[target[p]].job = j
<1>1. target[p] \in Schedules /\ state[target[p]].status # "running"
  BY DEF Safe, LocksHeld, NothingUnsettled, Claim, Holding
<1>2. PICK j \in JobIds :
       /\ IsFreshJob(j)
       /\ job' = [job EXCEPT ![j] =
            [status |-> "running", number |-> number[p], source |-> "scheduled",
             started_by |-> Starter(p), schedule |-> target[p], slot |-> Slot(p)]]
       /\ state' = [state EXCEPT ![target[p]] =
            [status |-> "running", slot |-> Slot(p), job |-> j]]
       /\ mine' = [mine EXCEPT ![p] = j]
  BY DEF Claim, Starter
<1>3. job[j].status = "none" /\ job[j].schedule = Nobody
  BY <1>2 DEF Safe, StateLinksItsJob, IsFreshJob
<1>4. AddsJob(j, p, "scheduled", Starter(p), target[p], Slot(p))
  BY <1>2, <1>3 DEF Safe, TypeOK, AddsJob
<1>5. /\ \A t \in Schedules : t # target[p] => state'[t] = state[t]
      /\ state'[target[p]].status = "running"
      /\ state'[target[p]].slot = Slot(p)
      /\ state'[target[p]].job = j
  BY <1>1, <1>2 DEF Safe, TypeOK
<1> QED
  BY <1>1, <1>4, <1>5

\* What ManualClaim writes: a new running job of no schedule.
LEMMA ManualClaimWrites ==
  ASSUME Safe, NEW p \in Procs, ManualClaim(p)
  PROVE  /\ UNCHANGED state
         /\ \E j \in JobIds : AddsJob(j, p, "manual", "admin", Nobody, Never)
<1>1. PICK j \in JobIds :
        /\ IsFreshJob(j)
        /\ job' = [job EXCEPT ![j] =
             [status |-> "running", number |-> number[p], source |-> "manual",
              started_by |-> "admin", schedule |-> Nobody, slot |-> Never]]
        /\ mine' = [mine EXCEPT ![p] = j]
  BY DEF ManualClaim
<1>2. job[j].status = "none" /\ job[j].schedule = Nobody
  BY <1>1 DEF Safe, StateLinksItsJob, IsFreshJob
<1>3. AddsJob(j, p, "manual", "admin", Nobody, Never)
  BY <1>1, <1>2 DEF Safe, TypeOK, AddsJob
<1> QED
  BY <1>3 DEF ManualClaim

\* What DeleteSchedule writes.
LEMMA DeleteWrites ==
  ASSUME TypeOK, NEW p \in Procs, NEW s \in Schedules, DeleteSchedule(p, s)
  PROVE  /\ state'[s].status = "absent"
         /\ \A t \in Schedules : t # s => state'[t] = state[t]
         /\ \A j \in JobIds :
              /\ job'[j].schedule = IF job[j].schedule = s THEN Nobody ELSE job[j].schedule
              /\ job'[j].status = job[j].status
              /\ job'[j].number = job[j].number
              /\ job'[j].slot = job[j].slot
              /\ job'[j].started_by = job[j].started_by
BY DEF TypeOK, JobRows, DeleteSchedule, NoState

\* A process that executes a job: what it knows about its rows.
LEMMA Executor ==
  ASSUME Safe, NEW p \in Procs
  PROVE  /\ pc[p] \in Executing => mine[p] \in JobIds
         /\ pc[p] \in {"resolve", "backup", "record", "close"} =>
              /\ target[p] \in Schedules
              /\ state[target[p]].status # "absent"
              /\ state[target[p]].job = mine[p]
              /\ job[mine[p]].schedule = target[p]
         /\ pc[p] \in {"record", "close"} => verdict[p] \in Terminal
         /\ pc[p] = "mbackup" => job[mine[p]].schedule = Nobody
BY DEF Safe, LocksHeld, OwnsItsJob, StateLinksItsJob, Executing, Holding

\* Every step keeps the link from a state row to a job of its schedule.
LEMMA LinksStep == Safe /\ [Next]_vars => StateLinksItsJob'
<1> SUFFICES ASSUME Safe, [Next]_vars PROVE StateLinksItsJob'
  OBVIOUS
<1> USE DEF StateLinksItsJob
<1>type. TypeOK /\ StateLinksItsJob
  BY DEF Safe
<1>some. "none" \notin Terminal /\ "absent" \notin Terminal /\ Results \subseteq Terminal
  BY DEF Terminal, Results
<1>1. CASE UNCHANGED <<state, job>>
  BY <1>1, <1>type
<1>2. ASSUME NEW p \in Procs, Recover(p) PROVE StateLinksItsJob'
  <2>1. CASE state[target[p]].status # "running"
    BY <1>2, <2>1, <1>1, RecoverWrites
  <2>2. CASE state[target[p]].status = "running"
    <3>1. PICK r \in Terminal, j \in JobIds : Settles(p, j, r)
      BY <1>2, <2>2, RecoverWrites
    <3>2. target[p] \in Schedules
      BY <1>2, RecoverWrites
    <3> QED
      BY <3>1, <3>2, <1>type, <1>some DEF Settles, SetsState, SetsJob, KeepsJob
  <2> QED
    BY <2>1, <2>2
<1>3. ASSUME NEW p \in Procs, Claim(p) PROVE StateLinksItsJob'
  <2>1. /\ target[p] \in Schedules
        /\ state[target[p]].status # "running"
        /\ \A t \in Schedules : t # target[p] => state'[t] = state[t]
        /\ state'[target[p]].status = "running"
    BY <1>3, ClaimWrites
  <2>2. PICK j \in JobIds : /\ AddsJob(j, p, "scheduled", Starter(p), target[p], Slot(p))
                            /\ state'[target[p]].job = j
    BY <1>3, ClaimWrites
  <2>3. ASSUME NEW t \in Schedules, state'[t].status # "absent"
        PROVE  state'[t].job \in JobIds /\ job'[state'[t].job].schedule = t
    <3>1. CASE t = target[p]
      <4>1. state'[t].job = j
        BY <3>1, <2>2
      <4>2. job'[j].schedule = t
        BY <3>1, <2>2 DEF AddsJob
      <4> QED
        BY <4>1, <4>2
    <3>2. CASE t # target[p]
      <4>1. state'[t] = state[t]
        BY <3>2, <2>1
      <4>2. state[t].job \in JobIds /\ job[state[t].job].schedule = t
        BY <4>1, <2>3, <1>type
      <4>3. state[t].job # j
        BY <2>2, <4>2, Constants DEF AddsJob
      <4> QED
        BY <4>1, <4>2, <4>3, <2>2 DEF AddsJob
    <3> QED
      BY <3>1, <3>2
  <2>4. ASSUME NEW k \in JobIds, job'[k].schedule # Nobody
        PROVE  job'[k].status # "none"
    BY <2>2, <2>4, <1>type DEF AddsJob
  <2> QED
    BY <2>3, <2>4
<1>4. ASSUME NEW p \in Procs, FinishJob(p) \/ ManualFinish(p) PROVE StateLinksItsJob'
  <2>1. mine[p] \in JobIds /\ UNCHANGED state
    BY <1>4, Executor DEF FinishJob, ManualFinish, Executing
  <2>2. PICK r \in Results : job' = [job EXCEPT ![mine[p]].status = r]
    BY <1>4 DEF FinishJob, ManualFinish
  <2> QED
    BY <2>1, <2>2, <1>type, <1>some DEF TypeOK
<1>5. ASSUME NEW p \in Procs, RecordState(p) PROVE StateLinksItsJob'
  BY <1>5, <1>type, <1>some, Executor DEF TypeOK, RecordState
<1>6. ASSUME NEW p \in Procs, Close(p) PROVE StateLinksItsJob'
  <2>1. pc[p] = "close" /\ pc[p] \in Executing
    BY <1>6 DEF Close, Executing
  <2> QED
    BY <1>6, <2>1, <1>type, <1>some, Executor DEF TypeOK, Close
<1>7. ASSUME NEW p \in Procs, ManualClaim(p) PROVE StateLinksItsJob'
  <2>1. PICK j \in JobIds : AddsJob(j, p, "manual", "admin", Nobody, Never)
    BY <1>7, ManualClaimWrites
  <2>2. UNCHANGED state
    BY <1>7, ManualClaimWrites
  <2> QED
    BY <2>1, <2>2, <1>type, Constants DEF AddsJob
<1>8. ASSUME NEW p \in Procs, NEW s \in Schedules, DeleteSchedule(p, s)
      PROVE  StateLinksItsJob'
  <2>1. ASSUME NEW t \in Schedules, state'[t].status # "absent"
        PROVE  state'[t].job \in JobIds /\ job'[state'[t].job].schedule = t
    BY <1>8, <2>1, <1>type, DeleteWrites
  <2>2. ASSUME NEW k \in JobIds, job'[k].schedule # Nobody
        PROVE  job'[k].status # "none"
    BY <1>8, <2>2, <1>type, DeleteWrites
  <2> QED
    BY <2>1, <2>2
<1> QED
  BY <1>1, <1>2, <1>3, <1>4, <1>5, <1>6, <1>7, <1>8, RowWriters

\* Every step keeps the running job of a schedule where recover() looks.
LEMMA RecoverableStep == Safe /\ [Next]_vars => RunningJobIsRecoverable'
<1> SUFFICES ASSUME Safe, [Next]_vars PROVE RunningJobIsRecoverable'
  OBVIOUS
<1> USE DEF RunningJobIsRecoverable
<1>type. TypeOK /\ RunningJobIsRecoverable
  BY DEF Safe
<1>at. \A j \in JobIds : job[j].schedule \in Schedules \cup {Nobody}
  BY <1>type DEF TypeOK, JobRows
<1>some. "running" \notin Terminal /\ Results \subseteq Terminal
  BY DEF Terminal, Results
<1>1. CASE UNCHANGED <<state, job>>
  BY <1>1, <1>type
<1>2. ASSUME NEW p \in Procs, Recover(p) PROVE RunningJobIsRecoverable'
  <2>1. CASE state[target[p]].status # "running"
    BY <1>2, <2>1, <1>1, RecoverWrites
  <2>2. CASE state[target[p]].status = "running"
    <3>1. PICK r \in Terminal, j \in JobIds : Settles(p, j, r)
      BY <1>2, <2>2, RecoverWrites
    <3>2. target[p] \in Schedules
      BY <1>2, RecoverWrites
    <3> QED
      <4>1. ASSUME NEW k \in JobIds, job'[k].status = "running", job'[k].schedule # Nobody
            PROVE  /\ state'[job'[k].schedule].status = "running"
                   /\ state'[job'[k].schedule].job = k
        BY <4>1, <3>1, <3>2, <1>type, <1>at, <1>some
        DEF Settles, SetsState, SetsJob, KeepsJob
      <4> QED
        BY <4>1
  <2> QED
    BY <2>1, <2>2
<1>3. ASSUME NEW p \in Procs, Claim(p) PROVE RunningJobIsRecoverable'
  <2>1. /\ target[p] \in Schedules
        /\ state[target[p]].status # "running"
        /\ \A t \in Schedules : t # target[p] => state'[t] = state[t]
        /\ state'[target[p]].status = "running"
    BY <1>3, ClaimWrites
  <2>2. PICK j \in JobIds : /\ AddsJob(j, p, "scheduled", Starter(p), target[p], Slot(p))
                            /\ state'[target[p]].job = j
    BY <1>3, ClaimWrites
  <2>3. ASSUME NEW k \in JobIds, job'[k].status = "running", job'[k].schedule # Nobody
        PROVE  /\ state'[job'[k].schedule].status = "running"
               /\ state'[job'[k].schedule].job = k
    BY <2>1, <2>2, <2>3, <1>type, <1>at DEF AddsJob
  <2> QED
    BY <2>3
<1>4. ASSUME NEW p \in Procs, FinishJob(p) \/ ManualFinish(p)
      PROVE  RunningJobIsRecoverable'
  <2>1. mine[p] \in JobIds /\ UNCHANGED state
    BY <1>4, Executor DEF FinishJob, ManualFinish, Executing
  <2>2. PICK r \in Results : job' = [job EXCEPT ![mine[p]].status = r]
    BY <1>4 DEF FinishJob, ManualFinish
  <2> QED
    BY <2>1, <2>2, <1>type, <1>some DEF TypeOK
<1>5. ASSUME NEW p \in Procs, RecordState(p) PROVE RunningJobIsRecoverable'
  <2>1. job[mine[p]].status \in Terminal
    BY <1>5 DEF Safe, OwnsItsJob, RecordState
  <2> QED
    BY <1>5, <2>1, <1>type, <1>some, Executor DEF TypeOK, RecordState
<1>6. ASSUME NEW p \in Procs, Close(p) PROVE RunningJobIsRecoverable'
  <2>1. pc[p] = "close" /\ pc[p] \in Executing
    BY <1>6 DEF Close, Executing
  <2> QED
    BY <1>6, <2>1, <1>type, <1>some, Executor DEF TypeOK, Close
<1>7. ASSUME NEW p \in Procs, ManualClaim(p) PROVE RunningJobIsRecoverable'
  <2>1. PICK j \in JobIds : AddsJob(j, p, "manual", "admin", Nobody, Never)
    BY <1>7, ManualClaimWrites
  <2>2. UNCHANGED state
    BY <1>7, ManualClaimWrites
  <2> QED
    BY <2>1, <2>2, <1>type, Constants DEF AddsJob
<1>8. ASSUME NEW p \in Procs, NEW s \in Schedules, DeleteSchedule(p, s)
      PROVE  RunningJobIsRecoverable'
  BY <1>8, <1>type, <1>at, DeleteWrites
<1> QED
  BY <1>1, <1>2, <1>3, <1>4, <1>5, <1>6, <1>7, <1>8, RowWriters

\* Every step keeps the result shown equal to the job's.
LEMMA ShownStep == Safe /\ [Next]_vars => ShownResultIsTheJobs'
<1> SUFFICES ASSUME Safe, [Next]_vars PROVE ShownResultIsTheJobs'
  OBVIOUS
<1> USE DEF ShownResultIsTheJobs
<1>type. TypeOK /\ ShownResultIsTheJobs
  BY DEF Safe
<1>links. \A s \in Schedules : state[s].status \in Terminal =>
            state[s].job \in JobIds /\ job[state[s].job].schedule = s
  BY DEF Safe, StateLinksItsJob, Terminal, Results
<1>some. "running" \notin Terminal /\ "absent" \notin Terminal /\ Results \subseteq Terminal
  BY DEF Terminal, Results
<1>1. CASE UNCHANGED <<state, job>>
  BY <1>1, <1>type
<1>2. ASSUME NEW p \in Procs, Recover(p) PROVE ShownResultIsTheJobs'
  <2>1. CASE state[target[p]].status # "running"
    BY <1>2, <2>1, <1>1, RecoverWrites
  <2>2. CASE state[target[p]].status = "running"
    <3>1. PICK r \in Terminal, j \in JobIds : Settles(p, j, r)
      BY <1>2, <2>2, RecoverWrites
    <3>2. target[p] \in Schedules
      BY <1>2, RecoverWrites
    <3> QED
      BY <3>1, <3>2, <1>type, <1>links, <1>some DEF Settles, SetsState, SetsJob, KeepsJob
  <2> QED
    BY <2>1, <2>2
<1>3. ASSUME NEW p \in Procs, Claim(p) PROVE ShownResultIsTheJobs'
  <2>1. /\ target[p] \in Schedules
        /\ state[target[p]].status # "running"
        /\ \A t \in Schedules : t # target[p] => state'[t] = state[t]
        /\ state'[target[p]].status = "running"
    BY <1>3, ClaimWrites
  <2>2. PICK j \in JobIds : /\ AddsJob(j, p, "scheduled", Starter(p), target[p], Slot(p))
                            /\ state'[target[p]].job = j
    BY <1>3, ClaimWrites
  <2>3. ASSUME NEW t \in Schedules, state'[t].status \in Terminal
        PROVE  job'[state'[t].job].status = state'[t].status
    <3>1. state'[t] = state[t]
      BY <2>1, <2>3, <1>some
    <3>2. state[t].job # j /\ state[t].job \in JobIds
      BY <2>2, <2>3, <3>1, <1>links, Constants DEF AddsJob
    <3> QED
      BY <2>2, <2>3, <3>1, <3>2, <1>type DEF AddsJob
  <2> QED
    BY <2>3
<1>4. ASSUME NEW p \in Procs, FinishJob(p) PROVE ShownResultIsTheJobs'
  <2>1. mine[p] \in JobIds /\ UNCHANGED state
    BY <1>4, Executor DEF FinishJob, Executing
  <2>2. PICK r \in Results : job' = [job EXCEPT ![mine[p]].status = r]
    BY <1>4 DEF FinishJob
  <2>3. state[target[p]].status = "running"
    BY <1>4 DEF Safe, OwnsItsJob, FinishJob
  <2> QED
    BY <1>4, <2>1, <2>2, <2>3, <1>type, <1>links, <1>some, Executor DEF TypeOK, FinishJob
<1>5. ASSUME NEW p \in Procs, RecordState(p) PROVE ShownResultIsTheJobs'
  <2>1. job[mine[p]].status = verdict[p]
    BY <1>5 DEF Safe, OwnsItsJob, RecordState
  <2> QED
    BY <1>5, <2>1, <1>type, <1>some, Executor DEF TypeOK, RecordState
<1>6. ASSUME NEW p \in Procs, Close(p) PROVE ShownResultIsTheJobs'
  <2>1. pc[p] = "close" /\ pc[p] \in Executing
    BY <1>6 DEF Close, Executing
  <2> QED
    BY <1>6, <2>1, <1>type, <1>links, <1>some, Executor DEF TypeOK, Close
<1>7. ASSUME NEW p \in Procs, ManualClaim(p) PROVE ShownResultIsTheJobs'
  <2>1. PICK j \in JobIds : AddsJob(j, p, "manual", "admin", Nobody, Never)
    BY <1>7, ManualClaimWrites
  <2>2. UNCHANGED state
    BY <1>7, ManualClaimWrites
  <2> QED
    BY <2>1, <2>2, <1>type, <1>links, Constants DEF AddsJob
<1>8. ASSUME NEW p \in Procs, ManualFinish(p) PROVE ShownResultIsTheJobs'
  <2>1. mine[p] \in JobIds /\ UNCHANGED state /\ job[mine[p]].schedule = Nobody
    BY <1>8, Executor DEF ManualFinish, Executing
  <2>2. PICK r \in Results : job' = [job EXCEPT ![mine[p]].status = r]
    BY <1>8 DEF ManualFinish
  <2> QED
    BY <2>1, <2>2, <1>type, <1>links, Constants DEF TypeOK
<1>9. ASSUME NEW p \in Procs, NEW s \in Schedules, DeleteSchedule(p, s)
      PROVE  ShownResultIsTheJobs'
  <2>1. ASSUME NEW t \in Schedules, state'[t].status \in Terminal
        PROVE  job'[state'[t].job].status = state'[t].status
    <3>1. state'[t] = state[t]
      BY <1>9, <2>1, <1>type, <1>some, DeleteWrites
    <3> QED
      BY <1>9, <2>1, <3>1, <1>type, <1>links, DeleteWrites
  <2> QED
    BY <2>1
<1> QED
  BY <1>1, <1>2, <1>3, <1>4, <1>5, <1>6, <1>7, <1>8, <1>9, RowWriters

-----------------------------------------------------------------------------
(* Processes: a step of one leaves what the others rely on *)

Step(p) == Work(p) \/ Ask(p) \/ Die(p)

\* A step is one of some process, or leaves all but clock and counters alone.
LEMMA NextSteps ==
  ASSUME [Next]_vars
  PROVE  \/ \E p \in Procs : Step(p)
         \/ UNCHANGED <<schedule, state, job, scheduleLock, writerLock, pc, target, asOf,
                        todo, number, mine, verdict>>
BY DEF Next, Step, vars, Tick, rows, locks, run, poll, bounds

\* A process writes only its own local state.
LEMMA OthersLocals ==
  ASSUME TypeOK, NEW p \in Procs, NEW q \in Procs, p # q, Step(p)
  PROVE  /\ pc'[q] = pc[q]
         /\ target'[q] = target[q]
         /\ asOf'[q] = asOf[q]
         /\ number'[q] = number[q]
         /\ mine'[q] = mine[q]
         /\ verdict'[q] = verdict[q]
<1> USE DEF TypeOK, rows, locks, run, poll, bounds, Goto, Forget, Leave
<1>1. CASE Die(p)
  BY <1>1 DEF Die
<1>2. CASE Ask(p)
  BY <1>2 DEF Ask, ManualBackup, RunNow, CreateSchedule, UpdateSchedule, DeleteSchedule
<1>3. CASE \/ PollBegin(p) \/ PollEnd(p)
           \/ \E s \in Schedules : PollSchedule(p, s) \/ PollBusy(p, s)
  BY <1>3 DEF PollBegin, PollEnd, PollSchedule, PollBusy
<1>4. CASE NotFound(p) \/ Recover(p) \/ Decline(p) \/ Defer(p) \/ OwnWriter(p)
  BY <1>4 DEF NotFound, Recover, Decline, Defer, OwnWriter
<1>5. CASE ReadNumber(p) \/ Claim(p) \/ Refuse(p) \/ Proceed(p)
  BY <1>5 DEF ReadNumber, Claim, Refuse, Proceed
<1>6. CASE FinishJob(p) \/ RecordState(p) \/ Fail(p) \/ Close(p)
  BY <1>6 DEF FinishJob, RecordState, Fail, Close
<1>7. CASE ManualClaim(p) \/ ManualFinish(p)
  BY <1>7 DEF ManualClaim, ManualFinish
<1> QED
  BY <1>1, <1>2, <1>3, <1>4, <1>5, <1>6, <1>7 DEF Step, Work

\* The rows of a schedule are written only by the process that owns it.
LEMMA OthersRows ==
  ASSUME Safe, NEW p \in Procs, NEW q \in Procs, p # q, Step(p),
         pc[q] \in Holding \ {"load"}
  PROVE  /\ state'[target[q]] = state[target[q]]
         /\ schedule'[target[q]] = schedule[target[q]]
<1> DEFINE t == target[q]
<1>type. TypeOK
  BY DEF Safe
<1>mine. t \in Schedules /\ scheduleLock[t] # Nobody /\ IsLive(t)
  BY Constants DEF Safe, LocksHeld, ScheduleStillThere
<1>other. pc[p] \in Holding => target[p] \in Schedules /\ target[p] # t
  BY Exclusive DEF Safe, LocksHeld
<1> USE DEF rows, Holding
<1> HIDE DEF t
<1>1. CASE Recover(p)
  <2>1. target[p] # t
    BY <1>1, <1>other DEF Recover
  <2> QED
    BY <1>1, <2>1, <1>type, <1>mine DEF Recover, TypeOK, t
<1>2. CASE Claim(p)
  <2>1. target[p] # t
    BY <1>2, <1>other DEF Claim
  <2> QED
    BY <1>2, <2>1, <1>type, <1>mine DEF Claim, TypeOK, t
<1>3. CASE RecordState(p) \/ Close(p)
  <2>1. target[p] # t
    BY <1>3, <1>other DEF RecordState, Close
  <2> QED
    BY <1>3, <2>1, <1>type, <1>mine DEF RecordState, Close, TypeOK, t
<1>4. ASSUME NEW s \in Schedules,
             CreateSchedule(p, s) \/ UpdateSchedule(p, s) \/ DeleteSchedule(p, s)
      PROVE  state'[t] = state[t] /\ schedule'[t] = schedule[t]
  <2>1. s # t
    BY <1>4, <1>mine DEF CreateSchedule, UpdateSchedule, DeleteSchedule, IsLive
  <2> QED
    BY <1>4, <2>1, <1>type, <1>mine
    DEF CreateSchedule, UpdateSchedule, DeleteSchedule, TypeOK
<1>5. CASE UNCHANGED <<schedule, state>>
  BY <1>5
<1> QED
  BY <1>1, <1>2, <1>3, <1>4, <1>5
  DEF t, Step, Work, Ask, Die, PollBegin, PollEnd, PollSchedule, PollBusy, RunNow, NotFound,
      Decline, Defer, OwnWriter, ReadNumber, Refuse, Proceed, FinishJob, Fail,
      ManualBackup, ManualClaim, ManualFinish

\* The job of an executor is written by nobody else.
LEMMA OthersJob ==
  ASSUME Safe, NEW p \in Procs, NEW q \in Procs, p # q, Step(p), pc[q] \in Executing
  PROVE  /\ job'[mine[q]].status = job[mine[q]].status
         /\ job'[mine[q]].schedule = job[mine[q]].schedule
<1> DEFINE j == mine[q]
<1>type. TypeOK
  BY DEF Safe
<1>mine. /\ j \in JobIds
         /\ \/ pc[q] \in Holding \ {"load"} /\ job[j].schedule = target[q]
            \/ job[j].schedule = Nobody
  BY Executor DEF Executing, Holding
<1>writer. pc[p] \notin Writing
  BY Exclusive DEF Executing, Writing
<1> HIDE DEF j
<1>1. CASE Recover(p)
  <2>1. job[j].schedule # target[p] /\ target[p] \in Schedules
    BY <1>1, <1>mine, Exclusive, Constants DEF Recover, Safe, LocksHeld, Holding
  <2>2. CASE state[target[p]].status # "running"
    BY <1>1, <2>2 DEF Recover, j
  <2>3. CASE state[target[p]].status = "running"
    <3>1. PICK r \in Terminal, k \in JobIds : Settles(p, k, r)
      BY <1>1, <2>3, RecoverWrites
    <3> QED
      BY <2>1, <3>1, <1>mine DEF Settles, SetsJob, KeepsJob, j
  <2> QED
    BY <2>2, <2>3
<1>2. ASSUME NEW s \in Schedules, DeleteSchedule(p, s)
      PROVE  job'[j].status = job[j].status /\ job'[j].schedule = job[j].schedule
  <2>1. job[j].schedule # s
    BY <1>2, <1>mine, Constants DEF DeleteSchedule, Safe, LocksHeld
  <2> QED
    BY <1>2, <2>1, <1>mine, <1>type, DeleteWrites
<1>3. CASE UNCHANGED job
  BY <1>3
<1> QED
  BY <1>1, <1>2, <1>3, <1>writer
  DEF j, rows, Step, Work, Ask, Die, PollBegin, PollEnd, PollSchedule, PollBusy, RunNow,
      NotFound, Decline, Defer, OwnWriter, ReadNumber, Refuse, Proceed, RecordState, Fail,
      ManualBackup, CreateSchedule, UpdateSchedule,
      Claim, FinishJob, Close, ManualClaim, ManualFinish, Writing

\* No schedule goes away under the process that works on it.
LEMMA StillThereStep == Safe /\ [Next]_vars => ScheduleStillThere'
<1> SUFFICES ASSUME Safe, [Next]_vars, NEW q \in Procs, pc'[q] \in Holding \ {"load"}
             PROVE  IsLive(target[q])'
  BY DEF ScheduleStillThere
<1>type. TypeOK /\ ScheduleStillThere
  BY DEF Safe
<1>1. ASSUME NEW p \in Procs, p # q, Step(p) PROVE IsLive(target[q])'
  <2>1. pc[q] \in Holding \ {"load"} /\ target'[q] = target[q]
    BY <1>1, <1>type, OthersLocals
  <2> QED
    BY <1>1, <2>1, <1>type, OthersRows DEF ScheduleStillThere, IsLive
<1>2. CASE Step(q)
  <2> USE <1>type DEF rows, locks, run, Goto, Holding, IsLive, ScheduleStillThere, TypeOK
  <2>1. CASE Recover(q)
    BY <2>1 DEF Recover
  <2>2. CASE OwnWriter(q) \/ ReadNumber(q)
    BY <2>2 DEF OwnWriter, ReadNumber
  <2>3. CASE Claim(q)
    <3>1. IsLive(target[q]) /\ target[q] \in Schedules
      BY <2>3 DEF Claim, Safe, LocksHeld
    <3>2. schedule'[target[q]].phase = schedule[target[q]].phase
      BY <2>3, <3>1 DEF Claim, ScheduleRows
    <3> QED
      BY <2>3, <3>1, <3>2 DEF Claim
  <2>4. CASE Refuse(q) \/ Proceed(q) \/ FinishJob(q) \/ RecordState(q) \/ Fail(q)
    BY <2>4 DEF Refuse, Proceed, FinishJob, RecordState, Fail
  <2>5. CASE pc'[q] \notin Holding \ {"load"}
    BY <2>5
  <2>6. ASSUME NEW s \in Schedules,
               CreateSchedule(q, s) \/ UpdateSchedule(q, s) \/ DeleteSchedule(q, s)
        PROVE  FALSE
    BY <2>6 DEF CreateSchedule, UpdateSchedule, DeleteSchedule
  <2>7. ASSUME NEW s \in Schedules,
               PollSchedule(q, s) \/ PollBusy(q, s) \/ RunNow(q, s)
        PROVE  FALSE
    BY <2>7 DEF PollSchedule, PollBusy, RunNow, TakeSchedule
  <2> QED
    BY <1>2, <2>1, <2>2, <2>3, <2>4, <2>5, <2>6, <2>7
    DEF Step, Work, Ask, Die, PollBegin, PollEnd, NotFound, Decline, Defer, Leave, Close,
        ManualBackup, ManualClaim, ManualFinish
<1>3. CASE UNCHANGED <<schedule, pc, target>>
  BY <1>3, <1>type DEF ScheduleStillThere, IsLive
<1> QED
  BY <1>1, <1>2, <1>3, NextSteps

\* Nothing becomes unsettled between recovery and claim.
LEMMA UnsettledStep == Safe /\ [Next]_vars => NothingUnsettled'
<1> SUFFICES ASSUME Safe, [Next]_vars, NEW q \in Procs,
                    pc'[q] \in {"decide", "number", "claim"}
             PROVE  state'[target'[q]].status # "running"
  BY DEF NothingUnsettled
<1>type. TypeOK /\ NothingUnsettled
  BY DEF Safe
<1>1. ASSUME NEW p \in Procs, p # q, Step(p)
      PROVE  state'[target'[q]].status # "running"
  <2>1. pc[q] \in Holding \ {"load"} /\ pc[q] = pc'[q] /\ target'[q] = target[q]
    BY <1>1, <1>type, OthersLocals DEF Holding
  <2> QED
    BY <1>1, <2>1, <1>type, OthersRows DEF NothingUnsettled
<1>2. CASE Step(q)
  <2> USE <1>type DEF rows, locks, run, Goto, NothingUnsettled, TypeOK
  <2>1. CASE Recover(q)
    <3>1. target'[q] = target[q] /\ target[q] \in Schedules
      BY <2>1, RecoverWrites DEF Recover
    <3>2. CASE state[target[q]].status # "running"
      BY <2>1, <3>1, <3>2 DEF Recover
    <3>3. CASE state[target[q]].status = "running"
      <4>1. PICK r \in Terminal, j \in JobIds : Settles(q, j, r)
        BY <2>1, <3>3, RecoverWrites
      <4> QED
        BY <4>1, <3>1 DEF Settles, SetsState, Terminal, Results
    <3> QED
      BY <3>2, <3>3
  <2>2. CASE OwnWriter(q) \/ ReadNumber(q)
    BY <2>2 DEF OwnWriter, ReadNumber
  <2>3. CASE pc'[q] \notin {"decide", "number", "claim"}
    BY <2>3
  <2>4. ASSUME NEW s \in Schedules,
               \/ CreateSchedule(q, s) \/ UpdateSchedule(q, s) \/ DeleteSchedule(q, s)
               \/ PollSchedule(q, s) \/ PollBusy(q, s) \/ RunNow(q, s)
        PROVE  FALSE
    BY <2>4
    DEF CreateSchedule, UpdateSchedule, DeleteSchedule, PollSchedule, PollBusy, RunNow,
        TakeSchedule
  <2> QED
    BY <1>2, <2>1, <2>2, <2>3, <2>4
    DEF Step, Work, Ask, Die, PollBegin, PollEnd, NotFound, Decline, Defer, Leave, Close,
        Claim, Refuse, Proceed, FinishJob, RecordState, Fail,
        ManualBackup, ManualClaim, ManualFinish
<1>3. CASE UNCHANGED <<state, pc, target>>
  BY <1>3, <1>type DEF NothingUnsettled
<1> QED
  BY <1>1, <1>2, <1>3, NextSteps

\* An executor keeps its job and what it knows of it.
LEMMA OwnsStep == Safe /\ [Next]_vars => (\A q \in Procs : OwnsItsJob(q))'
<1> SUFFICES ASSUME Safe, [Next]_vars, NEW q \in Procs PROVE OwnsItsJob(q)'
  OBVIOUS
<1>type. TypeOK /\ OwnsItsJob(q)
  BY DEF Safe
<1>idle. pc'[q] \notin Executing => OwnsItsJob(q)'
  BY DEF OwnsItsJob, Executing
<1>1. ASSUME NEW p \in Procs, p # q, Step(p) PROVE OwnsItsJob(q)'
  <2>1. /\ pc'[q] = pc[q] /\ target'[q] = target[q]
        /\ mine'[q] = mine[q] /\ verdict'[q] = verdict[q]
    BY <1>1, <1>type, OthersLocals
  <2>2. CASE pc[q] \notin Executing
    BY <2>1, <2>2, <1>idle
  <2>3. CASE pc[q] \in Executing
    <3>1. /\ job'[mine[q]].status = job[mine[q]].status
          /\ job'[mine[q]].schedule = job[mine[q]].schedule
      BY <1>1, <2>3, OthersJob
    <3>2. pc[q] # "mbackup" => state'[target[q]] = state[target[q]]
      BY <1>1, <2>3, OthersRows DEF Executing, Holding
    <3> QED
      BY <2>1, <2>3, <3>1, <3>2, <1>type DEF OwnsItsJob, Executing
  <2> QED
    BY <2>2, <2>3
<1>2. CASE Step(q)
  <2> USE DEF rows, locks, run, Goto, Executing
  <2>1. CASE Claim(q)
    <3>1. PICK j \in JobIds : /\ AddsJob(j, q, "scheduled", Starter(q), target[q], Slot(q))
                              /\ state'[target[q]].job = j
      BY <2>1, ClaimWrites
    <3>2. state'[target[q]].status = "running"
      BY <2>1, ClaimWrites
    <3>3. pc'[q] = "resolve" /\ target'[q] = target[q] /\ mine'[q] = j
      BY <2>1, <3>1, <1>type DEF Claim, TypeOK, AddsJob
    <3> QED
      BY <3>1, <3>2, <3>3 DEF OwnsItsJob, AddsJob
  <2>2. CASE Refuse(q) \/ Fail(q)
    BY <2>2, <1>type DEF Refuse, Fail, OwnsItsJob, TypeOK, Terminal, Results
  <2>3. CASE Proceed(q)
    BY <2>3, <1>type DEF Proceed, OwnsItsJob, TypeOK
  <2>4. CASE FinishJob(q)
    <3>1. PICK r \in Results : /\ job' = [job EXCEPT ![mine[q]].status = r]
                               /\ verdict' = [verdict EXCEPT ![q] = r]
      BY <2>4 DEF FinishJob
    <3>2. pc'[q] = "record" /\ UNCHANGED <<state, target, mine>> /\ verdict'[q] = r
      BY <2>4, <3>1, <1>type DEF FinishJob, TypeOK
    <3>3. mine[q] \in JobIds
      BY <2>4, <1>type DEF FinishJob, OwnsItsJob
    <3>4. job'[mine[q]].status = r
      BY <3>1, <3>3, <1>type DEF TypeOK, JobRows
    <3> QED
      BY <2>4, <3>2, <3>3, <3>4, <1>type DEF FinishJob, OwnsItsJob, Terminal
  <2>5. CASE RecordState(q)
    <3>1. target[q] \in Schedules /\ verdict[q] \in Terminal
      BY <2>5, Executor DEF RecordState
    <3>2. SetsState(target[q], verdict[q])
      BY <2>5, <3>1, <1>type, SetsStateIntro DEF RecordState
    <3>3. pc'[q] = "close" /\ UNCHANGED <<job, target, mine, verdict>>
      BY <2>5, <1>type DEF RecordState, TypeOK
    <3> QED
      BY <2>5, <3>1, <3>2, <3>3, <1>type
      DEF RecordState, OwnsItsJob, SetsState, Terminal, Results
  <2>6. CASE ManualClaim(q)
    <3>1. PICK j \in JobIds : AddsJob(j, q, "manual", "admin", Nobody, Never)
      BY <2>6, ManualClaimWrites
    <3>2. pc'[q] = "mbackup" /\ mine'[q] = j
      BY <2>6, <3>1, <1>type DEF ManualClaim, TypeOK, AddsJob
    <3> QED
      BY <3>1, <3>2 DEF OwnsItsJob, AddsJob
  <2>7. CASE pc'[q] \notin Executing
    BY <2>7, <1>idle
  <2>8. CASE UNCHANGED <<pc, target, mine, verdict>> /\ pc[q] \notin Executing
    BY <2>8, <1>idle
  <2> QED
    BY <1>2, <2>1, <2>2, <2>3, <2>4, <2>5, <2>6, <2>7, <2>8, <1>type
    DEF TypeOK, Step, Work, Ask, Die, PollBegin, PollEnd, PollSchedule, PollBusy, NotFound,
        Recover, Decline, Defer, OwnWriter, ReadNumber, Leave, Close, RunNow,
        ManualBackup, ManualFinish, CreateSchedule, UpdateSchedule, DeleteSchedule
<1>3. CASE UNCHANGED <<state, job, pc, target, mine, verdict>>
  BY <1>3, <1>type DEF OwnsItsJob
<1> QED
  BY <1>1, <1>2, <1>3, NextSteps

-----------------------------------------------------------------------------
(* The first half of the inductive invariant *)

\* The invariant holds at the start.
LEMMA InitSafe == Init => Safe
<1> SUFFICES ASSUME Init PROVE Safe
  OBVIOUS
<1>1. TypeOK
  BY InitType
<1>2. LocksHeld /\ ScheduleStillThere /\ NothingUnsettled
  BY DEF Init, LocksHeld, ScheduleStillThere, NothingUnsettled, Holding, Writing
<1>3. StateLinksItsJob /\ RunningJobIsRecoverable /\ ShownResultIsTheJobs
  BY DEF Init, StateLinksItsJob, RunningJobIsRecoverable, ShownResultIsTheJobs, NoState,
         NoJob, Terminal, Results
<1>4. \A p \in Procs : OwnsItsJob(p)
  BY DEF Init, OwnsItsJob, Executing
<1> QED
  BY <1>1, <1>2, <1>3, <1>4 DEF Safe

\* The invariant is inductive.
LEMMA NextSafe == Safe /\ [Next]_vars => Safe'
BY TypeStep, LocksStep, LinksStep, StillThereStep, UnsettledStep, OwnsStep,
   RecoverableStep, ShownStep DEF Safe

\* It holds always.
LEMMA SafeAlways == Spec => []Safe
BY InitSafe, NextSafe, PTL DEF Spec

\* Every row and every local value keeps its type, whatever the interleaving:
\* in particular no row is ever written under a key that does not exist.
THEOREM TypeCorrect == Spec => []TypeOK
<1>1. Safe => TypeOK
  BY DEF Safe
<1> QED
  BY <1>1, SafeAlways, PTL

\* Mutual exclusion: the try-locks admit one executor on the whole platform,
\* for polls, Run Now and manual backups, although a death drops its locks.
THEOREM MutualExclusion == Spec => []OneExecutor
<1>1. Safe => OneExecutor
  BY DEF Safe, LocksHeld, OneExecutor, Executing, Writing
<1> QED
  BY <1>1, SafeAlways, PTL

\* An interrupted scheduled job is always the one its schedule points to, so
\* recover() finds it.
THEOREM InterruptedIsFound == Spec => []RunningJobIsRecoverable
<1>1. Safe => RunningJobIsRecoverable
  BY DEF Safe
<1> QED
  BY <1>1, SafeAlways, PTL

\* The result a schedule shows agrees with its job's at every commit.
THEOREM ShownResultAgrees == Spec => []ShownResultIsTheJobs
<1>1. Safe => ShownResultIsTheJobs
  BY DEF Safe
<1> QED
  BY <1>1, SafeAlways, PTL

-----------------------------------------------------------------------------
(* Job numbers *)

\* The table of jobs has no new rows and no new numbers.
SameNumbers ==
  \A j \in JobIds : /\ job'[j].number = job[j].number
                    /\ job'[j].status # "none" => job[j].status # "none"

\* Jobs are added by the holder of the writer, under the number it has read.
LEMMA NumberWrites ==
  ASSUME Safe, [Next]_vars
  PROVE  \/ SameNumbers
         \/ \E p \in Procs :
              /\ pc[p] \in {"claim", "mclaim"} /\ pc'[p] \notin {"claim", "mclaim"}
              /\ Step(p)
              /\ \E j \in JobIds : \E source, startedBy, at, slot :
                   AddsJob(j, p, source, startedBy, at, slot)
<1>type. TypeOK
  BY DEF Safe
<1>set. ASSUME NEW j \in JobIds, NEW r, job[j].status # "none", SetsJob(j, r)
        PROVE  SameNumbers
  BY <1>set DEF SetsJob, KeepsJob, SameNumbers
<1>1. CASE UNCHANGED <<state, job>>
  BY <1>1 DEF SameNumbers
<1>2. ASSUME NEW p \in Procs, Recover(p) PROVE SameNumbers
  <2>1. CASE UNCHANGED job
    BY <2>1 DEF SameNumbers
  <2>2. ASSUME NEW r \in Terminal, NEW j \in JobIds, Settles(p, j, r) PROVE SameNumbers
    <3>1. job[j].status # "none"
      BY <2>2, <1>2, RecoverWrites, Constants DEF Settles, Safe, StateLinksItsJob
    <3> QED
      BY <2>2, <3>1, <1>set DEF Settles
  <2> QED
    BY <1>2, <2>1, <2>2, RecoverWrites
<1>3. ASSUME NEW p \in Procs, FinishJob(p) \/ ManualFinish(p) PROVE SameNumbers
  <2>1. mine[p] \in JobIds /\ job[mine[p]].status = "running"
    BY <1>3 DEF FinishJob, ManualFinish, Safe, OwnsItsJob, Executing
  <2>2. PICK r \in Results : job' = [job EXCEPT ![mine[p]].status = r]
    BY <1>3 DEF FinishJob, ManualFinish
  <2> QED
    BY <2>1, <2>2, <1>type, <1>set, SetsJobIntro
<1>4. ASSUME NEW p \in Procs, Close(p) PROVE SameNumbers
  <2>1. mine[p] \in JobIds /\ job[mine[p]].schedule \in Schedules
    BY <1>4, Executor DEF Close, Executing
  <2>2. job[mine[p]].status # "none"
    BY <2>1, Constants DEF Safe, StateLinksItsJob
  <2> QED
    BY <1>4, <2>1, <2>2, <1>type, <1>set, SetsJobIntro DEF Close
<1>5. ASSUME NEW p \in Procs, RecordState(p) PROVE SameNumbers
  BY <1>5 DEF RecordState, SameNumbers
<1>6. ASSUME NEW p \in Procs, NEW s \in Schedules, DeleteSchedule(p, s) PROVE SameNumbers
  BY <1>6, <1>type, DeleteWrites DEF SameNumbers
<1>7. ASSUME NEW p \in Procs, Claim(p)
      PROVE  /\ pc[p] \in {"claim", "mclaim"} /\ pc'[p] \notin {"claim", "mclaim"}
             /\ Step(p)
             /\ \E j \in JobIds : \E source, startedBy, at, slot :
                  AddsJob(j, p, source, startedBy, at, slot)
  <2>1. pc[p] = "claim" /\ pc'[p] = "resolve" /\ Step(p)
    BY <1>7, <1>type DEF Claim, Goto, TypeOK, Step, Work
  <2>2. PICK j \in JobIds : AddsJob(j, p, "scheduled", Starter(p), target[p], Slot(p))
    BY <1>7, ClaimWrites
  <2> QED
    BY <2>1, <2>2
<1>8. ASSUME NEW p \in Procs, ManualClaim(p)
      PROVE  /\ pc[p] \in {"claim", "mclaim"} /\ pc'[p] \notin {"claim", "mclaim"}
             /\ Step(p)
             /\ \E j \in JobIds : \E source, startedBy, at, slot :
                  AddsJob(j, p, source, startedBy, at, slot)
  <2>1. pc[p] = "mclaim" /\ pc'[p] = "mbackup" /\ Step(p)
    BY <1>8, <1>type DEF ManualClaim, Goto, TypeOK, Step, Work
  <2>2. PICK j \in JobIds : AddsJob(j, p, "manual", "admin", Nobody, Never)
    BY <1>8, ManualClaimWrites
  <2> QED
    BY <2>1, <2>2
<1> QED
  BY <1>1, <1>2, <1>3, <1>4, <1>5, <1>6, <1>7, <1>8, RowWriters

\* A process about to insert a job got its number just now, or had it before.
LEMMA NumberReaders ==
  ASSUME Safe, [Next]_vars, NEW q \in Procs, pc'[q] \in {"claim", "mclaim"}
  PROVE  \/ pc[q] \in {"claim", "mclaim"} /\ number'[q] = number[q]
         \/ /\ UNCHANGED job
            /\ \A j \in JobIds : job[j].number < number'[q]
<1>type. TypeOK
  BY DEF Safe
<1>1. ASSUME NEW p \in Procs, p # q, Step(p)
      PROVE  pc[q] \in {"claim", "mclaim"} /\ number'[q] = number[q]
  BY <1>1, <1>type, OthersLocals
<1>2. CASE ReadNumber(q)
  BY <1>2, <1>type DEF ReadNumber, IsNextNumber, TypeOK, rows
<1>3. CASE Step(q) /\ ~ReadNumber(q)
  <2> USE <1>type DEF rows, locks, run, poll, bounds, Goto, TypeOK
  <2>1. CASE pc'[q] = pc[q] /\ number'[q] = number[q]
    BY <2>1
  <2>2. CASE pc'[q] \notin {"claim", "mclaim"}
    BY <2>2
  <2>3. ASSUME NEW s \in Schedules,
               \/ CreateSchedule(q, s) \/ UpdateSchedule(q, s) \/ DeleteSchedule(q, s)
               \/ PollSchedule(q, s) \/ PollBusy(q, s) \/ RunNow(q, s)
        PROVE  FALSE
    BY <2>3
    DEF CreateSchedule, UpdateSchedule, DeleteSchedule, PollSchedule, PollBusy, RunNow,
        TakeSchedule
  <2> QED
    BY <1>3, <2>1, <2>2, <2>3
    DEF Step, Work, Ask, Die, PollBegin, PollEnd, NotFound, Recover, Decline, Defer,
        OwnWriter, Leave, Close, Claim, Refuse, Proceed, FinishJob, RecordState, Fail,
        ManualBackup, ManualClaim, ManualFinish
<1>4. CASE UNCHANGED <<pc, number>>
  BY <1>4
<1> QED
  BY <1>1, <1>2, <1>3, <1>4, NextSteps

\* The part of Ordered that speaks of job numbers is inductive.
LEMMA NumbersStep ==
  Safe /\ NumberStillFree /\ JobNumbersUnique /\ [Next]_vars
    => NumberStillFree' /\ JobNumbersUnique'
<1> SUFFICES ASSUME Safe, NumberStillFree, JobNumbersUnique, [Next]_vars
             PROVE  NumberStillFree' /\ JobNumbersUnique'
  OBVIOUS
<1>type. \A j \in JobIds : job[j].number \in Int
  BY DEF Safe, TypeOK, JobRows
<1>1. CASE SameNumbers
  <2>1. JobNumbersUnique'
    BY <1>1 DEF SameNumbers, JobNumbersUnique
  <2>2. ASSUME NEW q \in Procs, pc'[q] \in {"claim", "mclaim"}, NEW j \in JobIds
        PROVE  job'[j].number < number'[q]
    BY <1>1, <2>2, NumberReaders DEF SameNumbers, NumberStillFree
  <2> QED
    BY <2>1, <2>2 DEF NumberStillFree
<1>2. ASSUME NEW p \in Procs,
             pc[p] \in {"claim", "mclaim"}, pc'[p] \notin {"claim", "mclaim"}, Step(p),
             NEW i \in JobIds, NEW source, NEW startedBy, NEW at, NEW slot,
             AddsJob(i, p, source, startedBy, at, slot)
      PROVE  NumberStillFree' /\ JobNumbersUnique'
  <2>1. /\ job'[i].number = number[p]
        /\ \A k \in JobIds : k # i => job'[k] = job[k]
    BY <1>2 DEF AddsJob
  <2>2. \A k \in JobIds : job[k].number < number[p]
    BY <1>2 DEF NumberStillFree
  <2>3. JobNumbersUnique'
    <3> SUFFICES ASSUME NEW j \in JobIds, NEW k \in JobIds,
                        job'[j].status # "none", job'[k].status # "none",
                        job'[j].number = job'[k].number
                 PROVE  j = k
      BY DEF JobNumbersUnique
    <3>n. number[p] \in Int
      BY DEF Safe, TypeOK
    <3>1. CASE j # i /\ k # i
      BY <3>1, <2>1 DEF JobNumbersUnique
    <3>2. CASE j = i /\ k # i
      <4>1. job[k].number = number[p] /\ job[k].number < number[p]
        BY <3>2, <2>1, <2>2
      <4> QED
        BY <4>1, <3>n
    <3>3. CASE j # i /\ k = i
      <4>1. job[j].number = number[p] /\ job[j].number < number[p]
        BY <3>3, <2>1, <2>2
      <4> QED
        BY <4>1, <3>n
    <3> QED
      BY <3>1, <3>2, <3>3
  <2>4. ASSUME NEW q \in Procs, pc'[q] \in {"claim", "mclaim"} PROVE FALSE
    <3>1. p # q /\ pc[q] = pc'[q]
      BY <1>2, <2>4, OthersLocals DEF Safe
    <3> QED
      BY <1>2, <2>4, <3>1, Exclusive DEF Writing
  <2> QED
    BY <2>3, <2>4 DEF NumberStillFree
<1> QED
  BY <1>1, <1>2, NumberWrites

\* The numbers of jobs never collide, although they are read in one step and
\* inserted in another: both steps are taken under the writer.
THEOREM NumbersUnique == Spec => []JobNumbersUnique
<1>1. Init => NumberStillFree /\ JobNumbersUnique
  BY DEF Init, NumberStillFree, JobNumbersUnique, NoJob
<1> QED
  BY <1>1, SafeAlways, NumbersStep, PTL DEF Spec

-----------------------------------------------------------------------------
(* The order of the occurrences *)

\* A step that leaves jobs and checkpoints as they are, up to a status.
KeepsHistory ==
  /\ \A s \in Schedules : /\ state'[s].status = "absent" <=> state[s].status = "absent"
                          /\ state'[s].job = state[s].job
                          /\ state'[s].slot = state[s].slot
  /\ \A j \in JobIds : KeepsJob(j)

\* Only a claim, a manual backup and a deletion do more.
LEMMA HistoryWrites ==
  ASSUME Safe, [Next]_vars
  PROVE  \/ KeepsHistory
         \/ \E p \in Procs : \/ Claim(p) \/ ManualClaim(p)
                             \/ \E s \in Schedules : DeleteSchedule(p, s)
<1>type. TypeOK
  BY DEF Safe
<1>some. "absent" \notin Terminal /\ "running" # "absent"
  BY DEF Terminal, Results
<1>state. ASSUME UNCHANGED state, NEW j \in JobIds, NEW r, SetsJob(j, r) PROVE KeepsHistory
  BY <1>state DEF KeepsHistory, SetsJob
<1>1. ASSUME UNCHANGED <<state, job>> PROVE KeepsHistory
  BY <1>1 DEF KeepsHistory, KeepsJob
<1>2. ASSUME NEW p \in Procs, Recover(p) PROVE KeepsHistory
  <2>1. ASSUME NEW r \in Terminal, NEW j \in JobIds, Settles(p, j, r) PROVE KeepsHistory
    BY <2>1, <1>some DEF Settles, SetsState, SetsJob, KeepsHistory
  <2>2. \/ UNCHANGED <<state, job>>
        \/ \E r \in Terminal, j \in JobIds : Settles(p, j, r)
    BY <1>2, RecoverWrites
  <2>3. CASE \E r \in Terminal, j \in JobIds : Settles(p, j, r)
    <3>1. PICK r \in Terminal, j \in JobIds : Settles(p, j, r)
      BY <2>3
    <3> QED
      BY <3>1, <2>1
  <2> QED
    BY <2>2, <2>3, <1>1
<1>3. ASSUME NEW p \in Procs, FinishJob(p) \/ ManualFinish(p) PROVE KeepsHistory
  <2>1. mine[p] \in JobIds /\ UNCHANGED state
    BY <1>3, Executor DEF FinishJob, ManualFinish, Executing
  <2>2. PICK r \in Results : job' = [job EXCEPT ![mine[p]].status = r]
    BY <1>3 DEF FinishJob, ManualFinish
  <2> QED
    BY <2>1, <2>2, <1>type, <1>state, SetsJobIntro
<1>4. ASSUME NEW p \in Procs, RecordState(p) \/ Close(p) PROVE KeepsHistory
  <2>1. /\ target[p] \in Schedules /\ state[target[p]].status # "absent"
        /\ verdict[p] \in Terminal /\ mine[p] \in JobIds
    BY <1>4, Executor DEF RecordState, Close, Executing
  <2>2. SetsState(target[p], verdict[p])
    BY <1>4, <2>1, <1>type, SetsStateIntro DEF RecordState, Close
  <2>3. \A j \in JobIds : KeepsJob(j)
    BY <1>4, <2>1, <1>type, SetsJobIntro DEF RecordState, Close, SetsJob, KeepsJob
  <2> QED
    BY <2>1, <2>2, <2>3, <1>some DEF SetsState, KeepsHistory
<1> QED
  BY <1>1, <1>2, <1>3, <1>4, RowWriters

\* The state row of a schedule stays with its latest job.
LEMMA CheckpointStep ==
  ASSUME Safe, NumberStillFree, CheckpointIsLatest, [Next]_vars PROVE CheckpointIsLatest'
<1>type. TypeOK /\ StateLinksItsJob
  BY DEF Safe
<1>num. \A j \in JobIds : /\ job[j].number \in Int
                          /\ job[j].schedule \in Schedules \cup {Nobody}
  BY <1>type DEF TypeOK, JobRows
<1>at. \A s \in Schedules : state[s].status # "absent" =>
         state[s].job \in JobIds /\ job[state[s].job].schedule = s
  BY <1>type DEF StateLinksItsJob
<1>1. CASE KeepsHistory
  <2>1. ASSUME NEW s \in Schedules, state'[s].status # "absent"
        PROVE  /\ state'[s].slot = job'[state'[s].job].slot
               /\ \A j \in JobIds : job'[j].schedule = s => job'[j].number <= job'[state'[s].job].number
    BY <1>1, <2>1, <1>at DEF KeepsHistory, KeepsJob, CheckpointIsLatest
  <2>2. ASSUME NEW j \in JobIds, job'[j].schedule # Nobody
        PROVE  /\ state'[job'[j].schedule].status # "absent"
               /\ job'[j].started_by \in {"admin", "(scheduled)"}
    BY <1>1, <2>2, <1>num DEF KeepsHistory, KeepsJob, CheckpointIsLatest
  <2> QED
    BY <2>1, <2>2 DEF CheckpointIsLatest
<1>2. ASSUME NEW p \in Procs, Claim(p) PROVE CheckpointIsLatest'
  <2>1. /\ target[p] \in Schedules
        /\ \A t \in Schedules : t # target[p] => state'[t] = state[t]
        /\ state'[target[p]].status = "running"
        /\ state'[target[p]].slot = Slot(p)
    BY <1>2, ClaimWrites
  <2>2. PICK i \in JobIds : /\ AddsJob(i, p, "scheduled", Starter(p), target[p], Slot(p))
                            /\ state'[target[p]].job = i
    BY <1>2, ClaimWrites
  <2>3. \A k \in JobIds : job[k].number < number[p]
    BY <1>2 DEF Claim, NumberStillFree
  <2>n. number[p] \in Int
    BY <1>type DEF TypeOK
  <2>4. ASSUME NEW s \in Schedules, state'[s].status # "absent"
        PROVE  /\ state'[s].slot = job'[state'[s].job].slot
               /\ \A j \in JobIds : job'[j].schedule = s => job'[j].number <= job'[state'[s].job].number
    <3>1. CASE s = target[p]
      <4>1. state'[s].slot = job'[i].slot /\ state'[s].job = i /\ job'[i].number = number[p]
        BY <3>1, <2>1, <2>2 DEF AddsJob
      <4>2. \A j \in JobIds : job'[j].number <= number[p]
        BY <2>2, <2>3, <2>n, <1>num DEF AddsJob
      <4> QED
        BY <4>1, <4>2
    <3>2. CASE s # target[p]
      <4>1. state'[s] = state[s]
        BY <3>2, <2>1
      <4>2. state[s].job \in JobIds /\ job[state[s].job].schedule = s
        BY <4>1, <2>4, <1>at
      <4>3. state[s].job # i /\ job'[i].schedule # s
        BY <2>2, <3>2, <4>2, Constants DEF AddsJob
      <4>4. job'[state[s].job] = job[state[s].job]
        BY <2>2, <4>2, <4>3 DEF AddsJob
      <4>5. \A j \in JobIds : job'[j].schedule = s => job'[j] = job[j]
        BY <2>2, <4>3 DEF AddsJob
      <4> QED
        BY <4>1, <4>4, <4>5, <2>4 DEF CheckpointIsLatest
    <3> QED
      BY <3>1, <3>2
  <2>5. ASSUME NEW j \in JobIds, job'[j].schedule # Nobody
        PROVE  /\ state'[job'[j].schedule].status # "absent"
               /\ job'[j].started_by \in {"admin", "(scheduled)"}
    <3>1. CASE j = i
      BY <3>1, <2>1, <2>2 DEF AddsJob, Starter
    <3>2. CASE j # i
      <4>1. job'[j] = job[j]
        BY <3>2, <2>2 DEF AddsJob
      <4>2. job[j].schedule \in Schedules
        BY <4>1, <2>5, <1>num
      <4> QED
        BY <4>1, <4>2, <2>1, <2>5 DEF CheckpointIsLatest
    <3> QED
      BY <3>1, <3>2
  <2> QED
    BY <2>4, <2>5 DEF CheckpointIsLatest
<1>3. ASSUME NEW p \in Procs, ManualClaim(p) PROVE CheckpointIsLatest'
  <2>1. PICK i \in JobIds : AddsJob(i, p, "manual", "admin", Nobody, Never)
    BY <1>3, ManualClaimWrites
  <2>2. UNCHANGED state
    BY <1>3, ManualClaimWrites
  <2>3. \A j \in JobIds : job'[j].schedule # Nobody => job'[j] = job[j]
    BY <2>1 DEF AddsJob
  <2>4. ASSUME NEW s \in Schedules, state'[s].status # "absent"
        PROVE  /\ state'[s].slot = job'[state'[s].job].slot
               /\ \A j \in JobIds : job'[j].schedule = s => job'[j].number <= job'[state'[s].job].number
    <3>1. state[s].job \in JobIds /\ job[state[s].job].schedule = s
      BY <2>2, <2>4, <1>at
    <3>2. job'[state[s].job] = job[state[s].job]
      BY <2>1, <3>1, Constants DEF AddsJob
    <3> QED
      BY <2>2, <2>3, <2>4, <3>2, Constants DEF CheckpointIsLatest
  <2> QED
    BY <2>2, <2>3, <2>4 DEF CheckpointIsLatest
<1>4. ASSUME NEW p \in Procs, NEW s \in Schedules, DeleteSchedule(p, s) PROVE CheckpointIsLatest'
  <2>1. /\ state'[s].status = "absent"
        /\ \A t \in Schedules : t # s => state'[t] = state[t]
        /\ \A j \in JobIds :
             /\ job'[j].schedule = IF job[j].schedule = s THEN Nobody ELSE job[j].schedule
             /\ job'[j].number = job[j].number
             /\ job'[j].slot = job[j].slot
             /\ job'[j].started_by = job[j].started_by
    BY <1>4, <1>type, DeleteWrites
  <2>2. ASSUME NEW t \in Schedules, state'[t].status # "absent"
        PROVE  /\ state'[t].slot = job'[state'[t].job].slot
               /\ \A j \in JobIds : job'[j].schedule = t => job'[j].number <= job'[state'[t].job].number
    <3>1. t # s /\ state'[t] = state[t]
      BY <2>1, <2>2
    <3>2. state[t].job \in JobIds
      BY <3>1, <2>2, <1>at
    <3>3. \A j \in JobIds : job'[j].schedule = t => job[j].schedule = t
      BY <2>1, Constants
    <3> QED
      BY <2>1, <2>2, <3>1, <3>2, <3>3 DEF CheckpointIsLatest
  <2>3. ASSUME NEW j \in JobIds, job'[j].schedule # Nobody
        PROVE  /\ state'[job'[j].schedule].status # "absent"
               /\ job'[j].started_by \in {"admin", "(scheduled)"}
    <3>1. job'[j].schedule = job[j].schedule /\ job[j].schedule # s /\ job[j].schedule \in Schedules
      BY <2>1, <2>3, <1>num
    <3> QED
      BY <2>1, <2>3, <3>1 DEF CheckpointIsLatest
  <2> QED
    BY <2>2, <2>3 DEF CheckpointIsLatest
<1> QED
  BY <1>1, <1>2, <1>3, <1>4, HistoryWrites

\* What a poll found due stays due until it claims it: the rows it looked at are its own.
LEMMA DueStep ==
  ASSUME Safe, StillDue, [Next]_vars PROVE StillDue'
<1> SUFFICES ASSUME NEW q \in Pollers, pc'[q] \in {"number", "claim"}
             PROVE  (Checkpoint(target[q]) < Slot(q))'
  BY DEF StillDue
<1>q. q \in Procs
  BY DEF Procs
<1>type. TypeOK
  BY DEF Safe
<1>same. ASSUME pc[q] \in {"number", "claim"}, target'[q] = target[q], asOf'[q] = asOf[q],
                state'[target[q]] = state[target[q]], schedule'[target[q]] = schedule[target[q]]
         PROVE  (Checkpoint(target[q]) < Slot(q))'
  <2>1. Checkpoint(target[q]) < Slot(q)
    BY <1>same DEF StillDue
  <2> QED
    BY <2>1, <1>same DEF Checkpoint, Slot
<1>1. ASSUME NEW p \in Procs, p # q, Step(p) PROVE (Checkpoint(target[q]) < Slot(q))'
  <2>1. pc[q] = pc'[q] /\ target'[q] = target[q] /\ asOf'[q] = asOf[q]
    BY <1>1, <1>q, <1>type, OthersLocals
  <2>2. pc[q] \in Holding \ {"load"}
    BY <2>1 DEF Holding
  <2> QED
    BY <1>1, <1>q, <1>same, <2>1, <2>2, OthersRows
<1>2. CASE OwnWriter(q)
  <2>1. /\ UNCHANGED <<state, schedule, target, asOf>>
        /\ ~ (Checkpoint(target[q]) >= Slot(q))
    BY <1>2 DEF OwnWriter, Declined, rows, run, poll
  <2>2. target[q] \in Schedules
    BY <1>2, <1>q DEF Safe, LocksHeld, OwnWriter, Holding
  <2>3. Slot(q) \in Int
    BY <1>q, <1>type, <2>2, SlotType
  <2>4. Checkpoint(target[q]) \in Int
    BY <1>type, <2>2 DEF TypeOK, Checkpoint, StateRows, ScheduleRows, Instants
  <2>5. Checkpoint(target[q]) < Slot(q)
    BY <2>1, <2>3, <2>4
  <2> QED
    BY <2>1, <2>5 DEF Checkpoint, Slot
<1>3. CASE ReadNumber(q)
  <2>1. pc[q] = "number" /\ UNCHANGED <<state, schedule, target, asOf>>
    BY <1>3, <1>q, <1>type DEF ReadNumber, Goto, TypeOK, rows, poll
  <2> QED
    BY <2>1, <1>same
<1>4. CASE Step(q) /\ ~OwnWriter(q) /\ ~ReadNumber(q)
  <2> USE <1>type, <1>q DEF Goto, TypeOK
  <2>1. ASSUME NEW s \in Schedules,
               \/ CreateSchedule(q, s) \/ UpdateSchedule(q, s) \/ DeleteSchedule(q, s)
               \/ PollSchedule(q, s) \/ PollBusy(q, s) \/ RunNow(q, s)
        PROVE  FALSE
    BY <2>1
    DEF CreateSchedule, UpdateSchedule, DeleteSchedule, PollSchedule, PollBusy, RunNow,
        TakeSchedule
  <2>2. CASE pc'[q] \notin {"number", "claim"}
    BY <2>2
  <2> QED
    BY <1>4, <2>1, <2>2
    DEF Step, Work, Ask, Die, PollBegin, PollEnd, NotFound, Recover, Decline, Defer,
        Leave, Close, Claim, Refuse, Proceed, FinishJob, RecordState, Fail,
        ManualBackup, ManualClaim, ManualFinish
<1>5. CASE UNCHANGED <<schedule, state, pc, target, asOf>>
  BY <1>5, <1>same
<1> QED
  BY <1>q, <1>1, <1>2, <1>3, <1>4, <1>5, NextSteps

\* A later automatic run is of a later occurrence, or a Run Now lies between.
Grows(j, k) ==
  \/ job[j].slot < job[k].slot
  \/ \E m \in JobIds : /\ job[m].schedule = job[j].schedule
                       /\ job[m].started_by = "admin"
                       /\ job[j].number < job[m].number
                       /\ job[m].number < job[k].number

\* The checkpoint of a schedule lies after every automatic run that no Run Now followed.
LEMMA CheckpointGrows ==
  ASSUME Safe, CheckpointIsLatest, SlotsGrow, JobNumbersUnique,
         NEW s \in Schedules, NEW j \in JobIds, job[j].schedule = s, Automatic(j)
  PROVE  /\ state[s].status # "absent"
         /\ \/ job[j].slot <= state[s].slot
            \/ \E m \in JobIds : /\ job[m].schedule = s
                                 /\ job[m].started_by = "admin"
                                 /\ job[j].number < job[m].number
<1> DEFINE c == state[s].job
<1>1. s # Nobody /\ state[s].status # "absent"
  BY Constants DEF CheckpointIsLatest
<1>2. /\ c \in JobIds /\ job[c].schedule = s
      /\ state[s].slot = job[c].slot
      /\ job[j].number <= job[c].number
      /\ job[c].started_by \in {"admin", "(scheduled)"}
  BY <1>1 DEF Safe, StateLinksItsJob, CheckpointIsLatest
<1>type. \A k \in JobIds : job[k].number \in Int /\ job[k].slot \in Int
  BY DEF Safe, TypeOK, JobRows, Instants
<1>3. CASE j = c
  BY <1>1, <1>2, <1>3, <1>type
<1>4. CASE j # c
  <2>1. job[j].status # "none" /\ job[c].status # "none"
    BY <1>1, <1>2 DEF Safe, StateLinksItsJob
  <2>2. job[j].number # job[c].number
    BY <1>2, <1>4, <2>1 DEF JobNumbersUnique
  <2>3. job[j].number < job[c].number
    BY <1>2, <2>2, <1>type
  <2>4. CASE job[c].started_by = "admin"
    BY <1>1, <1>2, <2>3, <2>4
  <2>5. CASE job[c].started_by = "(scheduled)"
    <3>1. \/ job[j].slot < job[c].slot
          \/ \E m \in JobIds : /\ job[m].schedule = job[j].schedule
                               /\ job[m].started_by = "admin"
                               /\ job[j].number < job[m].number
      BY <1>1, <1>2, <2>3, <2>5 DEF SlotsGrow, Automatic
    <3> QED
      BY <1>1, <1>2, <3>1, <1>type
  <2> QED
    BY <1>2, <2>4, <2>5
<1> QED
  BY <1>3, <1>4

\* A claim of a poll is of an occurrence after the checkpoint.
LEMMA GrowStep ==
  ASSUME Safe, NumberStillFree, JobNumbersUnique, StillDue, CheckpointIsLatest, SlotsGrow, [Next]_vars
  PROVE  SlotsGrow'
<1> SUFFICES ASSUME NEW j \in JobIds, NEW k \in JobIds,
                    job'[j].started_by = "(scheduled)", job'[k].started_by = "(scheduled)",
                    job'[j].number < job'[k].number,
                    job'[j].schedule = job'[k].schedule, job'[j].schedule # Nobody
             PROVE  Grows(j, k)'
  BY DEF SlotsGrow, Automatic, Grows
<1>type. TypeOK
  BY DEF Safe
<1>num. \A i \in JobIds : /\ job[i].number \in Int /\ job[i].slot \in Int
                          /\ job[i].schedule \in Schedules \cup {Nobody}
  BY <1>type DEF TypeOK, JobRows, Instants
\* Rows that are as before, for two jobs and all that may lie between them.
<1>same. ASSUME \A m \in JobIds : /\ job'[m].number = job[m].number
                                  /\ job'[m].slot = job[m].slot
                                  /\ job'[m].started_by = job[m].started_by
                                  /\ job[m].schedule = job[j].schedule => job'[m].schedule = job'[j].schedule,
                job[j].schedule = job[k].schedule, job[j].schedule # Nobody
         PROVE  Grows(j, k)'
  <2>1. Grows(j, k)
    BY <1>same DEF SlotsGrow, Automatic, Grows
  <2> QED
    BY <2>1, <1>same DEF Grows
<1>1. CASE KeepsHistory
  BY <1>1, <1>same DEF KeepsHistory, KeepsJob
<1>2. ASSUME NEW p \in Procs, NEW s \in Schedules, DeleteSchedule(p, s) PROVE Grows(j, k)'
  <2>1. \A m \in JobIds :
             /\ job'[m].schedule = IF job[m].schedule = s THEN Nobody ELSE job[m].schedule
             /\ job'[m].number = job[m].number
             /\ job'[m].slot = job[m].slot
             /\ job'[m].started_by = job[m].started_by
    BY <1>2, <1>type, DeleteWrites
  <2>2. job[j].schedule # s /\ job[k].schedule # s
    BY <2>1
  <2> QED
    BY <2>1, <2>2, <1>same
<1>3. ASSUME NEW p \in Procs, NEW i \in JobIds, NEW source, NEW startedBy, NEW s, NEW slot,
             AddsJob(i, p, source, startedBy, s, slot), pc[p] \in {"claim", "mclaim"},
             startedBy = "(scheduled)" => /\ s \in Schedules
                                          /\ state[s].status # "absent" => state[s].slot < slot
      PROVE  Grows(j, k)'
  <2>1. /\ job'[i].number = number[p] /\ job'[i].schedule = s /\ job'[i].slot = slot
        /\ job'[i].started_by = startedBy /\ job[i].schedule = Nobody
        /\ \A m \in JobIds : m # i => job'[m] = job[m]
    BY <1>3 DEF AddsJob
  <2>2. number[p] \in Int /\ \A m \in JobIds : job[m].number < number[p]
    BY <1>3, <1>type DEF NumberStillFree, TypeOK
  <2>3. j # i
    <3>1. k # i => job'[k].number < number[p]
      BY <2>1, <2>2
    <3> QED
      BY <3>1, <2>1, <2>2, <1>num
  <2>4. job'[j] = job[j] /\ \A m \in JobIds : job[m].schedule # Nobody => job'[m] = job[m]
    BY <2>1, <2>3
  <2>5. CASE k # i
    <3>1. job'[k] = job[k]
      BY <2>1, <2>5
    <3>2. Grows(j, k)
      BY <2>4, <3>1 DEF SlotsGrow, Automatic, Grows
    <3> QED
      BY <2>4, <3>1, <3>2 DEF Grows
  <2>6. CASE k = i
    <3>1. s \in Schedules /\ job[j].schedule = s
      BY <2>1, <2>4, <2>6, <1>3
    <3>2. state[s].status # "absent"
      BY <2>4, <3>1, CheckpointGrows DEF Automatic
    <3>3. state[s].slot < slot
      BY <2>1, <2>6, <3>2, <1>3
    <3>s. state[s].slot \in Int /\ slot \in Int
      <4>1. state[s].slot \in Int
        BY <3>1, <1>type DEF TypeOK, StateRows, Instants
      <4>2. job' \in [JobIds -> JobRows]
        BY TypeStep DEF TypeOK
      <4> QED
        BY <4>1, <4>2, <2>1 DEF JobRows, Instants
    <3>4. CASE job[j].slot <= state[s].slot
      <4>1. job[j].slot < slot
        BY <3>3, <3>4, <3>s, <1>num
      <4> QED
        BY <4>1, <2>1, <2>4, <2>6 DEF Grows
    <3>5. ASSUME NEW m \in JobIds, job[m].schedule = s, job[m].started_by = "admin",
                 job[j].number < job[m].number
          PROVE  Grows(j, k)'
      <4>1. job'[m] = job[m]
        BY <3>1, <3>5, <2>4, Constants
      <4>2. job'[m].number < job'[k].number
        BY <4>1, <2>1, <2>2, <2>6
      <4> QED
        BY <3>1, <3>5, <4>1, <4>2, <2>4 DEF Grows
    <3> QED
      BY <2>4, <3>1, <3>4, <3>5, CheckpointGrows DEF Automatic
  <2> QED
    BY <2>5, <2>6
<1>4. ASSUME NEW p \in Procs, ManualClaim(p) PROVE Grows(j, k)'
  <2>1. PICK i \in JobIds : AddsJob(i, p, "manual", "admin", Nobody, Never)
    BY <1>4, ManualClaimWrites
  <2> QED
    BY <1>4, <2>1, <1>3 DEF ManualClaim
<1>5. ASSUME NEW p \in Procs, Claim(p) PROVE Grows(j, k)'
  <2>1. target[p] \in Schedules /\ pc[p] = "claim"
    BY <1>5, ClaimWrites DEF Claim
  <2>2. PICK i \in JobIds : AddsJob(i, p, "scheduled", Starter(p), target[p], Slot(p))
    BY <1>5, ClaimWrites
  <2>3. Starter(p) = "(scheduled)" => p \in Pollers
    BY DEF Starter
  <2>4. p \in Pollers /\ state[target[p]].status # "absent" => state[target[p]].slot < Slot(p)
    BY <2>1 DEF StillDue, Checkpoint
  <2> QED
    BY <1>5, <2>1, <2>2, <2>3, <2>4, <1>3
<1> QED
  BY <1>1, <1>2, <1>4, <1>5, HistoryWrites

\* The order of the occurrences is part of the inductive invariant.
LEMMA OrderedAlways == Spec => []Ordered
<1>1. Init => Ordered
  <2> SUFFICES ASSUME Init PROVE Ordered
    OBVIOUS
  <2>1. NumberStillFree /\ StillDue
    BY DEF Init, NumberStillFree, StillDue, Procs
  <2>2. \A j \in JobIds : job[j] = NoJob
    BY DEF Init
  <2>3. JobNumbersUnique /\ SlotsGrow
    BY <2>2 DEF NoJob, JobNumbersUnique, SlotsGrow
  <2>4. CheckpointIsLatest
    BY <2>2 DEF Init, NoJob, NoState, CheckpointIsLatest
  <2> QED
    BY <2>1, <2>3, <2>4 DEF Ordered
<1>2. Safe /\ Ordered /\ [Next]_vars => Ordered'
  BY NumbersStep, CheckpointStep, DueStep, GrowStep DEF Ordered
<1> QED
  BY <1>1, <1>2, SafeAlways, PTL DEF Spec

\* The scheduler starts an occurrence a second time only after a Run Now in between,
\* for any number of processes, schedules, edits and deaths.
THEOREM ReplayFollowsRunNow == Spec => []ReplayNeedsRunNow
<1>1. Safe /\ Ordered => ReplayNeedsRunNow
  <2> SUFFICES ASSUME Safe, Ordered, NEW j \in JobIds, NEW k \in JobIds,
                      Automatic(j), Automatic(k), job[j].number < job[k].number,
                      job[j].schedule = job[k].schedule, job[j].schedule # Nobody,
                      job[j].slot = job[k].slot
               PROVE  \E m \in JobIds : /\ job[m].schedule = job[j].schedule
                                        /\ job[m].started_by = "admin"
                                        /\ job[j].number < job[m].number
                                        /\ job[m].number < job[k].number
    BY DEF ReplayNeedsRunNow
  <2>1. ~ (job[j].slot < job[k].slot)
    BY DEF Safe, TypeOK, JobRows, Instants
  <2> QED
    BY <2>1 DEF Ordered, SlotsGrow
<1> QED
  BY <1>1, SafeAlways, OrderedAlways, PTL

-----------------------------------------------------------------------------
(* The ledger *)

Backing == {"resolve", "backup", "mbackup"}
Ending  == {"record", "close"}

\* Who executes is alone, so the ledger's two sets are about one job.
LEMMA OneAtWork ==
  ASSUME Safe, NEW p \in Procs, pc[p] \in Writing
  PROVE  /\ JobsAt(Backing) = IF pc[p] \in Backing THEN {mine[p]} ELSE {}
         /\ JobsAt(Ending) = IF pc[p] \in Ending THEN {mine[p]} ELSE {}
<1>1. \A q \in Procs : pc[q] \in Backing \cup Ending => q = p
  BY Exclusive DEF Backing, Ending, Writing
<1> QED
  BY <1>1 DEF JobsAt

\* A step of one process, seen by the ledger.
Moves(p) ==
  \A q \in Procs : q # p => /\ pc'[q] = pc[q]
                            /\ mine'[q] = mine[q]

\* The ledger after a step of the process that writes.
LEMMA StillOneAtWork ==
  ASSUME Safe, NEW p \in Procs, pc[p] \in Writing, Moves(p)
  PROVE  /\ JobsAt(Backing)' = IF pc'[p] \in Backing THEN {mine'[p]} ELSE {}
         /\ JobsAt(Ending)' = IF pc'[p] \in Ending THEN {mine'[p]} ELSE {}
<1>1. \A q \in Procs : pc'[q] \in Backing \cup Ending => q = p
  BY Exclusive DEF Backing, Ending, Writing, Moves
<1> QED
  BY <1>1 DEF JobsAt

\* The statuses of the jobs before and after, as the ledger sees them.
LEMMA LedgerOutcome ==
  ASSUME NEW j \in JobIds, NEW r,
         \A k \in JobIds : job'[k].status = IF k = j THEN r ELSE job[k].status
  PROVE  [k \in JobIds |-> job[k].status]' = [[k \in JobIds |-> job[k].status] EXCEPT ![j] = r]
OBVIOUS

\* Every step follows the ledger.
LEMMA LedgerStep == Safe /\ [Next]_vars => [Ledger!Next]_(Ledger!ledger)
<1> SUFFICES ASSUME Safe, [Next]_vars PROVE Ledger!Next \/ UNCHANGED Ledger!ledger
  BY DEF Ledger!ledger
<1> USE DEF rows, locks, run, poll, bounds
<1>type. TypeOK
  BY DEF Safe
<1>sets. /\ {"resolve", "backup", "mbackup"} = Backing /\ {"record", "close"} = Ending
         /\ Backing \cup Ending = Executing /\ Executing \subseteq Writing
         /\ Backing \cap Ending = {}
  BY DEF Backing, Ending, Executing, Writing
\* Five ways to follow it.
<1>stutter. ASSUME \A j \in JobIds : job'[j].status = job[j].status,
                   JobsAt(Backing)' = JobsAt(Backing), JobsAt(Ending)' = JobsAt(Ending)
            PROVE  UNCHANGED Ledger!ledger
  BY <1>stutter, <1>sets DEF Ledger!ledger
<1>moves. ASSUME NEW p \in Procs, NEW place, Goto(p, place),
                 mine' = mine \/ (\E v : mine' = [mine EXCEPT ![p] = v])
          PROVE  /\ Moves(p)
                 /\ pc'[p] = place
                 /\ mine' = mine => mine'[p] = mine[p]
  BY <1>moves, <1>type DEF TypeOK, Goto, Moves
<1>aside. ASSUME NEW p \in Procs, Moves(p), pc[p] \notin Executing, pc'[p] \notin Executing
          PROVE  JobsAt(Backing)' = JobsAt(Backing) /\ JobsAt(Ending)' = JobsAt(Ending)
  <2>1. \A q \in Procs, places \in {Backing, Ending} :
          /\ pc'[q] \in places <=> pc[q] \in places
          /\ pc[q] \in places => mine'[q] = mine[q]
    BY <1>aside, <1>sets DEF Moves
  <2> QED
    BY <2>1 DEF JobsAt
<1>start. ASSUME NEW p \in Procs, NEW j \in JobIds, pc[p] \in Writing \ Executing, Moves(p),
                 pc'[p] \in Backing, mine'[p] = j, job[j].status = "none",
                 \A k \in JobIds : job'[k].status = IF k = j THEN "running" ELSE job[k].status
          PROVE  Ledger!Next
  <2>1. /\ JobsAt(Backing) = {} /\ JobsAt(Ending) = {}
        /\ JobsAt(Backing)' = {j} /\ JobsAt(Ending)' = {}
    BY <1>start, <1>sets, OneAtWork, StillOneAtWork
  <2> QED
    BY <2>1, <1>start, <1>sets, LedgerOutcome DEF Ledger!Next, Ledger!Start, Ledger!Active
<1>conclude. ASSUME NEW p \in Procs, pc[p] \in Backing, Moves(p), pc'[p] \in Ending,
                    mine'[p] = mine[p],
                    \/ \A k \in JobIds : job'[k].status = job[k].status
                    \/ \E r \in Terminal : SetsJob(mine[p], r)
             PROVE  Ledger!Next
  <2>0. mine[p] \in JobIds
    BY <1>conclude, <1>sets, Executor
  <2>1. /\ JobsAt(Backing) = {mine[p]} /\ JobsAt(Ending) = {}
        /\ JobsAt(Backing)' = {} /\ JobsAt(Ending)' = {mine[p]}
    BY <1>conclude, <1>sets, OneAtWork, StillOneAtWork
  <2>2. \/ [k \in JobIds |-> job[k].status]' = [k \in JobIds |-> job[k].status]
        \/ \E r \in Terminal : [k \in JobIds |-> job[k].status]'
                             = [[k \in JobIds |-> job[k].status] EXCEPT ![mine[p]] = r]
    <3>1. CASE \A k \in JobIds : job'[k].status = job[k].status
      BY <3>1
    <3>2. ASSUME NEW r \in Terminal, SetsJob(mine[p], r)
          PROVE  [k \in JobIds |-> job[k].status]'
                   = [[k \in JobIds |-> job[k].status] EXCEPT ![mine[p]] = r]
      BY <3>2, <2>0, LedgerOutcome DEF SetsJob
    <3> QED
      BY <1>conclude, <3>1, <3>2
  <2> QED
    BY <2>0, <2>1, <2>2, <1>sets DEF Ledger!Next, Ledger!Conclude
<1>finish. ASSUME NEW p \in Procs, NEW r \in Terminal, pc[p] \in Executing, Moves(p),
                  pc'[p] \notin Executing, SetsJob(mine[p], r)
           PROVE  Ledger!Next
  <2>0. mine[p] \in JobIds
    BY <1>finish, <1>sets, Executor
  <2>1. /\ mine[p] \in JobsAt(Backing) \cup JobsAt(Ending)
        /\ JobsAt(Backing)' = {} /\ JobsAt(Ending)' = {}
    BY <1>finish, <1>sets, OneAtWork, StillOneAtWork
  <2>2. [k \in JobIds |-> job[k].status]' = [[k \in JobIds |-> job[k].status] EXCEPT ![mine[p]] = r]
    BY <1>finish, <2>0, LedgerOutcome DEF SetsJob
  <2> QED
    BY <2>0, <2>1, <2>2, <1>sets DEF Ledger!Next, Ledger!Finish, Ledger!Active
<1>1. CASE UNCHANGED <<job, pc, mine>>
  BY <1>1, <1>stutter DEF JobsAt
<1>2. ASSUME NEW p \in Procs,
             \/ PollBegin(p) \/ PollEnd(p) \/ NotFound(p) \/ Decline(p) \/ Defer(p)
             \/ OwnWriter(p) \/ ReadNumber(p) \/ ManualBackup(p)
             \/ \E s \in Schedules : PollSchedule(p, s) \/ RunNow(p, s)
      PROVE  UNCHANGED Ledger!ledger
  <2>1. pc[p] \notin Executing /\ UNCHANGED job
    BY <1>2 DEF PollBegin, PollEnd, NotFound, Decline, Defer, OwnWriter, ReadNumber,
                ManualBackup, PollSchedule, RunNow, Executing
  <2>2. PICK place \in {"poll", "idle", "load", "number", "mnumber", "claim", "mclaim"} :
          /\ Goto(p, place)
          /\ mine' = mine \/ (\E v : mine' = [mine EXCEPT ![p] = v])
    BY <1>2 DEF PollBegin, PollEnd, NotFound, Decline, Defer, OwnWriter, ReadNumber,
                ManualBackup, PollSchedule, RunNow, Leave, Forget
  <2>3. Moves(p) /\ pc'[p] \notin Executing
    BY <2>2, <1>moves DEF Executing
  <2> QED
    BY <2>1, <2>3, <1>aside, <1>stutter
<1>3. ASSUME NEW p \in Procs, Claim(p) PROVE Ledger!Next
  <2>1. PICK i \in JobIds : AddsJob(i, p, "scheduled", Starter(p), target[p], Slot(p))
    BY <1>3, ClaimWrites
  <2>2. pc[p] \in Writing \ Executing /\ Goto(p, "resolve")
    BY <1>3 DEF Claim, Writing, Executing
  <2>3. mine' = [mine EXCEPT ![p] = i] /\ mine'[p] = i
    BY <2>1, <1>type DEF AddsJob, TypeOK
  <2>4. Moves(p) /\ pc'[p] \in Backing
    BY <2>2, <2>3, <1>moves DEF Backing
  <2>5. /\ job[i].status = "none"
        /\ \A k \in JobIds : job'[k].status = IF k = i THEN "running" ELSE job[k].status
    BY <2>1 DEF AddsJob
  <2> QED
    BY <2>2, <2>3, <2>4, <2>5, <1>start
<1>4. ASSUME NEW p \in Procs, ManualClaim(p) PROVE Ledger!Next
  <2>1. PICK i \in JobIds : AddsJob(i, p, "manual", "admin", Nobody, Never)
    BY <1>4, ManualClaimWrites
  <2>2. pc[p] \in Writing \ Executing /\ Goto(p, "mbackup")
    BY <1>4 DEF ManualClaim, Writing, Executing
  <2>3. mine' = [mine EXCEPT ![p] = i] /\ mine'[p] = i
    BY <2>1, <1>type DEF AddsJob, TypeOK
  <2>4. Moves(p) /\ pc'[p] \in Backing
    BY <2>2, <2>3, <1>moves DEF Backing
  <2>5. /\ job[i].status = "none"
        /\ \A k \in JobIds : job'[k].status = IF k = i THEN "running" ELSE job[k].status
    BY <2>1 DEF AddsJob
  <2> QED
    BY <2>2, <2>3, <2>4, <2>5, <1>start
<1>5. ASSUME NEW p \in Procs, Refuse(p) \/ Fail(p) PROVE Ledger!Next \/ UNCHANGED Ledger!ledger
  <2>1. Goto(p, "close") /\ UNCHANGED <<job, mine>> /\ pc[p] \in {"resolve", "backup", "record"}
    BY <1>5 DEF Refuse, Fail
  <2>2. Moves(p) /\ pc'[p] = "close" /\ mine'[p] = mine[p]
    BY <2>1, <1>moves
  <2>3. CASE pc[p] = "record"
    <3>1. /\ JobsAt(Backing)' = JobsAt(Backing) /\ JobsAt(Ending)' = JobsAt(Ending)
      BY <2>2, <2>3, OneAtWork, StillOneAtWork DEF Backing, Ending, Writing
    <3> QED
      BY <3>1, <2>1, <1>stutter
  <2>4. CASE pc[p] \in {"resolve", "backup"}
    BY <2>1, <2>2, <2>4, <1>conclude DEF Backing, Ending
  <2> QED
    BY <2>1, <2>3, <2>4
<1>6. ASSUME NEW p \in Procs, FinishJob(p) PROVE Ledger!Next
  <2>1. Goto(p, "record") /\ UNCHANGED mine /\ pc[p] = "backup" /\ mine[p] \in JobIds
    BY <1>6, Executor DEF FinishJob, Executing
  <2>2. PICK r \in Results : job' = [job EXCEPT ![mine[p]].status = r]
    BY <1>6 DEF FinishJob
  <2>3. r \in Terminal /\ SetsJob(mine[p], r)
    BY <2>1, <2>2, <1>type, SetsJobIntro DEF Terminal
  <2>4. Moves(p) /\ pc'[p] = "record" /\ mine'[p] = mine[p]
    BY <2>1, <1>moves
  <2> QED
    BY <2>1, <2>3, <2>4, <1>conclude DEF Backing, Ending
<1>7. ASSUME NEW p \in Procs, Proceed(p) \/ RecordState(p) PROVE UNCHANGED Ledger!ledger
  <2>1. /\ UNCHANGED <<job, mine>>
        /\ \/ pc[p] = "resolve" /\ Goto(p, "backup")
           \/ pc[p] = "record" /\ Goto(p, "close")
    BY <1>7 DEF Proceed, RecordState
  <2>2. /\ Moves(p) /\ mine'[p] = mine[p]
        /\ \/ pc[p] = "resolve" /\ pc'[p] = "backup"
           \/ pc[p] = "record" /\ pc'[p] = "close"
    <3>1. CASE Goto(p, "backup") /\ pc[p] = "resolve"
      BY <3>1, <2>1, <1>moves
    <3>2. CASE Goto(p, "close") /\ pc[p] = "record"
      BY <3>2, <2>1, <1>moves
    <3> QED
      BY <2>1, <3>1, <3>2
  <2>3. JobsAt(Backing)' = JobsAt(Backing) /\ JobsAt(Ending)' = JobsAt(Ending)
    BY <2>2, OneAtWork, StillOneAtWork DEF Backing, Ending, Writing
  <2> QED
    BY <2>1, <2>3, <1>stutter
<1>8. ASSUME NEW p \in Procs, Close(p) \/ ManualFinish(p) PROVE Ledger!Next
  <2>1. PICK r \in Terminal : job' = [job EXCEPT ![mine[p]].status = r]
    BY <1>8, Executor DEF Close, ManualFinish, Terminal
  <2>2. pc[p] \in Executing /\ mine[p] \in JobIds
    BY <1>8, Executor DEF Close, ManualFinish, Executing
  <2>3. PICK place \in {"poll", "idle"} : Goto(p, place) /\ \E v : mine' = [mine EXCEPT ![p] = v]
    BY <1>8 DEF Close, ManualFinish, Leave, Forget
  <2>4. Moves(p) /\ pc'[p] \notin Executing
    BY <2>3, <1>moves DEF Executing
  <2> QED
    BY <2>1, <2>2, <2>4, <1>type, SetsJobIntro, <1>finish
<1>9. ASSUME NEW p \in Procs, Recover(p) PROVE Ledger!Next \/ UNCHANGED Ledger!ledger
  <2>1. Goto(p, "decide") /\ UNCHANGED mine /\ pc[p] = "load"
    BY <1>9 DEF Recover, run
  <2>2. Moves(p) /\ pc[p] \notin Executing /\ pc'[p] \notin Executing
    BY <2>1, <1>moves DEF Executing
  <2>3. JobsAt(Backing)' = JobsAt(Backing) /\ JobsAt(Ending)' = JobsAt(Ending)
    BY <2>2, <1>aside
  <2>4. CASE UNCHANGED <<state, job>>
    BY <2>4, <2>3, <1>stutter
  <2>5. ASSUME NEW r \in Terminal, NEW j \in JobIds, Settles(p, j, r)
        PROVE  Ledger!Next \/ UNCHANGED Ledger!ledger
    <3>1. target[p] \in Schedules /\ job[j].schedule = target[p] /\ target[p] # Nobody
      BY <1>9, <2>5, RecoverWrites, Constants DEF Settles
    <3>2. CASE job[j].status \in Terminal
      <4>1. \A k \in JobIds : job'[k].status = job[k].status
        BY <2>5, <3>2 DEF Settles, SetsJob
      <4> QED
        BY <4>1, <2>3, <1>stutter
    <3>3. CASE job[j].status \notin Terminal
      <4>1. job[j].status = "running" /\ r = "failed"
        BY <2>5, <3>1, <3>3, <1>type
        DEF Settles, Safe, StateLinksItsJob, TypeOK, JobRows, JobStatuses
      \* Its executor would hold the schedule's lock, which p holds.
      <4>2. ASSUME NEW q \in Procs, pc[q] \in Executing PROVE mine[q] # j
        <5>1. q # p /\ pc[p] \in Holding
          BY <4>2, <2>1 DEF Executing, Holding
        <5>2. CASE pc[q] = "mbackup"
          BY <5>2, <3>1, Executor
        <5>3. CASE pc[q] # "mbackup"
          BY <5>1, <5>3, <4>2, <3>1, Executor, Exclusive DEF Executing, Holding
        <5> QED
          BY <5>2, <5>3
      <4>3. j \notin JobsAt(Backing) \cup JobsAt(Ending)
        BY <4>2, <1>sets DEF JobsAt
      <4>4. [k \in JobIds |-> job[k].status]'
              = [[k \in JobIds |-> job[k].status] EXCEPT ![j] = "failed"]
        BY <2>5, <4>1, LedgerOutcome DEF Settles, SetsJob
      <4> QED
        BY <4>1, <4>3, <4>4, <2>3, <1>sets
        DEF Ledger!Next, Ledger!Settle, Ledger!Active
    <3> QED
      BY <3>2, <3>3
  <2>6. \/ UNCHANGED <<state, job>>
        \/ \E r \in Terminal, j \in JobIds : Settles(p, j, r)
    BY <1>9, RecoverWrites
  <2> QED
    BY <2>4, <2>5, <2>6
<1>10. ASSUME NEW p \in Procs, NEW s \in Schedules, DeleteSchedule(p, s)
       PROVE  UNCHANGED Ledger!ledger
  <2>1. \A j \in JobIds : job'[j].status = job[j].status
    BY <1>10, <1>type DEF DeleteSchedule, TypeOK, JobRows
  <2>2. UNCHANGED <<pc, mine>>
    BY <1>10 DEF DeleteSchedule
  <2>3. JobsAt(Backing)' = JobsAt(Backing) /\ JobsAt(Ending)' = JobsAt(Ending)
    BY <2>2 DEF JobsAt
  <2> QED
    BY <2>1, <2>3, <1>stutter
<1>11. ASSUME NEW p \in Procs, Die(p) PROVE Ledger!Next \/ UNCHANGED Ledger!ledger
  <2>1. UNCHANGED job /\ Goto(p, "idle") /\ mine' = [mine EXCEPT ![p] = Nobody]
    BY <1>11 DEF Die, Forget
  <2>2. Moves(p) /\ pc'[p] = "idle" /\ "idle" \notin Executing
    BY <2>1, <1>type DEF TypeOK, Goto, Moves, Executing
  <2>3. CASE pc[p] \notin Executing
    BY <2>1, <2>2, <2>3, <1>aside, <1>stutter
  <2>4. CASE pc[p] \in Executing
    <3>1. /\ mine[p] \in JobIds
          /\ mine[p] \in JobsAt(Backing) \cup JobsAt(Ending)
          /\ JobsAt(Backing)' = {} /\ JobsAt(Ending)' = {}
      BY <2>2, <2>4, <1>sets, Executor, OneAtWork, StillOneAtWork
    <3> QED
      BY <3>1, <2>1, <1>sets DEF Ledger!Next, Ledger!Abandon, Ledger!Active
  <2> QED
    BY <2>3, <2>4
<1>12. ASSUME NEW p \in Procs, NEW s \in Schedules,
              PollBusy(p, s) \/ CreateSchedule(p, s) \/ UpdateSchedule(p, s)
       PROVE  UNCHANGED <<job, pc, mine>>
  BY <1>12 DEF PollBusy, CreateSchedule, UpdateSchedule
<1>13. Tick \/ UNCHANGED vars => UNCHANGED <<job, pc, mine>>
  BY DEF Tick, vars
<1> QED
  BY <1>1, <1>2, <1>3, <1>4, <1>5, <1>6, <1>7, <1>8, <1>9, <1>10, <1>11, <1>12, <1>13
  DEF Next, Work, Ask

\* The jobs of NcmSchedule follow the abstract ledger: one backup at a time, each
\* started once, its result from its live executor, an orphan settled as failed.
THEOREM LedgerImplemented == Spec => ImplementsLedger
<1>1. Init => Ledger!Init
  BY DEF Init, NoJob, Ledger!Init, JobsAt
<1>2. Safe /\ [Next]_vars => [Ledger!Next]_(Ledger!ledger)
  BY LedgerStep
<1> QED
  BY <1>1, <1>2, SafeAlways, PTL DEF Spec, ImplementsLedger, Ledger!Spec

=============================================================================
