--------------------------- MODULE SecurityAudits ----------------------------
(***************************************************************************)
(* Security audits of the fleet: services/scheduled_audit.py and the audit *)
(* handlers of api/routes_security.py.                                     *)
(*                                                                         *)
(* A batch audits its devices one after the other, with a commit before    *)
(* and after each.  The daily poll and "Run now" exclude each other by a   *)
(* lock; a bulk audit and a live audit take none.  What a web request does *)
(* is gated between two commits, so it holds the gate while it waits for a *)
(* device; the poll is not gated at all.                                   *)
(*                                                                         *)
(* Time is counted in half days; a day's audit is due in the half the      *)
(* schedule says.  That it moves to another zone shifts its instant as an  *)
(* edit of the time does, and is no edit of its own here.                  *)
(***************************************************************************)
EXTENDS DeviceInventory

CONSTANTS
  Audits,      \* audits, each used once
  MaxTime

VARIABLES
  settings,    \* the row of audit_schedule_settings
  now,
  auditLock,   \* who holds 'security-audit-schedule'
  batch,       \* rows of security_audit_batches, by display_number
  run,         \* rows of security_audit_runs, by <<audit, device>>
  exec,        \* the locals of each audit
  claimed,     \* history: the slots the poll has claimed
  reopened     \* history: those behind which Run Now has stored an earlier slot since

slotVars  == <<claimed, reopened>>
auditVars == <<settings, now, auditLock, batch, run, exec, slotVars>>

ASSUME AuditsAssumption ==
  MaxTime \in Nat /\ None \notin Audits \cup Int /\ Audits \cap Tasks = {}

NoExec == [kind |-> None, at |-> "idle", number |-> 0, total |-> 0, todo |-> {},
           current |-> None, ok |-> 0, bad |-> 0]

Working(x) == exec[x].at \notin {"idle", "done", "lost"}
Gated(x)   == exec[x].kind # "scheduled"

\* A gated step needs the gate; an ungated one does not ask.
Admitted(x) == Gated(x) => MayTakeGate(x)
HoldGate(x) == gate' = IF Gated(x) THEN x ELSE gate
DropGate(x) == gate' = IF gate = x THEN None ELSE gate

Others == <<device, retired, groups, licence, equipment, at, work, touched, drift>>

InitAudits ==
  /\ settings \in [enabled : {TRUE}, zoned : BOOLEAN, configured : BOOLEAN, time : {1},
                   slot : {None}, status : {None}]
  /\ now = 0 /\ auditLock = None
  /\ batch = <<>> /\ run = <<>>
  /\ exec = [x \in Audits |-> NoExec]
  /\ claimed = {} /\ reopened = {}

-----------------------------------------------------------------------------
(* The daily slot *)

DayOf(t)      == t \div 2
TimeOf(t)     == t % 2
Occurrence(t) == 2 * DayOf(t) + settings.time
DueSlot(t)    == IF t >= Occurrence(t) THEN Occurrence(t) ELSE Occurrence(t) - 2

\* Mutant: a slot already claimed is due again.
DueAgain(last) ==
  IF settings.zoned THEN last # None => last <= DueSlot(now)
  ELSE now >= Occurrence(now) /\ (last # None => DayOf(last) <= DayOf(now))

\* Without a time zone the days are compared, and yesterday is never caught up.
ShouldRunNow(last) ==
  IF settings.zoned THEN last # None => last < DueSlot(now)
  ELSE now >= Occurrence(now) /\ (last # None => DayOf(last) < DayOf(now))

Tick == /\ now < MaxTime /\ now' = now + 1
        /\ UNCHANGED <<inventory, settings, auditLock, batch, run, exec, slotVars>>

-----------------------------------------------------------------------------
(* Who starts an audit *)

Start(x, kind, place, ids) ==
  exec' = [exec EXCEPT ![x] = [NoExec EXCEPT !.kind = kind, !.at = place, !.todo = ids]]

\* Holding the lock proves that whoever left "running" behind is gone.
Recover ==
  /\ auditLock = None
  /\ settings.status = "running"
  /\ settings' = [settings EXCEPT !.status = "failed"]
  /\ UNCHANGED <<inventory, now, auditLock, batch, run, exec, slotVars>>

\* A poll that has recovered, or had nothing to recover, commits its claim
\* before the first device; without credentials it is blocked.
ClaimSlot(x) ==
  /\ exec[x].at = "idle" /\ auditLock = None
  /\ settings.status # "running"
  /\ settings.enabled
  /\ ShouldRunNow(settings.slot)
  /\ settings' = [settings EXCEPT !.slot = DueSlot(now),
                    !.status = IF settings.configured THEN "running" ELSE "blocked"]
  /\ claimed' = claimed \cup {DueSlot(now)}
  /\ reopened' = {c \in reopened : c > DueSlot(now)}
  /\ IF settings.configured
       THEN auditLock' = x /\ Start(x, "scheduled", "list", Devices)
       ELSE UNCHANGED <<auditLock, exec>>
  /\ UNCHANGED <<inventory, now, batch, run>>

\* POST /schedule/run-now: without a zone it stores the instant itself.
RunNow(x) ==
  /\ exec[x].at = "idle" /\ auditLock = None /\ gate = None
  /\ settings.configured
  /\ settings' = [settings EXCEPT !.slot = IF settings.zoned THEN DueSlot(now) ELSE now,
                                  !.status = "running"]
  /\ reopened' = {c \in claimed : c > settings'.slot}
  /\ auditLock' = x
  /\ Start(x, "manual", "list", Devices)
  /\ UNCHANGED <<inventory, now, batch, run, claimed>>

\* POST /audit/bulk: the chosen devices, no lock.
BulkAudit(x) ==
  /\ exec[x].at = "idle" /\ gate = None
  /\ settings.configured
  /\ \E ids \in SUBSET DOMAIN device \ {{}} : Start(x, "bulk", "list", ids)
  /\ gate' = x
  /\ UNCHANGED <<Others, settings, now, auditLock, batch, run, slotVars>>

\* POST /devices/{id}/audit/live: one run, no batch.
LiveAudit(x) ==
  /\ exec[x].at = "idle" /\ gate = None
  /\ settings.configured
  /\ \E d \in DOMAIN device : Start(x, "live", "next", {d})
  /\ gate' = x
  /\ UNCHANGED <<Others, settings, now, auditLock, batch, run, slotVars>>

\* PUT of the device credentials: stored in the same row.
SaveCredentials ==
  /\ gate = None
  /\ ~settings.configured
  /\ settings' = [settings EXCEPT !.configured = TRUE]
  /\ UNCHANGED <<inventory, now, auditLock, batch, run, exec, slotVars>>

\* PUT /schedule, under the lock and the gate.
UpdateSchedule ==
  /\ auditLock = None /\ gate = None
  /\ \E enabled \in BOOLEAN, zoned \in BOOLEAN, time \in {0, 1} :
       /\ enabled => settings.configured
       /\ settings' = [settings EXCEPT !.enabled = enabled, !.zoned = zoned, !.time = time]
  /\ settings' # settings
  /\ UNCHANGED <<inventory, now, auditLock, batch, run, exec, slotVars>>

-----------------------------------------------------------------------------
(* One batch *)

\* The devices and the highest number are read together ...
ListDevices(x) ==
  /\ exec[x].at = "list" /\ Admitted(x)
  /\ LET listed == {d \in exec[x].todo \cap DOMAIN device : device[d].enabled} IN
     exec' = [exec EXCEPT ![x].todo = listed, ![x].total = Cardinality(listed),
                          ![x].number = Cardinality(DOMAIN batch) + 1, ![x].at = "number"]
  /\ HoldGate(x)
  /\ UNCHANGED <<Others, settings, now, auditLock, batch, run, slotVars>>

Stop(x, place) == exec' = [exec EXCEPT ![x] = [NoExec EXCEPT !.at = place]]

\* What an exception leaves behind: the poll records a failure, "Run now" does
\* not, and a batch or a run under way stays as it is.
Raise(x) ==
  /\ Stop(x, "done")
  /\ settings' = IF exec[x].kind = "scheduled" THEN [settings EXCEPT !.status = "failed"]
                 ELSE settings
  /\ auditLock' = IF auditLock = x THEN None ELSE auditLock
  /\ DropGate(x)

\* ... and the row is inserted later: a number taken meanwhile raises.
CommitBatch(x) ==
  /\ exec[x].at = "number"
  /\ IF exec[x].number \in DOMAIN batch
       THEN Raise(x) /\ UNCHANGED batch
       ELSE /\ batch' = [n \in DOMAIN batch \cup {exec[x].number} |->
                           IF n = exec[x].number
                             THEN [audit |-> x, status |-> "running", total |-> exec[x].total,
                                   succeeded |-> 0, failed |-> 0]
                             ELSE batch[n]]
            /\ exec' = [exec EXCEPT ![x].at = "next"]
            /\ DropGate(x)
            /\ UNCHANGED <<settings, auditLock>>
  /\ UNCHANGED <<Others, now, run, slotVars>>

NewRun(x, d) ==
  run' = [k \in DOMAIN run \cup {<<x, d>>} |->
            IF k = <<x, d>> THEN [linked |-> TRUE, status |-> "running"] ELSE run[k]]

\* A device deleted since it was listed raises, outside the per-device try.
BeginRun(x, d) ==
  /\ exec[x].at = "next" /\ Admitted(x)
  /\ d \in exec[x].todo
  /\ IF d \in DOMAIN device
       THEN /\ NewRun(x, d)
            /\ exec' = [exec EXCEPT ![x].at = "ssh", ![x].current = d]
            /\ HoldGate(x)
            /\ UNCHANGED <<settings, auditLock>>
       ELSE Raise(x) /\ UNCHANGED run
  /\ UNCHANGED <<Others, now, batch, slotVars>>

SetRun(x, status) == run' = [run EXCEPT ![<<x, exec[x].current>>].status = status]

\* Mutant: a failed device is counted twice, once per handler that sees it.
FinishRunTwice(x) ==
  /\ exec[x].at = "ssh"
  /\ \E status \in {"completed", "failed"} :
       /\ SetRun(x, status)
       /\ exec' = [exec EXCEPT ![x].at = IF exec[x].kind = "live" THEN "done" ELSE "next",
                     ![x].todo = exec[x].todo \ {exec[x].current}, ![x].current = None,
                     ![x].ok = exec[x].ok + IF status = "completed" THEN 1 ELSE 0,
                     ![x].bad = exec[x].bad + IF status = "failed" THEN 2 ELSE 0]
  /\ DropGate(x)
  /\ UNCHANGED <<Others, settings, now, auditLock, batch, slotVars>>

\* SSH, analysis and the findings: one commit, or the run is failed.
FinishRun(x) ==
  /\ exec[x].at = "ssh"
  /\ exec[x].current \in DOMAIN device
  /\ \E status \in {"completed", "failed"} :
       /\ SetRun(x, status)
       /\ exec' = [exec EXCEPT ![x].at = IF exec[x].kind = "live" THEN "done" ELSE "next",
                     ![x].todo = exec[x].todo \ {exec[x].current}, ![x].current = None,
                     ![x].ok = exec[x].ok + IF status = "completed" THEN 1 ELSE 0,
                     ![x].bad = exec[x].bad + IF status = "failed" THEN 1 ELSE 0]
  /\ DropGate(x)
  /\ UNCHANGED <<Others, settings, now, auditLock, batch, slotVars>>

\* The device disappeared under the run: even the failure handler needs its name.
LoseDevice(x) ==
  /\ exec[x].at = "ssh"
  /\ exec[x].current \notin DOMAIN device
  /\ \/ SetRun(x, "failed")
     \/ UNCHANGED run
  /\ Raise(x)
  /\ UNCHANGED <<Others, now, batch, slotVars>>

Outcome(x) == CASE exec[x].ok = exec[x].total -> "completed"
                [] exec[x].ok = 0 /\ exec[x].total # 0 -> "failed"
                [] OTHER -> "partial"

FinishBatch(x) ==
  /\ exec[x].at = "next" /\ exec[x].kind # "live" /\ Admitted(x)
  /\ exec[x].todo = {}
  /\ batch' = [batch EXCEPT ![exec[x].number] =
                 [@ EXCEPT !.status = Outcome(x), !.succeeded = exec[x].ok, !.failed = exec[x].bad]]
  /\ IF exec[x].kind = "bulk" THEN Stop(x, "done")
                               ELSE exec' = [exec EXCEPT ![x].at = "report"]
  /\ UNCHANGED <<inventory, settings, now, auditLock, run, slotVars>>

\* The outcome reaches the schedule in a commit of its own; then the lock goes.
ReportBatch(x) ==
  /\ exec[x].at = "report" /\ Admitted(x)
  /\ settings' = [settings EXCEPT !.status = Outcome(x)]
  /\ Stop(x, "done")
  /\ auditLock' = None
  /\ UNCHANGED <<inventory, now, batch, run, slotVars>>

\* The process ends: locks and gate are sessions of the database and go with it.
LoseAudits ==
  /\ exec' = [x \in Audits |-> IF Working(x) THEN [NoExec EXCEPT !.at = "lost"] ELSE exec[x]]
  /\ auditLock' = None

-----------------------------------------------------------------------------
(* Properties *)

\* The numbers of a report are those of its runs: a concluded batch has one
\* settled run per device it counted, as many of each outcome as it says, and
\* the status they add up to; and while an audit works no other run of its
\* batch is open.
BatchCountsItsRuns ==
  \A n \in DOMAIN batch :
    LET x == batch[n].audit
        runs(status) == {k \in DOMAIN run : k[1] = x /\ run[k].status = status}
    IN /\ batch[n].status # "running" =>
            /\ batch[n].succeeded = Cardinality(runs("completed"))
            /\ batch[n].failed = Cardinality(runs("failed"))
            /\ runs("running") = {}
            /\ batch[n].succeeded + batch[n].failed = batch[n].total
            /\ batch[n].status = "completed" <=> batch[n].failed = 0
       /\ Working(x) => runs("running") \subseteq {<<x, exec[x].current>>}

\* The poll claims a slot a second time only when Run Now has stored an earlier
\* one since, whatever is restarted, edited or switched between a zoned and an
\* unzoned schedule on the way; and Run Now reopens only slots of a time of day
\* the schedule has been moved away from.  CONFIGURATION.md has no such exception:
\* "A blocked, failed or interrupted attempt consumes that occurrence".
SlotClaimedOnce ==
  [][\A x \in Audits :
       /\ ClaimSlot(x) /\ DueSlot(now) \in claimed => DueSlot(now) \in reopened
       /\ RunNow(x) => \A c \in reopened' : TimeOf(c) # settings.time]_<<settings, exec, slotVars>>
=============================================================================
