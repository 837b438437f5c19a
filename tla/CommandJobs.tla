----------------------------- MODULE CommandJobs -----------------------------
(***************************************************************************)
(* Command jobs: api/routes_network_ops.py creates them,                   *)
(* services/network_ops_execution.py runs them.                            *)
(*                                                                         *)
(* A job is created, with a row per target, in one transaction of a web    *)
(* request; it runs after the response, as a background task of the same   *)
(* process, one target after the other or with a pool of workers.  The     *)
(* task's progress lives in memory: what the process takes with it, nobody *)
(* picks up.                                                               *)
(***************************************************************************)
EXTENDS DeviceInventory

CONSTANTS
  Jobs,         \* identifiers of jobs, each used once
  Concurrency   \* workers of a parallel job

VARIABLES
  job,          \* rows of command_jobs: status
  target,       \* rows of command_job_targets: status, by job and device at creation
  linked,       \* <<job, device>>: targets whose device_id is still set
  executions,   \* <<job, device>>: targets with command_executions rows
  runner        \* the background task of each job

jobVars == <<job, target, linked, executions, runner>>

ASSUME JobsAssumption == Concurrency \in Nat \ {0}

Settled   == {"COMPLETED", "FAILED"}
Concluded == {"COMPLETED", "PARTIAL", "FAILED"}

NoRunner == [at |-> "none", workers |-> 0]

InitJobs ==
  /\ job = <<>> /\ target = <<>>
  /\ linked = {} /\ executions = {}
  /\ runner = [j \in Jobs |-> NoRunner]

-----------------------------------------------------------------------------
(* Creation *)

\* Devices that are gone are skipped; one selected by itself and through its
\* group counts once.  Nothing left is refused by create_job.
ResolveTargets(ids, gs) ==
  {d \in DOMAIN device : d \in ids \/ device[d].group \in gs \ {None}}

CreateJob(j, ids, gs, workers) ==
  LET resolved == ResolveTargets(ids, gs) IN
  /\ gate = None
  /\ j \notin DOMAIN job
  /\ resolved # {}
  /\ job' = [i \in DOMAIN job \cup {j} |-> IF i = j THEN "PENDING" ELSE job[i]]
  /\ target' = [i \in DOMAIN target \cup {j} |->
                  IF i = j THEN [d \in resolved |-> "PENDING"] ELSE target[i]]
  /\ linked' = linked \cup ({j} \X resolved)
  /\ runner' = [runner EXCEPT ![j] = [at |-> "start", workers |-> workers]]
  /\ UNCHANGED <<inventory, executions>>

-----------------------------------------------------------------------------
(* Execution *)

Busy(j) == {d \in DOMAIN target[j] : target[j][d] \in {"CONNECTING", "RUNNING"}}

SetTarget(j, d, status) == target' = [target EXCEPT ![j][d] = status]

RunJob(j) ==
  /\ runner[j].at = "start"
  /\ job' = [job EXCEPT ![j] = "RUNNING"]
  /\ runner' = [runner EXCEPT ![j].at = "targets"]
  /\ UNCHANGED <<inventory, target, linked, executions>>

\* Mutant: the pool is not bounded.
ConnectUnbounded(j, d) ==
  /\ runner[j].at = "targets"
  /\ d \in DOMAIN target[j] /\ target[j][d] = "PENDING"
  /\ SetTarget(j, d, "CONNECTING")
  /\ UNCHANGED <<inventory, job, linked, executions, runner>>

\* A free worker takes the next target.
Connect(j, d) ==
  /\ runner[j].at = "targets"
  /\ d \in DOMAIN target[j] /\ target[j][d] = "PENDING"
  /\ Cardinality(Busy(j)) < runner[j].workers
  /\ SetTarget(j, d, "CONNECTING")
  /\ UNCHANGED <<inventory, job, linked, executions, runner>>

\* The device does not answer, refuses the login or stalls; or anything raises.
TargetFails(j, d) ==
  /\ runner[j].at = "targets"
  /\ d \in DOMAIN target[j] /\ target[j][d] \in {"CONNECTING", "RUNNING"}
  /\ SetTarget(j, d, "FAILED")
  /\ UNCHANGED <<inventory, job, linked, executions, runner>>

\* The commands have been sent; a command that fails does not fail its target.
CommandsSent(j, d) ==
  /\ runner[j].at = "targets"
  /\ d \in DOMAIN target[j] /\ target[j][d] = "CONNECTING"
  /\ SetTarget(j, d, "RUNNING")
  /\ UNCHANGED <<inventory, job, linked, executions, runner>>

\* The executions and the status are one commit.
TargetCompletes(j, d) ==
  /\ runner[j].at = "targets"
  /\ d \in DOMAIN target[j] /\ target[j][d] = "RUNNING"
  /\ SetTarget(j, d, "COMPLETED")
  /\ executions' = executions \cup {<<j, d>>}
  /\ UNCHANGED <<inventory, job, linked, runner>>

\* Mutant: the job is finished when its last target has been handed to a worker.
FinishEarly(j) ==
  LET statuses == {target[j][d] : d \in DOMAIN target[j]} IN
  /\ runner[j].at = "targets"
  /\ "PENDING" \notin statuses
  /\ job' = [job EXCEPT ![j] = CASE statuses = {"COMPLETED"} -> "COMPLETED"
                                 [] "COMPLETED" \in statuses /\ statuses # {"COMPLETED"} -> "PARTIAL"
                                 [] OTHER -> "FAILED"]
  /\ runner' = [runner EXCEPT ![j].at = "end"]
  /\ UNCHANGED <<inventory, target, linked, executions>>

\* The pool has been drained; the outcome is computed from the rows.
FinishJob(j) ==
  LET statuses == {target[j][d] : d \in DOMAIN target[j]} IN
  /\ runner[j].at = "targets"
  /\ statuses \subseteq Settled
  /\ job' = [job EXCEPT ![j] = CASE statuses = {"COMPLETED"} -> "COMPLETED"
                                 [] "COMPLETED" \in statuses /\ statuses # {"COMPLETED"} -> "PARTIAL"
                                 [] OTHER -> "FAILED"]
  /\ runner' = [runner EXCEPT ![j].at = "end"]
  /\ UNCHANGED <<inventory, target, linked, executions>>

\* The process takes its background tasks along; the rows stay as they are.
LoseRunners ==
  runner' = [j \in Jobs |-> IF runner[j].at \in {"start", "targets"}
                              THEN [runner[j] EXCEPT !.at = "lost"] ELSE runner[j]]

-----------------------------------------------------------------------------
(* Properties *)

\* What a job reports is what its targets did: a concluded job has no target
\* under way, its outcome is the one the rows add up to, and the rows of a
\* completed target are there; before that, no more targets are busy than the
\* job has workers.
JobAgreesWithTargets ==
  \A j \in DOMAIN job :
    LET statuses == {target[j][d] : d \in DOMAIN target[j]} IN
    /\ job[j] \in Concluded =>
         /\ statuses \subseteq Settled
         /\ job[j] = "COMPLETED" <=> statuses = {"COMPLETED"}
         /\ job[j] = "FAILED" <=> "COMPLETED" \notin statuses
    /\ Cardinality(Busy(j)) <= runner[j].workers
    /\ \A d \in DOMAIN target[j] : target[j][d] = "COMPLETED" <=> <<j, d>> \in executions
=============================================================================
