# A verification project for NetOpsGuard

TLA+ models of NetOpsGuard's own core logic, the TLC runs that check them on
small instances, and proofs that TLAPS checks for every instance. Paths are
relative to the repository's `app/` unless they say otherwise. Each definition
that stands for code is a translation of the lines named for it in
`PROJECT.json` ("map").

## The system

NetOpsGuard is a FastAPI application over one SQL database (PostgreSQL, or
SQLite on one host). Several worker processes may serve it; each also runs
background loops. It manages a tac_plus-ng (TACACS+/RADIUS) daemon through a
generated configuration file, and network devices over SSH.

| Part | State | Operations | Hard behaviour |
|---|---|---|---|
| NCM backup scheduler (`services/ncm_scheduler.py`) | schedules, their state rows, jobs | poll, Run Now, recover, create, update, delete | many processes poll the same rows; deaths between commits; edits of the time while a checkpoint exists |
| Locks and gate (`services/ncm_lock.py`, `reference_lock.py`) | advisory locks held across commits; one gate per writing request and transaction | try-lock, release | a lock dies with its process, a row does not; the gate goes at every commit |
| NCM backup (`services/ncm_backup.py`) | jobs, one row per device and type | manual and scheduled backup | numbers read before they are used; partial success |
| NCM archive (`services/ncm_archive.py`, `ncm_retention.py`) | immutable snapshots, baselines | archive, prune, delete, set and clear baseline | the latest snapshot is the reference of deduplication, drift and rollback |
| NCM deployment (`services/ncm_deploy.py`) | candidates, deployments | propose, submit, review, deploy, roll back | a commit on each side of every SSH session |
| NCM pages (`services/ncm_drift.py`, `ncm_compare.py`) | none | drift, device list, comparison | composed from several queries; ties between groups |
| Configuration apply (`services/config_compiler.py`, `service_control.py`, `config_backup.py`) | file, daemon, version rows, backups | apply, restore, import, automatic rollback | file, daemon and database change in separate steps |
| Integrity watch (`services/config_integrity.py`) | recorded hash and status | check, record | writers that record the hash at other moments than they write |
| Policy engine (`services/policy_engine.py`, `condition_engine.py`, `identity_resolver.py`) | none | decide, simulate, effective access | the same question is answered a second time by the daemon |
| Policy compiler (`services/config_compiler.py`, `policy_scope.py`) | none | resolve scopes, emit rules | negation, nesting, order; an empty scope must not become "everything" |
| Policy administration (`api/routes_policies.py`, `routes_policy_conditions.py`, `services/policy_versioning.py`, ...) | policies, trees, versions, command sets, grants | create, update, delete, reorder, migrate, restore | unique priorities with first match: one edit moves other policies |
| Inventory (`api/routes_devices.py`, `routes_monitoring.py`, `routes_network_scan.py`) | devices, secrets, the equipment itself | create, quick-add, update, scan, push | checks and inserts in different transactions; two stores of one secret |
| Licence (`services/entitlements.py`) | licence row | limit of devices and administrators | two ways of judging one licence |
| Command jobs (`services/network_ops_execution.py`) | jobs, targets, executions | create, run | parallel targets; nothing recovers a lost job |
| Security audits (`services/scheduled_audit.py`, `api/routes_security.py`) | schedule row, batches, runs | poll, Run Now, bulk, live | dates and slots in one checkpoint; devices that vanish under a batch |
| Device deletion (`services/dependency_deletion.py`) | every reference to a device | preview, four operations, direct delete | what was previewed is stale; ungated background sessions |
| Accounts (`api/routes_admin_users.py`, `routes_admin_roles.py`, `routes_auth.py`, `deps.py`) | accounts, roles, sessions | edit, log in, seed the default roles at start | a session names a user, not an account |
| Accounting pages (`services/accounting_log.py`, `api/routes_accounting.py`) | none: three logs of the daemon | sessions, events, dashboard | sessions without identifiers, stops that are commands |
| Unknown clients (`services/tacacs_watch.py`, `unknown_devices.py`) | observations, a published file | observe, publish, search | a watcher that restarts; clients the daemon does not log |
| Security Center (`security_center/`) | none: checks of a configuration | checks, interface rules, correlation, fixes | two parsers, two engines; a fix and its pattern are written apart |
| Audit reports (`services/audit_comparison.py`, `security_audit_persistence.py`, `api/routes_security.py`) | runs and findings | score, compare, roll up | five pages compute the same numbers apart |

Interactions: the scheduler, manual backups, deployments, baselines and device
deletion compete for the lock `backup-writer`; schedule handlers and the
scheduler for `schedule:<id>`; the poll and Run Now of the audits for
`security-audit-schedule`; every unsafe HTTP request serialises its
*transactions*, not its whole life, through the gate. Background sessions (scans,
command jobs, the polls) hold no gate. The archive is read by the pages and by
rollback and written by backups, deployments and retention; devices are
referred to by policies, jobs, audits and the archive.

Not modelled, with the reason in `PROJECT.json`: directory and RADIUS protocol
encoding, monitoring and TLS settings, one-shot start-up migrations, the web
interface, the installer's scripts.

What makes each part correct: a backup is executed by one process at a time,
each occurrence is attempted and not repeated by the scheduler on its own, an
interrupted attempt is settled; a snapshot that something points to is not
pruned; a device is changed only by an approved candidate; a request to apply
says truly what it left, and the watch raises no alarm without a cause; what the
simulator answers is what the daemon does; an edit of one policy keeps the
others in order; a deletion removes what was reviewed, widens nothing and takes
no device from under its work; nobody is locked out; pages agree with the rows
and with each other. `PROJECT.json` lists the hazards at their lines.

## Modules

An action is what the code does between two points where another actor can
intervene: a commit, a lock or the gate taken or dropped, a call to a device or
the daemon, the death of the process. Modules with `VARIABLES` state their
bounds among the constants; variables marked "history" are read by properties
only. `Shared.tla` holds the one constant that components have in common, `None`.

### NcmSchedule: who executes a backup, and when

`NcmSchedule.tla` models `ncm_scheduler.py`, `ncm_lock.py`, the job rows of
`ncm_backup.py` and the schedule handlers of `routes_ncm.py`.

| State | Code |
|---|---|
| `schedule`, `state`, `job` | rows of `ncm_backup_schedules`, `ncm_schedule_states`, `ncm_backup_jobs` |
| `scheduleLock`, `writerLock` | advisory locks `schedule:<id>` and `backup-writer`, dropped when the process dies |
| `pc`, `target`, `asOf`, `todo`, `number`, `mine`, `verdict` | what a process has read and still has to use: locals of `poll` and `run_schedule` |
| `now` | the clock |

`PollBegin` to `PollEnd` are `poll`; `RunNow`, `CreateSchedule`,
`UpdateSchedule`, `DeleteSchedule`, `ManualBackup` are handlers; `Recover` is
`recover`; `Decline`, `Defer`, `OwnWriter`, `ReadNumber`, `Claim`, `Refuse`,
`Proceed`, `FinishJob`, `RecordState`, `Fail`, `Close` are `run_schedule` from its
first lock to its last commit; `Die` is a process death.

`BackupLedger.tla` is the abstract specification: one backup at a time, a job is
started once, its result comes from its live executor, a job without an executor
is settled as failed. `ImplementsLedger` maps a job to its status and the
executors to the places from which they may still write.

Abstractions: one time zone without clock changes, so that `due_slot` is
arithmetic on a day of `DayLen` ticks; the mix of per-device results is a
nondeterministic status; the reference gate is not in this module, so handlers
interleave more freely here than in the program, and a request that waits too
long for the gate ends like a failure or a death. That over-approximates:
safety shown here holds with the gate too.

### NcmArchive and ArchiveViews: what is archived, kept, removed and shown

`NcmArchive.tla` models `ncm_archive.py`, `ncm_retention.py`, `_backup_now` of
`ncm_deploy.py` and the snapshot and baseline handlers of `routes_ncm.py`.

| State | Code |
|---|---|
| `running` | what the device runs (outside the program) |
| `snapshot`, `baseline`, `pin` | `ncm_configurations`, `ncm_baselines`, the two snapshot columns of `ncm_deployments` |
| `writer` | the lock `backup-writer` |
| `stage`, `horizon`, `seen`, `protected` | where a scheduled run is and what it has read: what to archive and under which number, what retention must spare |

A scheduled run (`Open`, `Inspect`, `Store`, `ReadProtected`, `Prune`, `Leave`)
reads in one step and writes in a later one; each request is one transaction
(`PinBackup`, `PlainBackup`, `DeleteConfiguration`, `SetBaseline`,
`ClearBaseline`), and only those that take the lock in the code take it here:
deleting a snapshot and clearing a baseline do not.

`ArchiveViews.tla` adds the drift page (`services/ncm_drift.py`): its first query
reads the baselines (`OpenDrift` keeps them in `page`), its second the latest
snapshots, and anything may happen between; `DeviceStatus` is the device list.

Abstractions: one configuration type per device; retrieval and comparison are
one step; a retention age is a cutoff row no later than the first row of the
run itself (`retention_days` is at least one); a row identity is not used twice.

### NcmDeploy: who changes a device

`NcmDeploy.tla` models `ncm_deploy.py` and the candidate and deployment handlers
over an `INSTANCE` of `NcmArchive`, whose actions it composes with its own.

| State | Code |
|---|---|
| `candidate`, `deployment` | `ncm_candidates`, `ncm_deployments` (the snapshot columns are `pin`) |
| `gate` | the request whose transaction, and with it the gate of `reference_lock.py`, is open across steps |
| `at`, `mine`, `got` | where a request is, its deployment, the snapshot objects it holds |

`Propose`, `Submit`, `Approve`, `Reject` are the life of a candidate; `Begin`,
`PreBackup` or `PreFailed`, `CheckPre`, `Send`, `RecordFailure`,
`PostBackup` or `PostSkipped`, `Report` are `deploy_candidate` cut at its commits;
`Rollback`, `RecordRollbackFailure`, `RollbackBackup` or `RollbackUnverified`,
`RecordRollback` are `rollback_deployment`. `Send` and `Rollback` keep the gate
until the verification backup commits, because the code does not commit between
them. `Abandon` ends a request anywhere: its process dies, it waits ten seconds
for the gate in vain, or a snapshot it holds was deleted. Nothing in the code
takes up a deployment left `running`, and nothing does here.

Abstractions: a configuration is the set of candidates whose change it carries;
commands may have any part of their effect; the refusal of dangerous commands is
a check on text before the first write and is left out; changes made to a device
outside the platform are in `NcmArchive` (`Reconfigure`), not here.

### ConfigApply: the file, the daemon and the history

`ConfigApply.tla` models `apply_candidate` and `_rollback` of
`config_compiler.py`, the handlers of `routes_config.py` that call it,
`service_control.py`, `config_backup.py` and the watch of `config_integrity.py`.

| State | Code |
|---|---|
| `file`, `running` | the generated file; what the daemon runs, if it runs |
| `version`, `backup`, `baseline` | `config_versions`, the numbered backups, the row of `config_integrity_state` |
| `gate` | the request whose transaction is open across steps |
| `pc`, `request` | where a request is; text, previous text, version number, what it holds |
| `alone`, `calm`, `causes` (history) | who disturbed whom; whether anything unusual happened; why the file differs |

`ApplyConfig`, `RestoreVersion` and `ApplyImport` begin a request; `Validate`,
`BackUp`, `WriteConfigFile`, `CreateBaselineRow`, `RecordApplied` or
`RecordTimesOut`, `Reload`, `Restart`, `CheckHealth`, `CommitVersion` or
`CommitFails` carry it on; `UndoBegin`, `UndoFile`, `UndoReload`, `UndoRestart` are
the automatic rollback. `SystemctlTimesOut`, `Die`, `EditOutside`,
`DaemonStops` and `DaemonStarts` are what happens to it. `CheckIntegrity` is the
watch. A request keeps the gate up to its first commit, the recorded baseline, or
the event row when the daemon's own check was inconclusive; the rest runs without
it. A text is a model value of which only counts whether the daemon's check
accepts it and whether the daemon runs with it.

### PolicyEngine, PolicyCompiler, PolicyBook: who may do what

`PolicyEngine.tla` is the decision of the platform as operators: legacy fields
and condition trees, ordered command rules, and the identity a name resolves to. A
tree is laid out as its table is, the sequence of its groups in the order of their
insertion, each with the place of its parent, so that trees of any depth are data of
one form and their evaluation is a recursive function over places.
`PolicyCompiler.tla` is what the same rows become in the generated ruleset, whose
expressions have the layout of the trees, and how the daemon, which is external, walks
it: the first rule whose condition holds. `PolicyBook.tla` has the operations as
actions, each one transaction: `Save`, `Delete`, `AddCommandSet`, `ReplaceTree`,
`MigrateConditions`, `Restore`, `Reorder`, `SaveCommandSet`, `SaveRadius`,
`DeleteRadius`, `CreateGrant`, `DeleteGrant`. Patterns stand for the commands they
find; an address condition for the addresses it covers. A policy's approval mode
(`requires_manual_approval` and its default set) is saved, versioned and restored
with the rest of its row, and nothing that decides or compiles reads it. The generated
text of hosts, profiles and surrounding sections is left out.

### DeviceChecks, InterfaceChecks, SecurityAssessment: what an audit finds

A configuration is the set of statements the checks look for, per device and per
port. `DeviceChecks.tla` has every registered check of `security_center/checks`
with its severity and the effect of the command it recommends, as far as that command
goes (a command that only adds takes nothing away);
`InterfaceChecks.tla` the second parser and the rules as `run_interface_checks`
calls them; `SecurityAssessment.tla` the correlation rules and an operator who
pastes one recommendation after another (`ApplyFix`, `SpecFixes`). Regular expressions
are represented by the statements they match.

### AuditReports and ConfigCompare: what the pages derive

`AuditReports.tla` has the runs of the Security Center (`BeginRun`, `FailRun`,
`FinishRun`, `DeleteDevice`, `Upgrade` of the engine) and what five pages compute from
them: scores, comparison of two runs, dashboard, activity, compliance of the
fleet. The activity page reads the latest `ActivityRuns` runs (200 in the code, three
here). Scores are in tenths, rounded as Python rounds. `ConfigCompare.tla` is the
comparison of the latest snapshots of selected devices (`SelectDevice` adds one to
the request): the majority per area, the outlier, the device to hold the others
against.

### DeviceInventory, CommandJobs, SecurityAudits, Fleet: devices and their work

`DeviceInventory.tla` has the ways a device gets into the inventory and is changed
there, each a task of several steps: a create (`CreateDevice`, `FlushDevice`,
`CommitDevice`), a quick-add from the list of unrecognized connections
(`QuickAddDevice`, `QuickLimit`, then as a create), a scan (`StartScan`, `ScanCheck`,
`ScanGather`, `ScanApply`, `ScanLicence`, `FlushDevice`, `ScanCommit`), an edit
(`UpdateDevice`, `CommitUpdate`, between which a scan may commit), a push (`ApplyAaa`,
`PushAaa`); and `ChangeLicence`. Each task keeps the rows its check has read
(`seen`). Only IPv4 addresses are compared with each other, as in the code.
`equipment` is what the boxes are configured with, a store of its own.
`CommandJobs.tla` adds command jobs with a bounded pool of workers,
`SecurityAudits.tla` the audits: `ClaimSlot` (the poll), `RunNow`, `BulkAudit`,
`LiveAudit`, `UpdateSchedule` (enabled, zoned, and the daily time), and a batch commit
by commit (`ListDevices` to `ReportBatch`). Time counts half days; an audit is due
daily at the half the schedule names. `claimed` and `reopened` are history: slots the
poll has claimed, and those of them behind which a Run Now has moved the checkpoint.

`Fleet.tla` composes them with the policies that refer to devices and the
deletion: `Preview` makes a report, `ExecuteReviewed` makes it again and compares,
`DeleteDirect` has none, `CommitDeletion` removes policies, links and rows in one
commit; between inspection and commit the background goes on. `Die` takes all
tasks, runners and audits of the process with their locks and leaves the rows.
The constant `Mixes` bounds a behaviour: how many tasks, jobs, audits and edits
may go together.

### Accounts, AccountingLog, ClientWatch

`Accounts.tla`: a request is authenticated, checked and committed under the gate
and is one action (`EditAccounts` gathers the edits of accounts and roles); `Login`,
`Leave` and `Restart` move sessions. `AccountingLog.tla`: events at the devices
(`RefusedLogin`, `LogIn`, `Run`, `RunSplitting`, `Logout`, `Vanish`, a line of another
shape with `WriteOdd`, `PassTime`) make the daemon write; the pages are operators over
the last lines of the logs. A command of `Splitting` has the field separator `::` in it:
its accounting line is taken apart at the wrong places (`Shifted`). `Permits` are the
decisions that start with "permit", which one page asks for; another asks for the word.
`ClientWatch.tla`: the watcher's own process (`Observe`,
`RestartWatcher`, `Publish`), the daemon's logs (`Write`), the inventory
(`EditInventory`), and the search over all of them, which looks at IPv4 addresses only.

### Modules for TLC

`MCNcmSchedule`, `MCNcmArchive`, `MCNcmDeploy` and `MCInterfaces` give instances to
one component each. `MCAdministration` and `MCFleet` gather components that share
no table, as *topics*: a behaviour moves one of them and leaves the others at rest,
so that the state space is the sum of theirs and not the product. Both extend the
components that theorems are about, so that a run and a theorem have the same
definition; a property is then checked in every state, where its component rests
too. Two topics of
`MCAdministration` are the apply: with a file installed, two requests meet; where
none was, one request is made. `MCFleet` has the inventory a second time as the topic
*slots*: no device, and more edits of the audit schedule than the full inventory can
afford. `MCNcmDeploy` likewise has two mixes: two requests and no scheduled run, or a
scheduled run and one request at a time.

## Runs

| Run | Instance | What it shows |
|---|---|---|
| `schedule_safety` | one poller, one request thread, one schedule with two run times, four ticks in days of two, five jobs, one request for a manual backup, one death | one executor; an interrupted job is found by recovery; the result shown is the job's; job numbers are unique; no replay without a Run Now; the ledger is implemented |
| `schedule_live` | two pollers, one request thread, days of one tick, one death | a due occurrence is attempted; "running" does not last for ever |
| `schedule_replay` | as the first, without a death | finding 1 |
| `archive_safety` | one device, two configurations, one schedule, one deployment, four snapshots | numbers follow history; the drift page is honest between its two queries; retention spares baselines and pins |
| `archive_latest` | the same, three snapshots | finding 2 |
| `deploy_safety` | one candidate, two deployments, two snapshots, two administrators; two requests, or one at a time beside one schedule | devices carry only reviewed changes; a concluded candidate has its deployment; nobody disturbs a device between its commands and their verification; retention spares the rollback point of a deployment under way; the archive is used as `NcmArchive` allows |
| `deploy_reuse`, `deploy_stale` | two requests, one candidate, two deployments | findings 3 and 4 |
| `administration` | *apply*: two requests on an installed file, or one where none was; the installer's file, a text that runs, and an empty one, which passes the check, does not run and comes from an import. *policies*: two initial books of up to three policies, two operations. *fixes*: an access switch and a router with about thirty defects each, and a switch whose uplinks alone are more than may be trusted, two repairs. *reports*: two devices, four runs of which two or three are history, three finding identities. *compare*: six fleets of four devices, up to four selected | the version history is dense and append-only; answers are true and alarms have causes; compiled rules decide as the simulator; edits keep the other policies in order and rewriting keeps decisions; recommended commands clear their finding; score differences are backed by findings and pages agree; a comparison is the majority's and does not depend on the order of selection |
| `fleet` | *fleet*: two devices, one alone in a group a policy names, a free host that two networks cover, two background activities or edits in eight mixes, a day and a half. *slots*: no device, two audits, three edits of the schedule, two days. *accounts*: two accounts, three edits. *pages*: five events, three lines read, four kinds of decision and of command, of refusals, odd lines and decisions other than the plain permit two. *clients*: two clients, one observation kept, two lines of each log searched | checks are outrun by races and by quick-add only; inventory and equipment hold one secret; summaries agree with rows; a slot is claimed once unless a Run Now has reopened it; deletions remove what was reviewed, keep scopes and respect live work; nobody is locked out; pages follow the logs; strangers are offered |
| `interfaces` | one switch with configured ports | finding 5 |
| `radius_guard` | the books of *policies*, two operations | finding 6 |

The bounds are the smallest at which every action fires and each hazard can
bite. Two jobs of one slot with a Run Now between them need three jobs and an
edit; a number taken up again after a deletion needs a third snapshot; retention
needs one old snapshot, one new one and one that is pinned meanwhile; two
deployments that overlap need one candidate and two rows; two applies that want
one version number need two requests, and a rollback needs one text that the
check accepts and the daemon does not run; a policy that another edit displaces
needs three priorities; a deletion that is overtaken needs one background
activity between its inspection and its commit; an unzoned and a zoned slot meet
on the second day; a slot that Run Now reopens needs an edit of the daily time before
it and one after; a lock-out needs two superadmins. Each property is also run
against a mutant of the code (`PROJECT.json`, "mutants") that must break it, so
none holds because its case is out of reach.

Symmetry permutes requests, administrators and deployments in the `NcmDeploy` runs,
requests in `administration`, and free devices, tasks and audits in `fleet` (whose
topics share these model values): no definition tells two of them apart and no
liveness is checked under it. `NcmDeploy.cfg`, `Fleet.cfg` and `Interfaces.cfg` turn
deadlock checking off, because their instances stop once rows or bounds are used
up; the topics of `administration` other than the applies rest instead (`Rest`), and
the applies are checked for deadlock.

Fairness (`schedule_live` only) is weak, per process, on `Work`: a process under
way runs on. `scheduler_loop` is an endless loop that catches every exception
and sleeps a bounded time, a request thread runs to its end, and try-locks never
wait. Nobody has to ask for anything, time need not pass, nothing has to die. In this
run the clock starts at its last tick, so that `Tick` never fires: what is due is due
from the beginning, and that a round goes on with a time that has become stale is left
to `schedule_safety`.
The other components promise no progress that the code would ensure: lost jobs,
runs and deployments stay as they are.

## Findings

1. `schedule_replay`: `docs/CONFIGURATION.md:88` says an attempted occurrence is
   not retried automatically; a Run Now may move the checkpoint back.
2. `archive_latest`: `docs/CONFIGURATION.md:94` says the latest snapshot is
   protected; `delete_configuration` takes no lock and may move "latest" between
   the two queries of `prune`.
3. `deploy_reuse`: `models/ncm.py:286-288` says a deployed candidate is never
   reused; the status is checked only in the transaction before the backup.
4. `deploy_stale`: `ncm_deploy.py:12-16` promises a rollback point from
   immediately before the change; other requests may change the device between.
5. `interfaces`: `orchestrator.py:113` says an audit of a device audits its
   interfaces; `run_interface_checks` (line 93) hands the rules the parser's record
   instead of its `features`, so that every interface gets the same findings.
6. `radius_guard`: `config_compiler.py:1466-1469` says the protocol guard keeps a
   RADIUS policy from the shell authorization of the same users; the guard is inside
   the profile, the rule that selects the profile has none and stands before every
   TACACS+ policy, so that a shell request it covers is refused.

Met while modelling, and named in a property as its exception or outside what a
property can say:

- The exceptions of `CompiledDecidesAsSimulated` include the RADIUS rules of
  finding 6. A policy that requires manual approval is said to compile to a static DENY
  (`models/policy.py:130-136`); neither the compiler nor the engine reads the flag, and
  the policy decides as it would without it.
- An attempt "consumes that occurrence" of the daily audit (`docs/CONFIGURATION.md:113`).
  Edit the time to later in the day, Run Now (which stores yesterday's slot,
  `routes_security.py:545`), edit it back: the poll claims today's slot again.
  `SlotClaimedOnce` allows exactly this (`reopened`); it is finding 1 in another service.
- Quick-add creates a device "exactly like the normal Add Device flow"
  (`routes_monitoring.py:94`), but compares its address for equality only: it makes a
  row inside a network of the inventory without any race. `ChecksAreOutrunByRacesOnly`
  names it.
- The activity page promises a difference to the "chronologically-previous completed
  run" (`routes_security.py:1018`). The code takes the previous run of any status among
  the 200 latest, so that a failed or running audit between two completed ones leaves no
  difference. `PagesAgree` names these cases (`KeptApart`).
- A command with `::` in it, such as one with an IPv6 address, leaves its session: its
  accounting line is split at it (`accounting_log.py:188-209`). A decision that starts
  with "permit" and is more than the word is a success to the list of events (`:395`)
  and no permit to the dashboard (`:662`). `PagesFollowTheLogs` names both.
- The commands recommended for BOOT-04, COPP-CLASS-L2CTRL and RTAUTH-ISIS-01 do not
  clear them; the one for DHCPSNOOP-05 does not where the uplinks alone are more than
  its limit, which it spares and the check counts; the one for AAA-09 adds a server and
  leaves a global server key, and the one for PWD-02 leaves the type 7 password of a
  line or of enable. `FixesClearTheirFinding` names the six (`Unhelpful`) and covers the
  rest; the fourth came out of its proof.
- `list_access_events` documents `login` as its default kind, the parameter's
  default is `authentication` (`routes_accounting.py:274`, `:293`).
- A tie of two equal groups makes a comparison depend on the order of selection,
  and a device selected twice passes the minimum of two; `ComparisonIsFair`
  excludes both.
- A renamed account's open session passes to whoever takes the name next.
- Rows that a dead process leaves (jobs, runs, batches, manual backups,
  deployments) stay unfinished, and those that name a device keep it undeletable.

## Proofs

Eight modules hold theorems, for every value of the constants, from the named
assumptions of the modules they extend (bounds are natural numbers, run times lie
within the day, the null value is none of the others, the table of categories and the
interfaces of a configuration are finite (`ConfigurationAssumption`), initial rows have
their form). No bound of a run is assumed. The assumptions are evaluated by every run that
extends the module; two say more than that constants have their kinds: the initial
inventory is finite (`InventoryAssumption`), and a check that a compliance framework
maps yields at most one finding per assessment (`MappedOnce` in
`ReportsAssumption`). The second is how `security_center/checks` is written: the checks
that yield a finding for each port, line or user (and are keyed by it) are mapped by
no framework file, and the code relies on it where it keeps one finding per check
identifier (`compliance/loader.py:71`).

**NcmSchedule_proofs.** `TypeCorrect`, `MutualExclusion` (`OneExecutor`),
`InterruptedIsFound` (`RunningJobIsRecoverable`), `ShownResultAgrees`
(`ShownResultIsTheJobs`), `NumbersUnique` (`JobNumbersUnique`),
`ReplayFollowsRunNow` (`ReplayNeedsRunNow`), `LedgerImplemented`
(`ImplementsLedger`). They follow from `Safe`, which adds that a place is reached
only with its locks (`LocksHeld`), that a state row links to a job of its own
schedule (`StateLinksItsJob`), that what was checked before the claim still holds
(`ScheduleStillThere`, `NothingUnsettled`), and that an executor's job is the one
its schedule shows, with the status its place implies (`OwnsItsJob`). The
argument: whoever writes a state row holds `schedule:<id>`, whoever starts a job
holds `backup-writer`; a death drops both and leaves rows that only `Recover`,
which needs the first, may settle. Job numbers need `NumberStillFree`: the number a
process has read is above all in use until it inserts its row, because nobody else
inserts without the writer. The order of attempts (`Ordered`) adds that a slot
judged due stays due until it is claimed, that the checkpoint is the slot of the
latest attempt, and that slots grow as long as nobody runs one by hand. For the
refinement, who may still write is alone under the writer lock, so the ledger's
set of executors has at most one job, and every action is shown to be a step of the
ledger or a stutter; `Recover` is its `Settle`, because a live executor would hold the
schedule's lock.

**NcmArchive_proofs.** `TypeCorrect`, `VersionsOrdered` (`VersionsFollowHistory`),
`BaselinesAgree`, `PinnedStays` (`PinnedIsNotPruned`). They follow from `Safe`: a run
under way holds the writer (`RunHoldsWriter`); so the number it has read stays
above all in use, whatever is deleted meanwhile (`NumberStillNext`), and what
retention found worth keeping still includes every baseline and pin
(`StillProtected`); rows are taken in order (`RowsInOrder`) and pins point at rows
that are there (`PinsAreKept`). **ArchiveViews_proofs** adds the page:
`PagesAreHonest` (`DriftIsHonest`), from the fact that a baseline the page has read
was the archive's, and numbers are not moved under it (`PageAgreesWithArchive`).

**NcmDeploy_proofs.** `TypeCorrect`, `ChangesReviewed` (`ChangesAreReviewed`),
`ConclusionFollows` (`ConclusionHasDeployment`), `RollbackPointStays`
(`RollbackPointIsNotPruned`), `VerificationAlone` (`VerificationIsUndisturbed`),
`ArchiveImplemented` (`ImplementsArchive`). Every step is first shown to be one of
the archive or to leave it alone, so that the archive's invariant is taken over
through `INSTANCE` and not proved again. The rest says that a request in a place
between two commits has the gate, that a deployment is begun once and replayed only
after it was pinned, and that what devices, snapshots, runs and requests carry are
changes approved by somebody else.

**ConfigApply_proofs.** `TypeCorrect`, `NumbersDense` (`HistoryIsDense`),
`HistoryAppends` (`HistoryIsAppendOnly`): a number is one above those in use when it
is read, and a number that is taken when the row is written fails the request.
`FileIsTrusted` (`FileCanBeTrusted`) and `AnswersTrue` (`AnswersAreTrue`): the gate is held only up to the recorded baseline
(`GateFollowsPlace`); a difference from the baseline has a cause or a writer
under way (`DifferenceHasCause`, `OverwrittenHasCause`); a request that was not
disturbed is the only one, so that what it finds at each place is what it left
(`Company`, `AllUndisturbed`); and calm carries the latest version through it
(`CalmIsLatest`).

**Policies_proofs.** `CompiledBooksDecideAsSimulated`
(`CompiledDecidesAsSimulated`): when a book compiles, the daemon that walks the
generated ruleset decides every request of a locally authenticated user as the Policy
Simulator and the Effective Access pages say, for condition trees of any depth and
books of any size. Four ways of parting are named in the property, because the code
has them: a grant or a RADIUS policy that comes first and applies, a negated condition
on what the request lacks (`NegatesAbsence`), and groups whose authority is the
directory. `BookIsSafe` is the invariant it rests on (`BookSafe`): rows have their
forms, each group of a tree was inserted after its parent, no priority is taken twice,
RADIUS policies differ in age, versions hold what can be restored. The argument goes up
the ruleset: a leaf that compiles has a test that holds when its condition does
(`LeafDecides`); group by group the expression obeys the recursion of its tree, with
the same values below, so that the two recursive functions are one (`TreeDecides`); the
conjunction of the legacy fields is decided alike (`LegacyDecides`); hence a rule is met
exactly when its policy matches (`PolicyDecides`). Sorting a finite set by an order lays each member out once, before
those that follow it (`OrderIsLaidOut`), so the first rule met is that of the foremost
policy that matches (`FirstLaidOut`); a ruleset of three parts is won by the first part
that has a rule (`WinnerOfConcat`, `RulesetDecides`); and the profile of that rule
answers as its policy does (`ShellIsDecided`, `RadiusIsDecided`). `OthersStayInOrder`
(`EditsKeepTheOthersInOrder`): a creation moves by one what follows its place, a move what lies between
the old place and the new one (`RoomIsMade`), which keeps the order of the others and
leaves the place free (`RoomIsTaken`), so that the unique constraint refuses at most a
restoration or a reordering. `RewritingIsHarmless` (`RewritingKeepsDecisions`): the tree a migration
writes is the conjunction of the legacy fields (`LegacyIsItsLeaves`), so that every
request meets the same policy (`MigrationMatches`, `SameDecision`).

**Fleet_proofs.** `SomebodyCanComeBack` (`NobodyIsLockedOut`) for `Accounts`: rows
are forms, roles resolve, and every edit leaves an active superadmin, its author or
another. For `Fleet`: `SlotsClaimedOnce` (`SlotClaimedOnce`), `RemovalsReviewed`
(`RemovedPoliciesWereReviewed`), `WorkKeepsDevice` (`LiveWorkKeepsDevice`),
`ScopesKept` (`DeletionKeepsScopes`). A deletion under way has the gate, so what it
decided with the gate (policies, links of jobs, members of groups) stands still;
what goes on without the gate only adds devices under identifiers never given
before, brings jobs nearer to their end, or begins a run of the poll that was not
there (`DeletionStands`). That needs that a create about to commit has the gate
(`CreatorHoldsGate`), that an audit begins a run once per device (`RunsAreDone`) and
leaves none open behind it (`OpenRunIsCurrent`), and that a job that has concluded
has no runner (`ConcludedIsOver`). Slots need only that those claimed lie behind the
clock, and that those reopened are the claimed ones ahead of the stored one
(`ClaimsAreBehind`), whichever way it was stored.

The same module has what the rows agree on: `SummariesAlwaysAgree`
(`SummariesAgreeWithRows`), `SecretsAlwaysAgree` (`SecretsAgree`) and
`ChecksAlwaysHold` (`ChecksAreOutrunByRacesOnly`), from `RowsSafe`: each task, job and
audit carries in its locals what it has established. A job has no more open targets
than workers (`PoolBounded`) and what it concluded with is what its rows say
(`JobsAgree`). An audit has counted exactly its runs of either outcome, and they make up
its total with the devices it still has to do (`Counted`); it is the only one to write
to its batch (`OwnsBatch`, `BatchBelongs`). A task has checked the address and the count
it goes by against the rows it had read (`CheckMade`; quick-add, for equality only), the host it has sent a secret to is
marked until the row is committed (`SentDrifts`), and a task that nobody disturbed is
alone and still knows what it found (`UntouchedKnow`). Every step is the owner's own
and carries the fact on, or leaves its subject alone, or is one the model marks
(`drift`, `touched`, a row of another session), which is what the properties allow for.

**Pages_proofs.** `PagesAlwaysAgree` (`PagesAgree`), `ScoresMoveWithFindings`
(`ScoreMovesWithFindings`), from `ReportsSafe`: a run names a device that is in the
inventory or none; its assessment row names the device it was begun for, and one that
has left the inventory is never named by a run again, so that while a device is there
its runs by identity (activity) and by column (dashboard) are the same; a stored score
is that of the stored findings. Pages agree because the latest completed run and the one before
are then the same pair on both, if nothing keeps them apart, and because a mapped check contributes its one
finding. For the scores: comparable runs have the same checks with one finding each
and differ in findings that pass on one side and fail on the other; if none was
resolved, each finding earns no more than before, so neither does their sum, nor its
rounded quotient by the same weight (`SumsGrow`, `QuotientGrows`, `RoundedGrows`), so a
gain has a resolved finding; losses and averages likewise. What `SumFunction` of the
library computes is proved over all finite sets by the least counterexample, since
induction theorems cannot be instantiated: that its defining function exists
(`SumsExist`) and that sums are monotone (`SumsGrow`). `ComparisonsAreFair`
(`ComparisonIsFair`) for `ConfigCompare`: the leader of an area exists and has the most
votes (`LeaderLeads`); two groups that each have more than half of the places meet, so a
majority is the leader's group (`MajorityIsMatched`); of two devices each differs where
the other does (`NobodyIsWorse`); and two orders have the same devices, hence the same
votes, and without a tie leaders with the same lines, so that all that is derived from
them is the same (`OrderDoesNotMatter`).

`StrangersAreAlwaysOffered` (`StrangersAreOffered`) for `ClientWatch`, from `WatchSafe`:
while the running watcher's latest publication met a client, the file begins with it,
because pruning never drops the last observation (`PruneKeepsTheLatest`). A sum is at
least the number of its positive summands (`SumsCover`), so that every log with a line
that names the client and every entry of the file count. `PagesAlwaysFollowTheLogs`
(`PagesFollowTheLogs`) for `AccountingLog`, from `LogSafe`: for every line and every
record a page may begin with, what grouping the records yields is the login that is
open there, if its start was read, and nothing otherwise, unless a stop was lost
(`Tracks`); what is said to be open there leaves out the commands that split. The invariant speaks of all beginnings at once, because the window moves
with every record written. Grouping is a recursive function over the records; that it
exists (`GroupingExists`), that a record more leaves the past alone
(`GroupingKeepsThePast`) and hence what one record does (`OneMoreRecord`) are proved by
the least counterexample. The outcomes differ by the permits that are more than the word, which are
disjoint from the others on either page. The hours add up because each listed record falls into one
bucket of the window (`HoursAreOrdered`) and a sum over a partition counts the whole
(`SumsByPart`).

`FixesAlwaysClear` (`FixesClearTheirFinding`) for `SecurityAssessment`, over every
configuration with finitely many interfaces. A table apart from the modelled checks
says for each of them what a configuration must lack or hold for it to fail (`Fails`).
Group by group, a finding that fails says so of the configuration it was found in, and
its fix takes that away (`AaaCured` and the others, together `EveryFindingCured`).
Where a check reads lines, the fix gains or loses the line (`LinesAre`); where it reads
ports, the fix covers the ports found (`StatementsAre`, `CoveredAre`) and turns no other
into a port of the kind the check looks at (`KindsStay`, `SecuredStay`), although the
statements of port security are among those that make an access port. The invariant
adds only that the interfaces stay finitely many (`FixesInv`).

TLC checked each property, and the invariants the proofs rest on, on the instances of
the runs before they were proved.

Only model-checked: all liveness, which with ENABLED is out of the prover's reach.

## Not modelled

- Line diffs (difflib) and their grouping; field parsing, text filters, masking and
  CSV export of the accounting pages; comparison of command outputs and the
  read-only check of commands; discovery by SNMP and probing, host keys, CSV import
  of devices; recommendation texts and report exports: conversions of text with no
  state that another part relies on.
- Per-device rows and retrieval threads of one backup: their mix is a
  nondeterministic outcome of the job.
- Signature verification and the clock watermark of the licence; passwords and the
  throttle of failed logins, which change no account.
- A lock connection that is lost while its process lives on.
- Directory and RADIUS encodings, monitoring and TLS settings, start-up migrations,
  the web interface and the installer: input, output and one-shot scripts.

Next steps, where the project would grow: the per-device rows of a backup beside
`NcmSchedule`.
