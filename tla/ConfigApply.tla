----------------------------- MODULE ConfigApply -----------------------------
(***************************************************************************)
(* Applying a generated configuration to the TACACS+ daemon:               *)
(* apply_candidate and _rollback of services/config_compiler.py, the       *)
(* handlers of api/routes_config.py that call it, services/                *)
(* service_control.py and the baseline of services/config_integrity.py.    *)
(*                                                                         *)
(* Three stores change one after the other: the file, the daemon and the   *)
(* database.  A request holds the gate of reference_lock.py from its first *)
(* read to its first commit, which is the recorded baseline when the       *)
(* daemon's own check was conclusive, and the event row written before the *)
(* file when it was not.  From there to its version row it runs without    *)
(* the gate, and a second request may run beside it.                       *)
(*                                                                         *)
(* A configuration is a model value; what matters of its text is whether   *)
(* the daemon loads it and whether "-P" says so.  The last variables are   *)
(* history: they record what disturbed whom, for the properties.           *)
(***************************************************************************)
EXTENDS Shared, Integers, FiniteSets

CONSTANTS
  Requests,   \* requests that apply a configuration, each used once
  Contents,   \* texts of configurations
  Loadable,   \* those the daemon runs with
  Checkable,  \* those "-P" accepts; it may miss what fails at run time
  Empty,      \* the text of a file that is not there
  Factory,    \* the file the installer left
  Torn,       \* a file being rewritten in place
  Edits       \* what somebody else makes of the file; None removes it

VARIABLES
  file,       \* generated/tac_plus-ng.conf
  running,    \* what the daemon runs, None when it is not active
  version,    \* rows of config_versions: contents by version_number
  backup,     \* backups/tac_plus-ng.conf.v<n>.bak
  baseline,   \* the row of config_integrity_state
  gate,       \* the request whose transaction is open across steps
  pc,         \* where each request is
  request,    \* its locals
  alone,      \* history: no other request, edit or death since it began
  calm,       \* history: nothing unusual since the last undisturbed apply
  causes      \* history: who made the file differ from the baseline: an edit, the platform

store   == <<file, running, version, backup, baseline>>
history == <<alone, calm, causes>>
vars    == <<file, running, version, backup, baseline, gate, pc, request,
             alone, calm, causes>>

ASSUME ApplyAssumption ==
  /\ Loadable \subseteq Contents /\ Checkable \subseteq Contents
  /\ Edits \subseteq Contents \cup {None}
  /\ Empty \in Contents /\ Factory \in Contents
  /\ Torn \notin Contents /\ None \notin Contents \cup Requests /\ Torn # None

-----------------------------------------------------------------------------
(* Data *)

NoRow   == [recorded |-> None, status |-> "none"]
NewRow  == [recorded |-> None, status |-> "unknown"]
Trusted(text) == [recorded |-> text, status |-> "ok"]

NoLocals == [text |-> None, previous |-> None, number |-> 0,
             held |-> FALSE, broken |-> FALSE]

Ended    == {"applied", "rejected", "failed", "raised", "lost"}
InFlight == {r \in Requests : pc[r] \notin Ended \cup {"idle"}}

\* A missing file reads as the empty text.
ActiveText == IF file = None THEN Empty ELSE file

\* Mutant: numbers from zero.
NextVersionFromZero ==
  IF DOMAIN version = {} THEN 0
  ELSE 1 + CHOOSE n \in DOMAIN version : \A m \in DOMAIN version : m <= n

\* Mutant: one number too far.
NextVersionSkips ==
  IF DOMAIN version = {} THEN 1
  ELSE 2 + CHOOSE n \in DOMAIN version : \A m \in DOMAIN version : m <= n

\* func.max(version_number) + 1, without a row lock.
NextVersionNumber ==
  IF DOMAIN version = {} THEN 1
  ELSE 1 + CHOOSE n \in DOMAIN version : \A m \in DOMAIN version : m <= n

\* What the daemon runs once it has read the file.
Loaded == IF file \in Loadable THEN file ELSE None

Goto(r, place) == pc' = [pc EXCEPT ![r] = place]

\* The handler returns or raises.
End(r, outcome) == Goto(r, outcome) /\ request' = [request EXCEPT ![r] = NoLocals]

\* The gate is taken at the first statement of a transaction ...
MayTakeGate(r) == gate \in {None, r}
\* ... and dropped at its end.
DropGate(r) == gate' = IF gate = r THEN None ELSE gate

-----------------------------------------------------------------------------
(* Requests up to the file *)

\* The row a fresh database gets, or nothing; the installer's file, or none.
Init ==
  /\ file \in {None, Factory}
  /\ running = (IF file \in Loadable THEN file ELSE None)
  /\ version = <<>>
  /\ backup = <<>>
  /\ baseline = NoRow
  /\ gate = None
  /\ pc = [r \in Requests |-> "idle"]
  /\ request = [r \in Requests |-> NoLocals]
  /\ alone = [r \in Requests |-> TRUE]
  /\ calm = TRUE
  /\ causes = {}

\* What all three handlers read before the daemon's own check.
Begin(r, text) ==
  /\ pc[r] = "idle"
  /\ gate = None
  /\ gate' = r
  /\ request' = [request EXCEPT ![r] =
                   [text |-> text, previous |-> ActiveText, number |-> NextVersionNumber,
                    held |-> FALSE, broken |-> FALSE]]
  /\ Goto(r, "check")
  /\ IF InFlight = {}
       THEN UNCHANGED <<alone, calm>>
       ELSE /\ alone' = [s \in Requests |-> alone[s] /\ s \notin InFlight \cup {r}]
            /\ calm' = FALSE
  /\ UNCHANGED <<store, causes>>

\* POST /apply: what the database compiles to is any text; refused when it does
\* not compile and when nothing is pending.
ApplyConfig(r) == \E text \in Contents \ {Empty, ActiveText} : Begin(r, text)

\* POST /versions/{n}/restore
RestoreVersion(r) ==
  \E n \in DOMAIN version :
    /\ version[n] # ActiveText
    /\ Begin(r, version[n])

\* POST /import/apply: any text, an empty one too, compared with nothing.
ApplyImport(r) == \E text \in Contents : Begin(r, text)

\* validate_candidate: a text "-P" rejects with a known message ends the
\* request; any other failure of the check is inconclusive and commits an event.
Validate(r) ==
  /\ pc[r] = "check"
  /\ \/ /\ request[r].text \notin Checkable
        /\ End(r, "rejected") /\ DropGate(r)
     \/ Goto(r, "write") /\ DropGate(r) /\ UNCHANGED request
     \/ /\ request[r].text \in Checkable
        /\ request' = [request EXCEPT ![r].held = TRUE]
        /\ Goto(r, "write") /\ UNCHANGED gate
  /\ UNCHANGED <<store, history>>

\* _backup_active, and the first half of _write_config_file: the file is
\* opened for writing, which empties it.
BackUp(r) ==
  /\ pc[r] = "write"
  /\ backup' = IF file = None THEN backup
               ELSE [n \in DOMAIN backup \cup {request[r].number - 1} |->
                       IF n = request[r].number - 1 THEN file ELSE backup[n]]
  /\ file' = Torn
  /\ Goto(r, "fill")
  /\ UNCHANGED <<running, version, baseline, gate, request, history>>

WriteConfigFile(r) ==
  /\ pc[r] = "fill"
  /\ file' = request[r].text
  /\ Goto(r, "record")
  /\ UNCHANGED <<running, version, backup, baseline, gate, request, history>>

-----------------------------------------------------------------------------
(* The baseline *)

\* _get_or_create commits the row it creates.  Looking and inserting are one step: that the
\* watch may insert a second row between the two, once in the life of an installation, is left out.
CreateBaselineRow(r) ==
  /\ pc[r] = "record" /\ MayTakeGate(r)
  /\ baseline = NoRow
  /\ baseline' = NewRow
  /\ request' = [request EXCEPT ![r].held = FALSE]
  /\ DropGate(r)
  /\ UNCHANGED <<file, running, version, backup, pc, history>>

\* record_applied hashes the text that was meant to be written.
RecordApplied(r) ==
  /\ pc[r] = "record" /\ MayTakeGate(r)
  /\ baseline # NoRow
  /\ baseline' = Trusted(request[r].text)
  /\ DropGate(r)
  /\ Goto(r, "reload")
  /\ causes' = IF file = request[r].text THEN {}
               ELSE causes \cup (IF request[r].held THEN {} ELSE {"platform"})
  /\ UNCHANGED <<file, running, version, backup, request, alone, calm>>

\* Waiting for the gate ends after ten seconds.  The exception is swallowed and
\* the session, which nobody rolls back, is of no use to the request any more.
RecordTimesOut(r) ==
  /\ pc[r] = "record" /\ ~MayTakeGate(r)
  /\ request' = [request EXCEPT ![r].broken = TRUE]
  /\ Goto(r, "reload")
  /\ causes' = causes \cup {"platform"}
  /\ UNCHANGED <<store, gate, alone, calm>>

\* config_integrity.check, in a session without the gate; the alert is raised
\* with the statuses "missing" and "modified" and cleared with the others.
CheckIntegrity ==
  /\ baseline' =
       IF baseline.recorded = None THEN NewRow
       ELSE IF file = None THEN [baseline EXCEPT !.status = "missing"]
       ELSE IF file = baseline.recorded THEN Trusted(file)
       ELSE [baseline EXCEPT !.status = "modified"]
  /\ causes' = IF \E r \in Requests : pc[r] \in {"fill", "record"}
                 THEN causes \cup {"platform"} ELSE causes
  /\ UNCHANGED <<file, running, version, backup, gate, pc, request, alone, calm>>

-----------------------------------------------------------------------------
(* The daemon *)

\* systemctl fails on a unit that is not active, and may fail on one that is.
Reload(r) ==
  /\ pc[r] = "reload"
  /\ \/ running # None /\ running' = Loaded /\ Goto(r, "health")
     \/ Goto(r, "restart") /\ UNCHANGED running
  /\ UNCHANGED <<file, version, backup, baseline, gate, request, history>>

\* Mutant: no rollback when the restart fails.
RestartGivesUp(r) ==
  /\ pc[r] = "restart"
  /\ \/ running' = Loaded /\ Goto(r, "health") /\ UNCHANGED request
     \/ running' \in {running, None} /\ End(r, "failed")
  /\ UNCHANGED <<file, version, backup, baseline, gate, history>>

Restart(r) ==
  /\ pc[r] = "restart"
  /\ \/ running' = Loaded /\ Goto(r, "health")
     \/ running' \in {running, None} /\ Goto(r, "undo")
  /\ UNCHANGED <<file, version, backup, baseline, gate, request, history>>

\* subprocess.run gives up after fifteen seconds with an exception that nobody
\* catches: the request ends where it is, without a rollback.
SystemctlTimesOut(r) ==
  /\ pc[r] \in {"reload", "restart", "health", "undo reload", "undo restart"}
  /\ running' \in {running} \cup (IF pc[r] = "health" THEN {} ELSE {Loaded})
  /\ End(r, "raised")
  /\ calm' = FALSE
  /\ UNCHANGED <<file, version, backup, baseline, gate, alone, causes>>

\* Mutant: the answer of systemctl is believed.
CheckNoHealth(r) ==
  /\ pc[r] = "health"
  /\ Goto(r, "commit")
  /\ UNCHANGED <<store, gate, request, history>>

\* Two seconds later the unit must be active.
CheckHealth(r) ==
  /\ pc[r] = "health"
  /\ Goto(r, IF running = None THEN "undo" ELSE "commit")
  /\ UNCHANGED <<store, gate, request, history>>

\* Mutant: the number is not unique in the database.
CommitVersionOver(r) ==
  /\ pc[r] = "commit" /\ MayTakeGate(r)
  /\ ~request[r].broken
  /\ version' = [n \in DOMAIN version \cup {request[r].number} |->
                   IF n = request[r].number THEN request[r].text ELSE version[n]]
  /\ End(r, "applied")
  /\ calm' = (calm \/ alone[r])
  /\ UNCHANGED <<file, running, backup, baseline, gate, alone, causes>>

\* The version row, under the number read at the start; the column is unique.
CommitVersion(r) ==
  /\ pc[r] = "commit" /\ MayTakeGate(r)
  /\ ~request[r].broken
  /\ request[r].number \notin DOMAIN version
  /\ version' = [n \in DOMAIN version \cup {request[r].number} |->
                   IF n = request[r].number THEN request[r].text ELSE version[n]]
  /\ End(r, "applied")
  /\ calm' = (calm \/ alone[r])
  /\ UNCHANGED <<file, running, backup, baseline, gate, alone, causes>>

CommitFails(r) ==
  /\ pc[r] = "commit"
  /\ \/ ~MayTakeGate(r)
     \/ request[r].broken
     \/ request[r].number \in DOMAIN version
  /\ End(r, "raised")
  /\ calm' = FALSE
  /\ UNCHANGED <<store, gate, alone, causes>>

-----------------------------------------------------------------------------
(* _rollback: the file, then reload or restart, whatever they answer.  The  *)
(* baseline keeps the text that was given up.                              *)

UndoBegin(r) ==
  /\ pc[r] = "undo"
  /\ file' = Torn
  /\ causes' = causes \cup {"platform"}
  /\ Goto(r, "undo fill")
  /\ UNCHANGED <<running, version, backup, baseline, gate, request, alone, calm>>

UndoFile(r) ==
  /\ pc[r] = "undo fill"
  /\ file' = request[r].previous
  /\ causes' = causes \cup {"platform"}
  /\ Goto(r, "undo reload")
  /\ UNCHANGED <<running, version, backup, baseline, gate, request, alone, calm>>

UndoReload(r) ==
  /\ pc[r] = "undo reload"
  /\ \/ running # None /\ running' = Loaded /\ End(r, "failed")
     \/ Goto(r, "undo restart") /\ UNCHANGED <<running, request>>
  /\ UNCHANGED <<file, version, backup, baseline, gate, history>>

UndoRestart(r) ==
  /\ pc[r] = "undo restart"
  /\ running' \in {Loaded, running, None}
  /\ End(r, "failed")
  /\ UNCHANGED <<file, version, backup, baseline, gate, history>>

-----------------------------------------------------------------------------
(* Around the requests *)

\* The requests under way are not undisturbed any more.
Disturb ==
  /\ alone' = [r \in Requests |-> alone[r] /\ r \notin InFlight]
  /\ calm' = (calm /\ InFlight = {})

\* Somebody edits or removes the file.
EditOutside ==
  /\ "edit" \notin causes
  /\ file' \in Edits
  /\ causes' = causes \cup {"edit"}
  /\ alone' = [r \in Requests |-> alone[r] /\ r \notin InFlight]
  /\ calm' = FALSE
  /\ UNCHANGED <<running, version, backup, baseline, gate, pc, request>>

\* The daemon stops by itself; systemd starts it again.
DaemonStops ==
  /\ running # None
  /\ running' = None
  /\ Disturb
  /\ UNCHANGED <<file, version, backup, baseline, gate, pc, request, causes>>

DaemonStarts ==
  /\ running = None
  /\ running' = Loaded /\ running' # None
  /\ Disturb
  /\ UNCHANGED <<file, version, backup, baseline, gate, pc, request, causes>>

\* The management process dies with all its requests.
Die ==
  /\ InFlight # {}
  /\ pc' = [r \in Requests |-> IF r \in InFlight THEN "lost" ELSE pc[r]]
  /\ request' = [r \in Requests |-> NoLocals]
  /\ gate' = None
  /\ calm' = FALSE
  /\ causes' = causes \cup {"platform"}
  /\ UNCHANGED <<store, alone>>

\* One step of a request under way.
Work(r) ==
  \/ Validate(r) \/ BackUp(r) \/ WriteConfigFile(r)
  \/ CreateBaselineRow(r) \/ RecordApplied(r) \/ RecordTimesOut(r)
  \/ Reload(r) \/ Restart(r) \/ CheckHealth(r) \/ CommitVersion(r) \/ CommitFails(r)
  \/ UndoBegin(r) \/ UndoFile(r) \/ UndoReload(r) \/ UndoRestart(r)
  \/ SystemctlTimesOut(r)

Next ==
  \/ \E r \in Requests : ApplyConfig(r) \/ RestoreVersion(r) \/ ApplyImport(r) \/ Work(r)
  \/ CheckIntegrity \/ EditOutside
  \/ DaemonStops \/ DaemonStarts \/ Die

Spec == Init /\ [][Next]_vars

-----------------------------------------------------------------------------
(* Properties *)

Places == {"idle", "check", "write", "fill", "record", "reload", "restart", "health",
           "commit", "undo", "undo fill", "undo reload", "undo restart"} \cup Ended
Texts  == Contents \cup {Torn}
Locals == [text : Contents \cup {None}, previous : Texts \cup {None}, number : Nat,
           held : BOOLEAN, broken : BOOLEAN]

\* Every variable has the values the code can give it.
TypeOK ==
  /\ file \in Texts \cup {None}
  /\ running \in Contents \cup {None}
  /\ DOMAIN version \subseteq Nat \ {0}
  /\ version = [n \in DOMAIN version |-> version[n]]
  /\ \A n \in DOMAIN version : version[n] \in Contents
  /\ DOMAIN backup \subseteq Nat
  /\ baseline \in [recorded : Contents \cup {None},
                   status : {"none", "unknown", "ok", "missing", "modified"}]
  /\ gate \in Requests \cup {None}
  /\ pc \in [Requests -> Places]
  /\ request \in [Requests -> Locals]
  /\ alone \in [Requests -> BOOLEAN]
  /\ calm \in BOOLEAN

\* routes_config.py, restore_version: the history is a dense, append-only record.
\* Numbers are read at the start of a request and used at its end, so two
\* requests may want the same one: the second then fails instead of replacing it.
HistoryIsDense == \A n \in DOMAIN version : 1 .. n \subseteq DOMAIN version

HistoryIsAppendOnly ==
  [][\A n \in DOMAIN version : n \in DOMAIN version' /\ version'[n] = version[n]]_vars

\* What an undisturbed request answers is true: after success the daemon runs
\* the text, the file has it, the baseline trusts it and what it replaced is in
\* the backup; after a failure the file is as before, and so is the daemon
\* unless it is down.
AnswersAreTrue ==
  [][\A r \in Requests : alone[r] /\ pc'[r] # pc[r] =>
       /\ pc'[r] = "applied" =>
            /\ request[r].text = file /\ file = running
            /\ baseline = Trusted(file)
            /\ request[r].previous # Empty =>
                 backup[request[r].number - 1] = request[r].previous
       /\ pc'[r] = "failed" =>
            /\ file = request[r].previous
            /\ calm => running' \in {file, None}]_vars

\* As long as every request ran alone to a regular end, the file is the latest
\* version of the history, and the daemon runs it if it runs.
QuietFileIsLatest ==
  calm /\ InFlight = {} =>
    /\ IF DOMAIN version = {} THEN file \in {None, Empty, Factory}
       ELSE file = version[NextVersionNumber - 1]
    /\ running \in {file, None}

\* The watch reports a modified file for a reason: an edit, a rollback, a death,
\* a write under way, or a request that recorded its baseline after it had let
\* the gate go.  Two requests that keep the gate do not cause it.
AlarmHasCause == baseline.status = "modified" => causes # {}

\* What the installation shows of its configuration can be relied on: neither does
\* the file differ unnoticed, nor is a difference reported without a reason.
FileCanBeTrusted == QuietFileIsLatest /\ AlarmHasCause

=============================================================================
