--------------------------- MODULE DeviceInventory ---------------------------
(***************************************************************************)
(* The device inventory and the three ways a device gets into it: by hand  *)
(* (api/routes_devices.py), from the list of unrecognized connections      *)
(* (quick-add, api/routes_monitoring.py) and by a scan                     *)
(* (api/routes_network_scan.py); with them the licence check of            *)
(* services/entitlements.py and the insert hook of models/device.py.       *)
(*                                                                         *)
(* Adding and editing a device, scanning hosts and pushing AAA commands    *)
(* take several steps; each is a task.  A web request holds the gate of    *)
(* reference_lock.py within one transaction; what runs after the response  *)
(* (a scan, the SSH push) holds none.  The inventory and the equipment are *)
(* two stores: the secret of a device is kept in both.  An address is the  *)
(* IPv4 one: the code compares no ipv6_address with another.               *)
(***************************************************************************)
EXTENDS Shared, Integers, FiniteSets, Sequences

CONSTANTS
  Devices,        \* identifiers of device rows, each used once
  Hosts,          \* addresses at which a box answers
  Addresses,      \* [ip, net]: the host of an address and the network it spans
  Names,          \* device names
  Hostname,       \* the name each box reports
  Renamed,        \* that name with the last octet of its address
  Groups,         \* identifiers of device groups, each used once
  MonitorGroups,  \* those that groups named "monitor" are given
  Secrets,        \* shared secrets in the inventory and in edited commands
  TypedRows,      \* rows an administrator types; None leaves a stored secret alone
  TypedSecrets,   \* secrets he types into AAA commands; None leaves them unedited
  Scans,          \* scans he asks for: hosts, group and the secret of edited commands
  CommunityLimit, \* devices allowed without a valid licence
  LicensedLimit,  \* devices the licence allows
  Tasks,          \* requests and background tasks, each used once
  InitialDevice,  \* rows the inventory starts with
  InitialGroups

VARIABLES
  device,         \* rows of network_devices, by identifier
  retired,        \* identifiers of deleted devices and groups, never given again
  groups,         \* rows of device_groups
  licence,        \* the row of platform_license, as "current" judges it
  equipment,      \* the secret each box is configured with
  gate,           \* the task whose transaction is open across steps
  at,             \* where each task is
  work,           \* its locals
  touched,        \* history: tasks that met another task or an edit on their way
  drift           \* history: hosts whose secret has a reason to differ

inventory == <<device, retired, groups, licence, equipment, gate, at, work, touched, drift>>

Licences == {"none", "valid", "moved", "expired"}
Fresh(t, h) == <<"generated", t, h>>
AllSecrets == Secrets \cup {Fresh(t, h) : t \in Tasks, h \in Hosts}

ASSUME InventoryAssumption ==
  /\ Addresses \subseteq [ip : Hosts, net : SUBSET Hosts]
  /\ \A a \in Addresses : a.ip \in a.net
  /\ Hostname \in [Hosts -> Names] /\ Renamed \in [Hosts -> Names]
  /\ CommunityLimit \in Nat /\ LicensedLimit \in Nat
  /\ DOMAIN InitialDevice \subseteq Devices /\ IsFiniteSet(DOMAIN InitialDevice)
  /\ InitialDevice \in [DOMAIN InitialDevice ->
       [name : Names, addr : Addresses, group : InitialGroups \cup {None},
        enabled : BOOLEAN, secret : Secrets]]
  /\ InitialGroups \cup MonitorGroups \subseteq Groups /\ Groups \cap Devices = {}
  /\ TypedRows \subseteq [name : Names, addr : Addresses, group : Groups \cup {None},
                          enabled : BOOLEAN, secret : Secrets \cup {None}]
  /\ TypedSecrets \subseteq Secrets \cup {None}
  /\ \A s \in Scans : /\ s.hosts \in Seq(Hosts) \ {<<>>}
                      /\ s.group \in Groups \cup {None} /\ s.secret \in Secrets \cup {None}
  /\ None \notin Groups \cup Tasks \cup AllSecrets

-----------------------------------------------------------------------------
(* Data *)

\* Mutant: a network is refused inside a wider one, not around a narrower one.
OverlapsInside(a, b) == a.net \subseteq b.net

\* ip_network(...).overlaps: either direction.
Overlaps(a, b) == a.net \cap b.net # {}

\* _check_no_overlap, on the rows another session has committed.
NoOverlap(addr, rows) == \A d \in DOMAIN rows : ~Overlaps(addr, rows[d].addr)

\* The effective limit of check_can_add_device: a licence that is expired, or
\* bound to other hardware, counts as none.
EffectiveLimit == IF licence = "valid" THEN LicensedLimit ELSE CommunityLimit

\* The hook verifies the signature and the dates, not the machine.
HookLimit == IF licence \in {"valid", "moved"} THEN LicensedLimit ELSE CommunityLimit

MayAddDevice == Cardinality(DOMAIN device) + 1 <= EffectiveLimit

NameFree(name, d) == \A e \in DOMAIN device \ {d} : device[e].name # name
GroupThere(g)     == g \in groups \cup {None}

NoWork == [kind |-> None, id |-> None, row |-> None, addr |-> None, secret |-> None, left |-> <<>>,
           seen |-> <<>>, counted |-> 0, limit |-> 0]

InUse == {t \in Tasks : at[t] \notin {"idle", "done", "lost"}}
Goto(t, place) == at' = [at EXCEPT ![t] = place]

End(t) == Goto(t, "done") /\ work' = [work EXCEPT ![t] = NoWork]

\* A web request, and not what runs after the response.
Requested(t) == work[t].kind \in {"create", "quick", "update"}

\* The gate is free, or this request has it already.
MayTakeGate(t) == gate \in {None, t}

\* History: what is in flight has company; so has what starts beside it.
Meet(t) == touched' = touched \cup (IF InUse = {} THEN {} ELSE InUse \cup {t})

NewRow(name, addr, group, secret) ==
  [name |-> name, addr |-> addr, group |-> group, enabled |-> TRUE, secret |-> secret]

FreeIds == Devices \ (DOMAIN device \cup retired)
WithRow(d, row) == [e \in DOMAIN device \cup {d} |-> IF e = d THEN row ELSE device[e]]

InitInventory ==
  /\ device = InitialDevice /\ retired = {} /\ groups = InitialGroups
  /\ licence \in {"none", "valid"}
  /\ equipment = [h \in Hosts |-> None]
  /\ gate = None
  /\ at = [t \in Tasks |-> "idle"]
  /\ work = [t \in Tasks |-> NoWork]
  /\ touched = {} /\ drift = Hosts

-----------------------------------------------------------------------------
(* Adding a device by hand *)

\* Overlap and licence are read in one transaction, which judging an installed
\* licence commits: _effective_now stores the highest time it has seen.
CreateDevice(t) ==
  /\ at[t] = "idle" /\ gate = None
  /\ MayAddDevice
  /\ \E typed \in TypedRows :
       /\ GroupThere(typed.group) /\ typed.secret # None
       /\ NoOverlap(typed.addr, device)
       /\ work' = [work EXCEPT ![t] = [NoWork EXCEPT !.kind = "create", !.row = typed, !.seen = device]]
  /\ gate' = IF licence = "none" THEN t ELSE None
  /\ Goto(t, "flush") /\ Meet(t)
  /\ UNCHANGED <<device, retired, groups, licence, equipment, drift>>

\* POST /quick-add: an address and a name no row has yet; that a wider network
\* of the inventory holds the address is not asked.  A missing monitor group is
\* seeded in a commit of its own, after the checks.
QuickAddDevice(t) ==
  /\ at[t] = "idle" /\ gate = None
  /\ \E typed \in TypedRows :
       /\ typed.addr.net = {typed.addr.ip} /\ typed.enabled /\ typed.secret # None
       /\ \A d \in DOMAIN device : device[d].addr # typed.addr
       /\ NameFree(typed.name, None)
       /\ work' = [work EXCEPT ![t] = [NoWork EXCEPT !.kind = "quick", !.row = typed, !.seen = device]]
  /\ \/ groups \cap MonitorGroups # {} /\ groups' = groups /\ gate' = t
     \/ /\ groups \cap MonitorGroups = {} /\ gate' = None
        /\ \E g \in MonitorGroups \ retired : groups' = groups \cup {g}
  /\ Goto(t, "limit") /\ Meet(t)
  /\ UNCHANGED <<device, retired, licence, equipment, drift>>

\* The group, if it is still there, and the licence; then as for any other row.
QuickLimit(t) ==
  /\ at[t] = "limit" /\ MayTakeGate(t)
  /\ \/ /\ MayAddDevice
        /\ \E g \in groups \cup {None} :
             /\ IF groups \cap MonitorGroups = {} THEN g = None ELSE g \in MonitorGroups
             /\ work' = [work EXCEPT ![t].row = [@ EXCEPT !.group = g]]
        /\ gate' = IF licence = "none" THEN t ELSE None
        /\ Goto(t, "flush")
     \/ ~MayAddDevice /\ gate' = None /\ End(t)
  /\ UNCHANGED <<device, retired, groups, licence, equipment, touched, drift>>

\* Mutant: the hook is gone.
FlushUncounted(t) ==
  /\ at[t] = "flush"
  /\ Requested(t) => MayTakeGate(t)
  /\ work' = [work EXCEPT ![t].counted = Cardinality(DOMAIN device), ![t].limit = HookLimit]
  /\ gate' = IF Requested(t) THEN t ELSE gate
  /\ Goto(t, "commit")
  /\ UNCHANGED <<device, retired, groups, licence, equipment, touched, drift>>

\* before_insert: the rows are counted once more, on the connection of the insert.
FlushDevice(t) ==
  /\ at[t] = "flush"
  /\ Requested(t) => MayTakeGate(t)
  /\ IF Cardinality(DOMAIN device) + 1 <= HookLimit
       THEN /\ Goto(t, "commit")
            /\ work' = [work EXCEPT ![t].counted = Cardinality(DOMAIN device), ![t].limit = HookLimit]
            /\ gate' = IF Requested(t) THEN t ELSE gate
       ELSE /\ End(t) \* PermissionError: 500, or the end of the scan
            /\ gate' = IF gate = t THEN None ELSE gate
  /\ UNCHANGED <<device, retired, groups, licence, equipment, touched, drift>>

\* The unique name and the group's foreign key are the database's own checks.
CommitDevice(t) ==
  /\ at[t] = "commit" /\ work[t].kind \in {"create", "quick"}
  /\ LET row == work[t].row IN
     IF NameFree(row.name, None) /\ GroupThere(row.group)
       THEN /\ \E d \in FreeIds : device' = WithRow(d, row)
            /\ drift' = drift \cup {row.addr.ip}
       ELSE UNCHANGED <<device, drift>>
  /\ gate' = None
  /\ End(t)
  /\ UNCHANGED <<retired, groups, licence, equipment, touched>>

\* PUT /api/devices/{id}: checked and committed under the gate, between which a
\* scan, which has none, may add rows.  A new secret is stored, never pushed.
UpdateDevice(t, d) ==
  /\ at[t] = "idle" /\ gate = None
  /\ d \in DOMAIN device
  /\ \E typed \in TypedRows :
       LET row  == [typed EXCEPT !.secret = IF typed.secret = None THEN device[d].secret ELSE typed.secret]
           rest == [e \in DOMAIN device \ {d} |-> device[e]]
       IN /\ GroupThere(typed.group)
          /\ NoOverlap(typed.addr, rest)
          /\ row # device[d]
          /\ work' = [work EXCEPT ![t] = [NoWork EXCEPT !.kind = "update", !.id = d, !.row = row, !.seen = rest]]
  /\ gate' = t
  /\ Goto(t, "commit") /\ Meet(t)
  /\ UNCHANGED <<device, retired, groups, licence, equipment, drift>>

\* A name that is taken by now is the database's to refuse: 409.
CommitUpdate(t) ==
  /\ at[t] = "commit" /\ work[t].kind = "update"
  /\ LET d == work[t].id
         row == work[t].row
     IN \/ /\ NameFree(row.name, d)
           /\ device' = [device EXCEPT ![d] = row]
           /\ drift' = IF row.secret = device[d].secret /\ row.addr = device[d].addr
                         THEN drift ELSE drift \cup {row.addr.ip}
        \/ ~NameFree(row.name, d) /\ UNCHANGED <<device, drift>>
  /\ gate' = None
  /\ End(t)
  /\ UNCHANGED <<retired, groups, licence, equipment, touched>>

\* A licence is imported or removed, runs out, or the machine under it changes.
ChangeLicence ==
  /\ gate = None
  /\ licence' \in Licences \ {licence}
  /\ UNCHANGED <<device, retired, groups, equipment, gate, at, work, touched, drift>>

-----------------------------------------------------------------------------
(* Network scan and provision *)

\* POST /apply and /apply-all: hosts one after the other, in the background.
\* Edited commands carry one secret for all hosts.
StartScan(t) ==
  /\ at[t] = "idle" /\ gate = None
  /\ \E asked \in Scans :
       /\ GroupThere(asked.group)
       /\ work' = [work EXCEPT ![t] = [NoWork EXCEPT !.kind = "scan", !.left = asked.hosts,
                     !.row = NewRow(None, None, asked.group, asked.secret)]]
  /\ Goto(t, "check") /\ Meet(t)
  /\ UNCHANGED <<device, retired, groups, licence, equipment, gate, drift>>

Target(t) == Head(work[t].left)
HostAddress(h) == [ip |-> h, net |-> {h}]

\* The host has its result; the next one starts from what the request asked for.
Report(t) ==
  IF Len(work[t].left) = 1 THEN End(t)
  ELSE /\ work' = [work EXCEPT ![t] = [NoWork EXCEPT !.kind = "scan", !.row = work[t].row,
                                                      !.left = Tail(work[t].left)]]
       /\ Goto(t, "check")

\* An exception ends the whole scan: later hosts are not tried, and the results
\* of the earlier ones are not reported.
AbortScan(t) == End(t)

ScanCheck(t) ==
  /\ at[t] = "check"
  /\ IF NoOverlap(HostAddress(Target(t)), device)
       THEN /\ work' = [work EXCEPT ![t].seen = device, ![t].addr = HostAddress(Target(t))]
            /\ Goto(t, "gather")
       ELSE Report(t)
  /\ UNCHANGED <<device, retired, groups, licence, equipment, gate, touched, drift>>

\* SSH: the box names itself, or does not answer.  A name that is taken gets the
\* last octet appended.
ScanGather(t) ==
  /\ at[t] = "gather"
  /\ LET h == Target(t)
         name == IF NameFree(Hostname[h], None) THEN Hostname[h] ELSE Renamed[h]
         secret == IF work[t].row.secret \in Secrets THEN work[t].row.secret ELSE Fresh(t, h)
     IN \/ Report(t)
        \/ /\ work' = [work EXCEPT ![t].row = NewRow(name, HostAddress(h), work[t].row.group,
                                                      work[t].row.secret),
                                   ![t].secret = secret]
           /\ Goto(t, "apply")
  /\ UNCHANGED <<device, retired, groups, licence, equipment, gate, touched, drift>>

\* SSH again: the commands, with the secret among them.  A failure may come
\* before or after the line that sets it.
ScanApply(t) ==
  /\ at[t] = "apply"
  /\ LET h == Target(t) IN
     \/ /\ equipment' = [equipment EXCEPT ![h] = work[t].secret]
        /\ drift' = drift \cup {h}
        /\ Goto(t, "licence") /\ UNCHANGED work
     \/ /\ equipment' \in {equipment, [equipment EXCEPT ![h] = work[t].secret]}
        /\ drift' = drift \cup {h}
        /\ Report(t)
  /\ UNCHANGED <<device, retired, groups, licence, gate, touched>>

\* check_can_add_device comes after the box has been configured; its refusal is
\* an exception nobody catches per host.
ScanLicence(t) ==
  /\ at[t] = "licence"
  /\ IF MayAddDevice THEN Goto(t, "flush") /\ UNCHANGED work ELSE AbortScan(t)
  /\ UNCHANGED <<device, retired, groups, licence, equipment, gate, touched, drift>>

\* Mutant: the row gets a secret of its own instead of the one that was sent.
ScanCommitOther(t) ==
  /\ at[t] = "commit" /\ work[t].kind = "scan"
  /\ LET row == [work[t].row EXCEPT !.secret = CHOOSE s \in Secrets : s # work[t].secret] IN
     IF NameFree(row.name, None) /\ GroupThere(row.group)
       THEN /\ \E d \in FreeIds : device' = WithRow(d, row)
            /\ drift' = drift \ {row.addr.ip}
            /\ Report(t)
       ELSE AbortScan(t) /\ UNCHANGED <<device, drift>>
  /\ UNCHANGED <<retired, groups, licence, equipment, gate, touched>>

\* The row is inserted with the secret that was sent.  If nobody else reached
\* the box meanwhile, inventory and equipment agree.
ScanCommit(t) ==
  /\ at[t] = "commit" /\ work[t].kind = "scan"
  /\ LET row == [work[t].row EXCEPT !.secret = work[t].secret] IN
     IF NameFree(row.name, None) /\ GroupThere(row.group)
       THEN /\ \E d \in FreeIds : device' = WithRow(d, row)
            /\ drift' = IF t \in touched THEN drift ELSE drift \ {row.addr.ip}
            /\ Report(t)
       ELSE AbortScan(t) /\ UNCHANGED <<device, drift>>
  /\ UNCHANGED <<retired, groups, licence, equipment, gate, touched>>

-----------------------------------------------------------------------------
(* Pushing AAA commands to a device of the inventory *)

\* POST /{id}/apply-aaa: unedited commands carry the stored secret; edited ones
\* may carry another, which is stored before the push.
ApplyAaa(t, d) ==
  /\ at[t] = "idle" /\ gate = None
  /\ d \in DOMAIN device
  /\ \E typed \in TypedSecrets :
       LET secret == IF typed = None THEN device[d].secret ELSE typed IN
       /\ work' = [work EXCEPT ![t] = [NoWork EXCEPT !.kind = "push", !.addr = device[d].addr,
                                         !.row = d, !.secret = secret]]
       /\ device' = [device EXCEPT ![d].secret = secret]
  /\ drift' = drift \cup {device[d].addr.ip}
  /\ Goto(t, "push") /\ Meet(t)
  /\ UNCHANGED <<retired, groups, licence, equipment, gate>>

\* The push reaches the address the device had then.
PushAaa(t) ==
  /\ at[t] = "push"
  /\ LET h == work[t].addr.ip IN
     \/ /\ equipment' = [equipment EXCEPT ![h] = work[t].secret]
        /\ drift' = IF t \in touched \/ Cardinality({d \in DOMAIN device : device[d].addr.ip = h}) > 1
                      THEN drift \cup {h} ELSE drift \ {h}
     \/ /\ equipment' \in {equipment, [equipment EXCEPT ![h] = work[t].secret]}
        /\ drift' = drift \cup {h}
  /\ End(t)
  /\ UNCHANGED <<device, retired, groups, licence, gate, touched>>

\* A device group is deleted: its members stay, without a group.
DropGroup(g) ==
  /\ groups' = groups \ {g} /\ retired' = retired \cup {g}
  /\ device' = [d \in DOMAIN device |->
                  IF device[d].group = g THEN [device[d] EXCEPT !.group = None] ELSE device[d]]

\* The process ends: its tasks are gone, their open transactions with them.
LoseTasks ==
  /\ at' = [t \in Tasks |-> IF t \in InUse THEN "lost" ELSE at[t]]
  /\ work' = [t \in Tasks |-> NoWork]
=============================================================================
