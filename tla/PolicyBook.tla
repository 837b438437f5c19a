------------------------------ MODULE PolicyBook ------------------------------
(***************************************************************************)
(* The administration of the policies: create, update, move, reorder and   *)
(* delete, the condition tree editor and the migration to it, versions     *)
(* and their restoration, command sets, RADIUS policies and device access  *)
(* grants.  Every operation is one transaction.                            *)
(***************************************************************************)
EXTENDS PolicyCompiler

CONSTANTS
  Policies, RadiusPolicies, CommandSets,
  DeviceGroups,   \* the rows of DeviceGroup
  Bodies,         \* the complete mutations an administrator submits, without the priority
  Trees,          \* the trees the tree editor submits
  RadiusBodies,   \* the RADIUS forms, without the priority
  GrantForms,     \* the grants asked for
  SetBodies,      \* the contents given to command sets
  Addresses, Commands, Services,  \* what the requests are made of
  InitialBooks,   \* the books a session of edits starts from: [policies, radius, grants, sets, versions]
  MaxPriority,    \* bound: the priorities submitted
  EditLimit       \* bound: the operations of a session

\* The rows the tables hold.
Refs == DOMAIN LocalUser \cup Groups \cup DOMAIN Device \cup DeviceGroups \cup SUBSET Addresses
Conditions ==
  {l \in [type : {"user", "user_group", "device", "device_group", "source_ip"},
          op : {"equal", "not_equal", "is_in_cidr", "is_not_in_cidr"}, ref : Refs] :
     /\ l.type = "user_group" => l.ref \in Groups
     /\ l.type = "device" => l.ref \in DOMAIN Device
     /\ l.type = "device_group" => l.ref \in DeviceGroups}
ConditionGroups == [op : {"AND", "OR", "NOT"}, parent : Nat, leaves : SUBSET Conditions]
\* A group is inserted after its parent.
ConditionTrees ==
  {t \in Seq(ConditionGroups) :
     /\ t # <<>> /\ t[1].parent = 0
     /\ \A i \in DOMAIN t \ {1} : t[i].parent \in 1..(i - 1)}

OptionalGroup == {None} \cup Groups
OptionalDevice == {None} \cup DOMAIN Device
OptionalDeviceGroup == {None} \cup DeviceGroups
Actions == {"permit", "deny"}
\* requires_manual_approval with manual_default_command_set_id, which only a policy in manual mode
\* may name; None for a policy out of it.
Approvals == {None} \cup [set : {None} \cup CommandSets]

PolicyRows ==
  [enabled : BOOLEAN, priority : Nat, group : OptionalGroup, device : OptionalDevice,
   dgroup : OptionalDeviceGroup, tree : {None} \cup ConditionTrees, priv : 0..15,
   action : Actions, sets : Seq(CommandSets), approval : Approvals]
RadiusRows ==
  [enabled : BOOLEAN, priority : Nat, group : OptionalGroup, device : OptionalDevice,
   dgroup : OptionalDeviceGroup, service : {None} \cup Services, action : Actions, born : Nat]
Grants ==
  {g \in [group : Groups, device : OptionalDevice, dgroup : OptionalDeviceGroup] :
     (g.device = None) # (g.dgroup = None)}
\* What a version keeps: of a policy whose group is external, nothing that can be restored.
Snapshots ==
  {v \in [enabled : BOOLEAN, priority : Nat, group : OptionalGroup, device : OptionalDevice,
          dgroup : OptionalDeviceGroup, priv : 0..15, action : Actions, sets : Seq(CommandSets),
          blocked : BOOLEAN] :
     v.group \in External => v.blocked}

\* The deferred unique constraint, evaluated once, at commit.
PrioritiesDiffer(book) ==
  \A p, q \in Rows(book) : p # q => book[p].priority # book[q].priority

\* A book as the handlers leave it, `age` operations after the session began.
IsBook(ps, rs, gs, vs, age) ==
  /\ ps \in [Policies -> {None} \cup PolicyRows]
  /\ rs \in [RadiusPolicies -> {None} \cup RadiusRows]
  /\ gs \in Seq(Grants)
  /\ vs \in [Policies -> Seq(Snapshots)]
  /\ PrioritiesDiffer(ps)
  /\ \A p, q \in Rows(rs) : p # q => rs[p].born # rs[q].born
  /\ \A p \in Rows(rs) : rs[p].born <= age

ASSUME BookAssumption ==
  /\ IsFiniteSet(Policies) /\ IsFiniteSet(RadiusPolicies) /\ MaxPriority \in Nat
  /\ None \notin Policies \cup RadiusPolicies \cup Groups \cup DOMAIN Device \cup DeviceGroups
                  \cup Addresses \cup Commands \cup PolicyRows \cup RadiusRows \cup ConditionTrees
  /\ "" \notin Commands
  /\ \A n \in DOMAIN LocalUser : LocalUser[n].group \in OptionalGroup
  /\ \A d \in DOMAIN Device : Device[d].group \in OptionalDeviceGroup
  /\ Trees \subseteq ConditionTrees /\ GrantForms \subseteq Grants
  /\ Bodies \subseteq [enabled : BOOLEAN, group : OptionalGroup, device : OptionalDevice,
                       dgroup : OptionalDeviceGroup, tree : {None} \cup ConditionTrees,
                       priv : 0..15, action : Actions, sets : Seq(CommandSets),
                       approval : Approvals]
  /\ RadiusBodies \subseteq [enabled : BOOLEAN, group : OptionalGroup, device : OptionalDevice,
                             dgroup : OptionalDeviceGroup, service : {None} \cup Services,
                             action : Actions]
  /\ \A b \in InitialBooks : IsBook(b.policies, b.radius, b.grants, b.versions, 0)

VARIABLES
  policies,   \* [Policies -> row or None]
  radius,     \* [RadiusPolicies -> row or None]
  grants,     \* the grants, oldest first
  sets,       \* [CommandSets -> [enabled, rules]]
  versions,   \* [Policies -> sequence of snapshots]; none for a deleted policy
  answer,     \* [op, on, result] of the last operation
  edits

bookVars == <<policies, radius, grants, sets, versions, answer, edits>>

Priorities == 0..MaxPriority

InitBook ==
  /\ \E b \in InitialBooks :
       /\ policies = b.policies /\ radius = b.radius /\ grants = b.grants /\ sets = b.sets
       /\ versions = b.versions
  /\ answer = [op |-> "none", on |-> None, result |-> "ok"]
  /\ edits = 0

\* One more operation, and what it answers.
Reply(op, p, result) == /\ edits < EditLimit
                        /\ edits' = edits + 1
                        /\ answer' = [op |-> op, on |-> p, result |-> result]

\* Commit, or the constraint's refusal: "conflict" is a 409 or a 500, and nothing is kept.
Commit(op, p, book, vs) ==
  IF PrioritiesDiffer(book)
    THEN policies' = book /\ versions' = vs /\ Reply(op, p, "ok")
    ELSE UNCHANGED <<policies, versions>> /\ Reply(op, p, "conflict")

-----------------------------------------------------------------------------
(* Versions *)

\* A snapshot keeps what a restoration needs, the manual mode left out; a tree it can only mention.
Snapshot(p) ==
  [enabled |-> p.enabled, priority |-> p.priority, group |-> p.group, device |-> p.device,
   dgroup |-> p.dgroup, priv |-> p.priv, action |-> p.action, sets |-> p.sets,
   blocked |-> p.tree # None \/ p.group \in External]

RecordVersion(vs, p, row) == [vs EXCEPT ![p] = Append(@, Snapshot(row))]

\* The restored row: no tree, and the name and the manual mode left alone.
Restored(s, old) ==
  [enabled |-> s.enabled, priority |-> s.priority, group |-> s.group, device |-> s.device,
   dgroup |-> s.dgroup, priv |-> s.priv, action |-> s.action, sets |-> s.sets, tree |-> None,
   approval |-> old.approval]

Restore(p) ==
  /\ p \in Rows(policies)
  /\ \E v \in DOMAIN versions[p] :
       LET old == policies[p]
           row == Restored(versions[p][v], old)
       IN  IF \/ versions[p][v].blocked
              \/ Snapshot(old).blocked
              \/ ~Deployable(row, "tacacs")
             THEN UNCHANGED <<policies, versions>> /\ Reply("restore", p, "refused")
             ELSE Commit("restore", p, [policies EXCEPT ![p] = row], RecordVersion(versions, p, row))
  /\ UNCHANGED <<radius, grants, sets>>

-----------------------------------------------------------------------------
(* Policies *)

\* Mutant: the rows after the new place make room even when the row comes from before it.
MakeRoomAlways(book, p, new) ==
  [q \in DOMAIN book |->
     IF q = p \/ book[q] = None THEN book[q]
     ELSE [book[q] EXCEPT !.priority = IF @ > new THEN @ + 1 ELSE @]]

\* A creation shifts what follows it; a move shifts by one what lies between the two places.
MakeRoom(book, p, new) ==
  LET old == book[p].priority
      shift(at) == IF book[p] = None THEN (IF at >= new THEN 1 ELSE 0)
                   ELSE IF new < old THEN (IF new <= at /\ at < old THEN 1 ELSE 0)
                   ELSE IF old < at /\ at <= new THEN -1 ELSE 0
  IN  [q \in DOMAIN book |->
         IF q = p \/ book[q] = None THEN book[q] ELSE [book[q] EXCEPT !.priority = @ + shift(@)]]

\* create_policy and update_policy: room is made, the row and its tree replaced as a whole.
Save(p) ==
  /\ \E body \in Bodies, new \in Priorities :
       LET row == [enabled |-> body.enabled, priority |-> new, group |-> body.group,
                   device |-> body.device, dgroup |-> body.dgroup, tree |-> body.tree,
                   priv |-> body.priv, action |-> body.action, sets |-> body.sets,
                   approval |-> body.approval]
           op  == IF policies[p] = None THEN "create" ELSE "update"
       IN  IF Deployable(row, "tacacs")
             THEN Commit(op, p, [MakeRoom(policies, p, new) EXCEPT ![p] = row],
                         RecordVersion(versions, p, row))
             ELSE UNCHANGED <<policies, versions>> /\ Reply(op, p, "refused")
  /\ UNCHANGED <<radius, grants, sets>>

\* Leaves a hole, and its versions belong to no policy any more.
Delete(p) ==
  /\ p \in Rows(policies)
  /\ Commit("delete", p, [policies EXCEPT ![p] = None], [versions EXCEPT ![p] = <<>>])
  /\ UNCHANGED <<radius, grants, sets>>

\* The list need not name every policy.
Reorder ==
  /\ \E listed \in SUBSET Rows(policies) :
       /\ listed # {}
       /\ \E order \in SetToSeqs(listed) :
            Commit("reorder", None,
              [p \in Policies |-> IF p \in listed
                THEN [policies[p] EXCEPT !.priority =
                        (CHOOSE i \in DOMAIN order : order[i] = p) - 1]
                ELSE policies[p]], versions)
  /\ UNCHANGED <<radius, grants, sets>>

\* From the accounting page: one more set at the end, no version.
AddCommandSet(p) ==
  /\ p \in Rows(policies)
  /\ \E c \in CommandSets :
       Commit("add_set", p,
         IF \E i \in DOMAIN policies[p].sets : policies[p].sets[i] = c THEN policies
         ELSE [policies EXCEPT ![p].sets = Append(@, c)], versions)
  /\ UNCHANGED <<radius, grants, sets>>

\* The tree editor validates the nodes, not the scope, and records no version.
ReplaceTree(p) ==
  /\ p \in Rows(policies)
  /\ \E t \in Trees : Commit("replace_tree", p, [policies EXCEPT ![p].tree = t], versions)
  /\ UNCHANGED <<radius, grants, sets>>

MigrateConditions(p) ==
  /\ p \in Rows(policies)
  /\ IF policies[p].tree # None \/ LegacyLeaves(policies[p]) = {}
       THEN UNCHANGED <<policies, versions>> /\ Reply("migrate", p, "refused")
       ELSE Commit("migrate", p,
              [policies EXCEPT ![p].tree = MigratedTree(policies[p])], versions)
  /\ UNCHANGED <<radius, grants, sets>>

-----------------------------------------------------------------------------
(* The rest of the book *)

SaveCommandSet(c) ==
  /\ \E body \in SetBodies : body # sets[c] /\ sets' = [sets EXCEPT ![c] = body]
  /\ Reply("save_set", None, "ok")
  /\ UNCHANGED <<policies, radius, grants, versions>>

\* Neither the references nor the scope of a RADIUS policy are looked at.
SaveRadius(q) ==
  /\ \E body \in RadiusBodies, new \in Priorities :
       radius' = [radius EXCEPT ![q] =
         [enabled |-> body.enabled, priority |-> new, group |-> body.group, device |-> body.device,
          dgroup |-> body.dgroup, service |-> body.service, action |-> body.action,
          born |-> IF radius[q] = None THEN edits + 1 ELSE radius[q].born]]
  /\ Reply("save_radius", None, "ok")
  /\ UNCHANGED <<policies, grants, sets, versions>>

DeleteRadius(q) ==
  /\ q \in Rows(radius)
  /\ radius' = [radius EXCEPT ![q] = None]
  /\ Reply("delete_radius", None, "ok")
  /\ UNCHANGED <<policies, grants, sets, versions>>

CreateGrant ==
  /\ \E g \in GrantForms :
       IF \E i \in DOMAIN grants : grants[i] = g
         THEN UNCHANGED grants /\ Reply("grant", None, "refused")
         ELSE grants' = Append(grants, g) /\ Reply("grant", None, "ok")
  /\ UNCHANGED <<policies, radius, sets, versions>>

DeleteGrant ==
  /\ \E i \in DOMAIN grants : grants' = RemoveAt(grants, i)
  /\ Reply("delete_grant", None, "ok")
  /\ UNCHANGED <<policies, radius, sets, versions>>

EditBook ==
  \/ \E p \in Policies : \/ Save(p) \/ Delete(p) \/ AddCommandSet(p) \/ ReplaceTree(p)
                         \/ MigrateConditions(p) \/ Restore(p)
  \/ Reorder
  \/ \E c \in CommandSets : SaveCommandSet(c)
  \/ \E q \in RadiusPolicies : SaveRadius(q) \/ DeleteRadius(q)
  \/ CreateGrant
  \/ DeleteGrant

SpecBook == InitBook /\ [][EditBook]_bookVars

-----------------------------------------------------------------------------
(* Properties *)

Compiles == CompileIssues(policies, sets, radius, grants) = {}

\* The request lacks what an enabled policy's negated condition reads.
NegatesAbsence(tree, r) ==
  \E l \in Leaves(tree) : l.op \in {"not_equal", "is_not_in_cidr"} /\ Actual(l.type, r) = None

ReadsAddress(tree) == \E l \in Leaves(tree) : l.type = "source_ip"
NamesExternal(tree) == \E l \in Leaves(tree) : l.type = "user_group" /\ l.ref \in External

EnabledTrees == {policies[p].tree : p \in Enabled(policies)} \ {None}

Granted(r) == \E i \in DOMAIN grants :
  /\ r.group = grants[i].group
  /\ IF grants[i].device # None THEN r.device = grants[i].device ELSE r.dgroup = grants[i].dgroup

\* The RADIUS policies whose conditions, the Service-Type left aside, the request meets.
RadiusMet(r) == {q \in Enabled(radius) : LegacyMatches(radius[q], r)}

\* A shell request: the grants and the RADIUS policies stand before what the engine says.
ShellDecidedAsSimulated(rules, n, d, a, command) ==
  LET r   == RequestContext(SimulatedSubject(n), d, a)
      run == Daemon(rules, Session(n, d, a, "tacacs", None, IF command = None THEN "" ELSE command))
      sim == Simulate(policies, sets, n, d, a, command)
  IN  IF Granted(r) THEN run.kind = "grant" /\ run.decision = "permit"
      ELSE IF RadiusMet(r) # {} THEN run.kind = "radius" /\ run.decision = "deny"
      ELSE IF \E t \in EnabledTrees : NegatesAbsence(t, r) THEN TRUE
      ELSE /\ run.name = sim.policy /\ run.priv = sim.priv
           /\ run.decision = IF command = None /\ sim.policy # None THEN "permit"
                             ELSE sim.decision

\* A RADIUS request: the foremost policy it meets answers, or refuses by its Service-Type.
RadiusDecidedAsDeclared(rules, n, d, a, service) ==
  LET r   == RequestContext(SimulatedSubject(n), d, a)
      run == Daemon(rules, Session(n, d, a, "radius", service, ""))
      met == RadiusMet(r)
      q   == CHOOSE q \in met : \A other \in met \ {q} : RadiusBefore(radius[q], radius[other])
  IN  run.decision =
        IF Granted(r) \/ met = {} \/ radius[q].service \notin {None, service} THEN "deny"
        ELSE radius[q].action

\* What the access pages say of a user and a device is what the simulator says.
PagesAnswerAsSimulated(n, d, a) ==
  ( /\ d \in AccessOfUsername(policies, sets, n)
    /\ n \in UsersOfDevice(policies, sets, d) )
  = (Simulate(policies, sets, n, d, a, None).policy # None)

\* The condition the retained helpers give a policy is the one that is generated.
HelpersAgree(row) ==
  LET helper == IF row.tree # None THEN CompileConditionGroupTree(row.tree)
                ELSE ConditionExpression(row)
  IN  row.group \notin External /\ ~ (row.tree # None /\ NamesExternal(row.tree))
        => helper = RenderScope(row, "tacacs")

\* The generated rules, walked by the daemon, decide every request of a locally authenticated
\* user on a deployed device as the simulator and the access pages say, but for what the code
\* puts elsewhere on purpose: a grant first, then a RADIUS policy of either protocol, a negated
\* condition on what the request lacks (the engine fails closed, the daemon does not), and the
\* membership of an external group, which is the directory's to tell.  Two of these are not what
\* the repository says of itself.  config_compiler.py:1466 has the protocol guard keep a RADIUS
\* policy from a shell's authorization: the guard is in the profile, its rule still meets the shell
\* and refuses it (RadiusLeavesShellsAlone).  models/policy.py:130 has a policy in manual mode
\* compile to a static DENY: neither the compiler nor the engine reads the flag, and the policy
\* decides here, as there, as it would without it.
CompiledDecidesAsSimulated ==
  Compiles =>
    LET rules == Ruleset(policies, sets, radius, grants)
    IN  /\ \A n \in DOMAIN LocalUser, d \in DOMAIN Device :
             HasBlock(n) /\ LocalUser[n].group \notin External /\ Declared(n, d, "tacacs") =>
               \A a \in Addresses :
                 /\ \A c \in Commands \cup {None} : ShellDecidedAsSimulated(rules, n, d, a, c)
                 /\ Declared(n, d, "radius") =>
                      \A s \in Services : RadiusDecidedAsDeclared(rules, n, d, a, s)
                 /\ (\A t \in EnabledTrees : ~ ReadsAddress(t)) => PagesAnswerAsSimulated(n, d, a)
        /\ \A p \in Enabled(policies) : HelpersAgree(policies[p])

\* "without it a RADIUS profile would also apply to TACACS+ sessions, silently changing shell
\* authorization for the same users" (config_compiler.py:1466), of the guard that is there: with
\* the RADIUS policies and without them a shell request is decided alike.  It is not: the rule of a
\* RADIUS policy has no guard, meets the shell before any policy does, and its profile says nothing.
RadiusLeavesShellsAlone ==
  Compiles =>
    LET with    == Ruleset(policies, sets, radius, grants)
        without == Ruleset(policies, sets, [q \in RadiusPolicies |-> None], grants)
    IN  \A n \in DOMAIN LocalUser, d \in DOMAIN Device, a \in Addresses, c \in Commands \cup {""} :
          HasBlock(n) /\ Declared(n, d, "tacacs") =>
            LET s == Session(n, d, a, "tacacs", None, c)
            IN  Daemon(with, s).decision = Daemon(without, s).decision

\* Editing one policy never turns the order of two others round, and a creation or a move
\* always finds room: only a restoration or a partial reordering can meet a taken place.
KeepsTheOthersInOrder ==
  /\ answer'.op # "reorder" =>
       \A p, q \in (Rows(policies) \cap Rows(policies')) \ {answer'.on} :
          policies[p].priority < policies[q].priority
            => policies'[p].priority < policies'[q].priority
  /\ answer'.result = "conflict" => answer'.op \in {"restore", "reorder"}
EditsKeepTheOthersInOrder == [][KeepsTheOthersInOrder]_bookVars

\* A migration changes no decision of the engine; a restored policy meets the requests its
\* version met, and shows no difference to it.
KeepsDecisions ==
  /\ answer'.op = "migrate" =>
       \A n \in DOMAIN LocalUser, d \in DOMAIN Device \cup {None}, a \in Addresses, c \in Commands :
          Simulate(policies', sets', n, d, a, c) = Simulate(policies, sets, n, d, a, c)
  /\ answer'.op = "restore" /\ answer'.result = "ok" /\ edits' # edits =>
       \E v \in DOMAIN versions[answer'.on] :
          LET was == versions[answer'.on][v]
              row == policies'[answer'.on]
          IN  /\ Snapshot(row) = was
              /\ \A n \in DOMAIN LocalUser, d \in DOMAIN Device :
                   LET r == RequestContext(SimulatedSubject(n), d, None)
                   IN  PolicyMatches(row, r) = LegacyMatches(was, r)
RewritingKeepsDecisions == [][KeepsDecisions]_bookVars
=============================================================================
