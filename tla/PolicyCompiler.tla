---------------------------- MODULE PolicyCompiler ----------------------------
(***************************************************************************)
(* What the policies become in the generated configuration: the scope of   *)
(* each policy is resolved (policy_scope), the rules and profiles are      *)
(* emitted (config_compiler), and the daemon, which is outside this        *)
(* repository, walks them.  The module also says what the pages of         *)
(* PolicyEngine leave out: grants and RADIUS policies.                     *)
(*                                                                         *)
(* A term is an AND or OR of tests [field, eq, values], a single test an   *)
(* AND of one.  An expression is laid out like a condition tree, its       *)
(* groups [op, parent, parts] with terms for leaves; an expression without *)
(* groups stands for a rule without a condition.                           *)
(***************************************************************************)
EXTENDS PolicyEngine

CONSTANTS
  RadiusOn,  \* the RADIUS service is enabled
  External,  \* the groups whose authority is the directory
  Unsound,   \* those of them whose binding external_binding_diagnostics rejects
  Unsafe     \* the patterns that cannot stand between slashes

DevicesOf(dg) == {d \in DOMAIN Device : Device[d].group = dg}
MembersOf(g) == {n \in DOMAIN LocalUser : LocalUser[n].group = g /\ LocalUser[n].enabled}

-----------------------------------------------------------------------------
(* Scope resolution *)

GroupIssues(g, op, protocol) ==
  IF g \in External
    THEN IF g \in Unsound THEN {"external_binding"}
         ELSE IF protocol # "tacacs" THEN {"external_protocol_unsupported"}
         ELSE IF op # "equal" THEN {"external_negation_unsupported"}
         ELSE {}
    ELSE IF MembersOf(g) # {} THEN {}
         ELSE IF DirectoryOn \/ GroupCn[g] # None THEN {"identity_membership_unknown"}
         ELSE {"empty_group"}

LeafIssues(leaf, protocol) ==
  CASE leaf.type = "user" -> {"unsupported_condition"}
    [] leaf.type = "device_group" -> IF DevicesOf(leaf.ref) = {} THEN {"empty_group"} ELSE {}
    [] leaf.type = "user_group" -> GroupIssues(leaf.ref, leaf.op, protocol)
    [] leaf.type \in {"device", "source_ip"} -> {}

Operators == {"AND", "OR"}
IsEmptyGroup(tree, i) == tree[i].leaves = {} /\ Subgroups(tree, i) = {}

TreeIssues(tree) ==
  {"unsupported_operator" : i \in {j \in DOMAIN tree : tree[j].op \notin Operators}}
    \cup {"empty_tree_group" : i \in {j \in DOMAIN tree : IsEmptyGroup(tree, j)}}
    \cup UNION {LeafIssues(l, "tacacs") : l \in Leaves(tree)}

\* A RADIUS policy has no tree.
HasTree(p, protocol) == protocol = "tacacs" /\ p.tree # None

ScopeIssues(p, protocol) ==
  IF HasTree(p, protocol) THEN TreeIssues(p.tree)
  ELSE UNION {LeafIssues(l, protocol) : l \in LegacyLeaves(p)}

Deployable(p, protocol) == ScopeIssues(p, protocol) = {}

-----------------------------------------------------------------------------
(* Expressions *)

Is(field, eq, values) == [field |-> field, eq |-> eq, values |-> values]
Term(op, tests) == [op |-> op, tests |-> tests]
OneTest(field, eq, values) == Term("AND", {Is(field, eq, values)})

\* Mutant: the devices of a group are joined the same way under a negation.
LeafExpressionLoose(leaf) ==
  LET eq == leaf.op \in {"equal", "is_in_cidr"}
  IN  CASE leaf.type = "device" -> OneTest("device", eq, {leaf.ref})
        [] leaf.type = "source_ip" -> OneTest("nac", eq, leaf.ref)
        [] leaf.type = "user_group" -> OneTest("member", eq, {leaf.ref})
        [] leaf.type = "device_group" ->
             Term("OR", {Is("device", eq, {d}) : d \in DevicesOf(leaf.ref)})

\* A device group is the disjunction of its devices; its negation, the conjunction of theirs.
LeafExpression(leaf) ==
  LET eq == leaf.op \in {"equal", "is_in_cidr"}
  IN  CASE leaf.type = "device" -> OneTest("device", eq, {leaf.ref})
        [] leaf.type = "source_ip" -> OneTest("nac", eq, leaf.ref)
        [] leaf.type = "user_group" /\ leaf.ref \notin External -> OneTest("member", eq, {leaf.ref})
        [] leaf.type = "user_group" /\ leaf.ref \in External ->
             Term("AND", {Is("identity-source", TRUE, {"active_directory"}),
                          Is("member", TRUE, {leaf.ref}), Is("aaa.protocol", TRUE, {"tacacs"})})
        [] leaf.type = "device_group" ->
             Term(IF eq THEN "OR" ELSE "AND",
                  {Is("device", eq, {d}) : d \in DevicesOf(leaf.ref)})

AllOf(parts) == <<[op |-> "AND", parent |-> 0, parts |-> parts]>>

NoCondition == <<>>

TreeExpression(tree) ==
  [i \in DOMAIN tree |-> [op |-> tree[i].op, parent |-> tree[i].parent,
                          parts |-> {LeafExpression(l) : l \in tree[i].leaves}]]

RenderScope(p, protocol) ==
  IF HasTree(p, protocol) THEN TreeExpression(p.tree)
  ELSE IF LegacyLeaves(p) = {} THEN NoCondition
  ELSE AllOf({LeafExpression(l) : l \in LegacyLeaves(p)})

(* The helpers the compiler retains for its callers, which resolve nothing. *)

Refused == None   \* UncompilablePolicyError
IsRefused(leaf) == \/ leaf.type = "user"
                   \/ leaf.type = "device_group" /\ DevicesOf(leaf.ref) = {}

CompileConditionLeaf(leaf) ==
  LET eq == leaf.op \in {"equal", "is_in_cidr"}
  IN  CASE leaf.type = "user_group" -> OneTest("member", eq, {leaf.ref})
        [] leaf.type = "device" -> OneTest("device", eq, {leaf.ref})
        [] leaf.type = "source_ip" -> OneTest("nac", eq, leaf.ref)
        [] leaf.type = "device_group" ->
             Term(IF eq THEN "OR" ELSE "AND",
                  {Is("device", eq, {d}) : d \in DevicesOf(leaf.ref)})

CompileConditionGroupTree(tree) ==
  IF \E i \in DOMAIN tree : \/ tree[i].op = "NOT" \/ IsEmptyGroup(tree, i)
                            \/ \E l \in tree[i].leaves : IsRefused(l)
    THEN Refused
    ELSE [i \in DOMAIN tree |-> [op |-> tree[i].op, parent |-> tree[i].parent,
                                 parts |-> {CompileConditionLeaf(l) : l \in tree[i].leaves}]]

ConditionExpression(p) ==
  IF LegacyLeaves(p) = {} THEN NoCondition
  ELSE IF \E l \in LegacyLeaves(p) : IsRefused(l) THEN Refused
  ELSE AllOf({CompileConditionLeaf(l) : l \in LegacyLeaves(p)})

-----------------------------------------------------------------------------
(* What the file declares besides rules: the daemon listens, knows hosts by *)
(* their keys and users by their passwords or through the directory.        *)

Listeners == {"tacacs"} \cup (IF RadiusOn THEN {"radius"} ELSE {})

\* A device without a secret for a protocol is no host of it.
IsHost(d, protocol) == Device[d].enabled /\ protocol \in Device[d].keys

\* The users with a block of their own.
HasBlock(n) == n \in DOMAIN LocalUser /\ LocalUser[n].enabled /\ LocalUser[n].auth = "local"

\* A local user's password serves logins and, by delegation, RADIUS PAP.
Passwords(n) ==
  IF HasBlock(n) THEN {"login"} \cup (IF RadiusOn THEN {"pap"} ELSE {}) ELSE {}

\* The questions the daemon asks the directory for users it has no block of.
Backends == IF ~ DirectoryOn THEN {} ELSE {"login", "user"} \cup (IF RadiusOn THEN {"pap"} ELSE {})

\* The profile that all grants share.
OverrideProfile == [priv |-> 15, rules |-> <<>>, action |-> "permit"]

\* Locked-out users have no rule: the daemon cannot match a user by name.
LockoutRules == <<>>

-----------------------------------------------------------------------------
(* Rules and profiles *)

\* Each entry: a rule with its condition, and the profile the rule gives.
PolicyEntry(name, p, sets) ==
  [kind |-> "policy", name |-> name, when |-> RenderScope(p, "tacacs"), priv |-> p.priv,
   rules |-> OrderedRules(p.sets, sets), action |-> p.action, service |-> None]

GrantDevices(g) == IF g.device # None THEN {g.device} ELSE DevicesOf(g.dgroup)

GrantEntry(g) ==
  [kind |-> "grant", name |-> g, service |-> None, priv |-> OverrideProfile.priv,
   rules |-> OverrideProfile.rules, action |-> OverrideProfile.action,
   when |-> AllOf({OneTest("member", TRUE, {g.group}), OneTest("device", TRUE, GrantDevices(g))})]

RadiusEntry(name, q) ==
  [kind |-> "radius", name |-> name, when |-> RenderScope(q, "radius"), priv |-> None,
   rules |-> <<>>, action |-> q.action, service |-> q.service]

\* The members of a set in an order, the order given as its pairs.
InOrder(S, order) ==
  [k \in 1..Cardinality(S) |->
     CHOOSE x \in S : Cardinality({y \in S : <<y, x>> \in order}) = k - 1]

\* A grant whose group has no device is left out.
Granting(grants) == {i \in DOMAIN grants : GrantDevices(grants[i]) # {}}
GrantOrder(grants) == {x \in Granting(grants) \X Granting(grants) : x[1] < x[2]}

PriorityOrder(book) ==
  {x \in Enabled(book) \X Enabled(book) : book[x[1]].priority < book[x[2]].priority}

\* RADIUS priorities are not unique; equal ones go by age.
RadiusBefore(p, q) == \/ p.priority < q.priority
                      \/ p.priority = q.priority /\ p.born < q.born
RadiusOrder(radius) ==
  {x \in Enabled(radius) \X Enabled(radius) : RadiusBefore(radius[x[1]], radius[x[2]])}

PatternIsSafe(pattern) == pattern \notin Unsafe

\* Every diagnostic of every enabled policy; one of them rejects the candidate.
CompileIssues(book, sets, radius, grants) ==
  LET scopes(rows, protocol) == UNION {ScopeIssues(rows[p], protocol) : p \in Enabled(rows)}
  IN  scopes(book, "tacacs") \cup scopes(radius, "radius")
        \cup {"external_override_unsupported" :
                 g \in {i \in DOMAIN grants : grants[i].group \in External}}
        \cup {"unsafe_pattern" : p \in {q \in Enabled(book) :
                 \E i \in DOMAIN OrderedRules(book[q].sets, sets) :
                    ~ PatternIsSafe(OrderedRules(book[q].sets, sets)[i].pattern)}}

\* The ruleset: lockouts, grants by age, RADIUS policies, TACACS+ policies.
GrantRules(grants) ==
  LET order == InOrder(Granting(grants), GrantOrder(grants))
  IN  [k \in DOMAIN order |-> GrantEntry(grants[order[k]])]
RadiusRules(radius) ==
  LET order == InOrder(Enabled(radius), RadiusOrder(radius))
  IN  [k \in DOMAIN order |-> RadiusEntry(order[k], radius[order[k]])]
PolicyRules(book, sets) ==
  LET order == InOrder(Enabled(book), PriorityOrder(book))
  IN  [k \in DOMAIN order |-> PolicyEntry(order[k], book[order[k]], sets)]
Ruleset(book, sets, radius, grants) ==
  LockoutRules \o GrantRules(grants) \o RadiusRules(radius) \o PolicyRules(book, sets)

-----------------------------------------------------------------------------
(* The daemon: the first rule whose condition holds gives the profile, and *)
(* a profile that says nothing refuses.                                    *)

\* The requests that get as far as the rules.
Declared(n, d, protocol) ==
  LET method == IF protocol = "radius" THEN "pap" ELSE "login"
  IN  /\ protocol \in Listeners /\ IsHost(d, protocol)
      /\ method \in Passwords(n) \/ (method \in Backends /\ n \in DOMAIN Reported)

Session(n, d, address, protocol, service, command) ==
  [member |-> IF HasBlock(n) THEN {LocalUser[n].group} \ {None}
              ELSE {Reported[n][i] : i \in DOMAIN Reported[n]},
   source |-> IF HasBlock(n) THEN "local" ELSE "active_directory",
   device |-> d, address |-> address, protocol |-> protocol, service |-> service, command |-> command]

FieldValues(field, s) ==
  CASE field = "member" -> s.member
    [] field = "device" -> {s.device}
    [] field = "nac" -> {s.address}
    [] field = "identity-source" -> {s.source}
    [] field = "aaa.protocol" -> {s.protocol}

TestHolds(t, s) == (FieldValues(t.field, s) \cap t.values # {}) = t.eq
Combined(op, values) == \/ op = "AND" /\ FALSE \notin values
                        \/ op = "OR" /\ TRUE \in values
TermHolds(term, s) == Combined(term.op, {TestHolds(t, s) : t \in term.tests})

Holds(e, s) ==
  LET value[i \in DOMAIN e] ==
        Combined(e[i].op, {TermHolds(part, s) : part \in e[i].parts}
                            \cup {value[j] : j \in Subgroups(e, i)})
  IN  value[1]

\* The profile of a rule: a policy and a grant speak of TACACS+ shells, a RADIUS policy of RADIUS.
ProfileDecision(entry, s) ==
  CASE entry.kind = "radius" ->
         IF s.protocol = "radius" /\ entry.service \in {None, s.service} THEN entry.action ELSE "deny"
    [] entry.kind # "radius" /\ s.protocol = "radius" -> "deny"
    [] entry.kind # "radius" /\ s.protocol = "tacacs" ->
         IF s.command = "" THEN "permit" ELSE FirstHit(entry.rules, s.command, entry.action)

Met(ruleset, s) ==
  {i \in DOMAIN ruleset : ruleset[i].when = NoCondition \/ Holds(ruleset[i].when, s)}

Daemon(ruleset, s) ==
  LET met == Met(ruleset, s)
  IN  IF met = {} THEN [kind |-> None, name |-> None, priv |-> None, decision |-> "deny"]
      ELSE LET entry == ruleset[First(met)]
           IN  [kind |-> entry.kind, name |-> entry.name, priv |-> entry.priv,
                decision |-> ProfileDecision(entry, s)]
=============================================================================
