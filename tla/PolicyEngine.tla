----------------------------- MODULE PolicyEngine -----------------------------
(***************************************************************************)
(* The decision of the platform: which policy a request meets, and what    *)
(* that policy says of a command (policy_engine, condition_engine), for    *)
(* the identity a username resolves to (identity_resolver).  The Policy    *)
(* Simulator and the Effective Access pages ask these operators.           *)
(*                                                                         *)
(* A book of policies is a function from identifiers to rows or None.  A   *)
(* row holds its legacy conditions in group, device and dgroup, and in     *)
(* tree its condition tree or None.  A tree is the sequence of its groups  *)
(* [op, parent, leaves] in the order of their insertion, the root first,   *)
(* whose parent is 0; a leaf is [type, op, ref], the ref of an address     *)
(* leaf being the set of addresses its text covers.  Names stand for ids.  *)
(***************************************************************************)
EXTENDS Shared, Integers, FiniteSets, SequencesExt

CONSTANTS
  LocalUser,    \* the rows of TacacsUser: [name -> [group, enabled, auth]]
  Reported,     \* what the directory reports of a name: its group names, in order
  DirectoryOn,  \* the AD integration is enabled
  GroupCn,      \* [group -> the directory name bound to it, or None]
  Device,       \* [device -> [group, enabled, keys]]
  Hits          \* [pattern -> the commands re.search finds it in]

Groups == DOMAIN GroupCn

-----------------------------------------------------------------------------
(* Identities *)

\* The platform group of a reported name: by directory name, then by plain name.
GroupNamed(n) ==
  LET bound == {g \in Groups : GroupCn[g] = n}
  IN  IF bound # {} THEN CHOOSE g \in bound : TRUE ELSE IF n \in Groups THEN n ELSE None

MapAdGroups(names) ==
  SelectSeq([i \in DOMAIN names |-> GroupNamed(names[i])], LAMBDA g : g # None)

\* A local row wins, enabled or not; the first mapped group stands for a directory user.
ResolveUsername(n) ==
  IF n \in DOMAIN LocalUser THEN [source |-> "local", id |-> n, group |-> LocalUser[n].group]
  ELSE IF DirectoryOn /\ n \in DOMAIN Reported
    THEN LET mapped == MapAdGroups(Reported[n])
         IN  [source |-> "active_directory", id |-> None,
              group |-> IF mapped = <<>> THEN None ELSE Head(mapped)]
    ELSE [source |-> None, id |-> None, group |-> None]

NoSubject == [id |-> None, group |-> None]

EvaluationSubject(identity) == [id |-> identity.id, group |-> identity.group]

RequestContext(subject, d, address) ==
  [user |-> subject.id, group |-> subject.group, device |-> d,
   dgroup |-> IF d = None THEN None ELSE Device[d].group, address |-> address]

-----------------------------------------------------------------------------
(* Conditions *)

Actual(type, r) ==
  CASE type = "user" -> r.user
    [] type = "user_group" -> r.group
    [] type = "device" -> r.device
    [] type = "device_group" -> r.dgroup
    [] type = "source_ip" -> r.address

\* What a request lacks satisfies no condition, negated or not.
EvaluateCondition(leaf, r) ==
  LET actual == Actual(leaf.type, r)
      equal  == IF leaf.type = "source_ip" THEN actual \in leaf.ref ELSE actual = leaf.ref
  IN  /\ actual # None
      /\ equal = (leaf.op \in {"equal", "is_in_cidr"})

Subgroups(tree, i) == {j \in DOMAIN tree : tree[j].parent = i}
Leaves(tree) == UNION {tree[i].leaves : i \in DOMAIN tree}

\* What a group makes of the results of its leaves and subgroups; nothing makes FALSE.
GroupResult(group, results) ==
  /\ results # {}
  /\ \/ group.op = "AND" /\ FALSE \notin results
     \/ group.op = "OR" /\ TRUE \in results
     \/ group.op = "NOT" /\ FALSE \in results

EvaluateTree(tree, r) ==
  LET result[i \in DOMAIN tree] ==
        GroupResult(tree[i], {EvaluateCondition(l, r) : l \in tree[i].leaves}
                               \cup {result[j] : j \in Subgroups(tree, i)})
  IN  result[1]

LegacyMatches(p, r) ==
  /\ p.group # None => r.group = p.group
  /\ p.device # None => r.device = p.device
  /\ p.dgroup # None => r.dgroup = p.dgroup

PolicyMatches(p, r) == IF p.tree # None THEN EvaluateTree(p.tree, r) ELSE LegacyMatches(p, r)

Leaf(type, ref) == [type |-> type, op |-> "equal", ref |-> ref]

LegacyLeaves(p) ==
  {l \in {Leaf("user_group", p.group), Leaf("device", p.device), Leaf("device_group", p.dgroup)} :
     l.ref # None}

\* Mutant: one of the former conditions is enough.
MigratedTreeAny(p) == <<[op |-> "OR", parent |-> 0, leaves |-> LegacyLeaves(p)]>>

\* Refused for a policy with a tree and for one that matches everything.
MigratedTree(p) == <<[op |-> "AND", parent |-> 0, leaves |-> LegacyLeaves(p)]>>

-----------------------------------------------------------------------------
(* Commands and decisions *)

\* Every rule of the enabled sets, in their order, the denials first.
OrderedRules(attached, sets) ==
  LET enabled == SelectSeq(attached, LAMBDA c : sets[c].enabled)
      rules   == FlattenSeq([i \in DOMAIN enabled |-> sets[enabled[i]].rules])
  IN  SelectSeq(rules, LAMBDA x : x.action = "deny")
        \o SelectSeq(rules, LAMBDA x : x.action = "permit")

First(places) == CHOOSE i \in places : \A j \in places : i <= j

FirstHit(rules, command, otherwise) ==
  LET hits == {i \in DOMAIN rules : command \in Hits[rules[i].pattern]}
  IN  IF hits = {} THEN otherwise ELSE rules[First(hits)].action

\* No command at all: a login, which only needs a privilege level.
EvaluateCommand(p, sets, command) ==
  IF command = None THEN None ELSE FirstHit(OrderedRules(p.sets, sets), command, p.action)

Rows(book) == {p \in DOMAIN book : book[p] # None}
Enabled(book) == {p \in Rows(book) : book[p].enabled}

\* The first of some policies in the order evaluation walks them.
Foremost(book, ps) == CHOOSE p \in ps : \A q \in ps : book[p].priority <= book[q].priority

Evaluate(book, sets, r, command) ==
  LET matching == {p \in Enabled(book) : PolicyMatches(book[p], r)}
  IN  IF matching = {} THEN [policy |-> None, priv |-> None, decision |-> "deny"]
      ELSE LET p == Foremost(book, matching)
           IN  [policy |-> p, priv |-> book[p].priv,
                decision |-> EvaluateCommand(book[p], sets, command)]

-----------------------------------------------------------------------------
(* The pages *)

\* The simulator hands the engine the local row: a directory user is evaluated as nobody.
SimulatedSubject(n) ==
  LET identity == ResolveUsername(n)
  IN  IF identity.source = "local" THEN EvaluationSubject(identity) ELSE NoSubject

Simulate(book, sets, n, d, address, command) ==
  Evaluate(book, sets, RequestContext(SimulatedSubject(n), d, address), command)

\* Both pages ask without a source address and without a command.
Reaches(book, sets, subject, d) ==
  Evaluate(book, sets, RequestContext(subject, d, None), None)

AccessOfUsername(book, sets, n) ==
  {d \in DOMAIN Device :
     Reaches(book, sets, EvaluationSubject(ResolveUsername(n)), d).policy # None}

UsersOfDevice(book, sets, d) ==
  {n \in DOMAIN LocalUser : LocalUser[n].enabled
     /\ Reaches(book, sets, EvaluationSubject(ResolveUsername(n)), d).policy # None}
=============================================================================
