---------------------------- MODULE Policies_proofs ----------------------------
(***************************************************************************)
(* The policies, for every book and every session of edits: the handlers   *)
(* keep the order of the policies they do not touch, rewriting a policy    *)
(* changes no decision, and the generated rules decide what the simulator  *)
(* says.                                                                   *)
(***************************************************************************)
EXTENDS PolicyBook, FiniteSetTheorems, SequenceTheorems, NaturalsInduction, TLAPS

-----------------------------------------------------------------------------
(* The rows *)

Books == [Policies -> {None} \cup PolicyRows]
Histories == [Policies -> Seq(Snapshots)]

\* What the handlers rely on: rows of the tables, no place taken twice, and no refusal by the
\* unique constraint but of a restoration or a reordering.
BookSafe ==
  /\ IsBook(policies, radius, grants, versions, edits)
  /\ edits \in Nat
  /\ answer.result = "conflict" => answer.op \in {"restore", "reorder"}

LEMMA RowsAreSomething == None \notin PolicyRows \cup RadiusRows \cup ConditionTrees \cup Policies
BY BookAssumption

LEMMA RowsOf ==
  ASSUME NEW book \in Books, NEW p \in Rows(book)
  PROVE  p \in Policies /\ book[p] \in PolicyRows /\ book[p].priority \in Nat
BY DEF Books, Rows, PolicyRows

LEMMA RadiusRowsOf ==
  ASSUME NEW rs \in [RadiusPolicies -> {None} \cup RadiusRows], NEW q \in Rows(rs)
  PROVE  q \in RadiusPolicies /\ rs[q] \in RadiusRows /\ rs[q].priority \in Nat /\ rs[q].born \in Nat
BY DEF Rows, RadiusRows

LEMMA NewPriority ==
  ASSUME NEW row \in PolicyRows, NEW at \in Nat
  PROVE  /\ [row EXCEPT !.priority = at] \in PolicyRows
         /\ [row EXCEPT !.priority = at].priority = at
BY DEF PolicyRows

LEMMA NewTree ==
  ASSUME NEW row \in PolicyRows, NEW t \in ConditionTrees
  PROVE  LET new == [row EXCEPT !.tree = t]
         IN  /\ new \in PolicyRows /\ new.priority = row.priority /\ new.tree = t
             /\ new.enabled = row.enabled /\ new.group = row.group /\ new.device = row.device
             /\ new.dgroup = row.dgroup /\ new.priv = row.priv /\ new.action = row.action
             /\ new.sets = row.sets
BY DEF PolicyRows

LEMMA NewSets ==
  ASSUME NEW row \in PolicyRows, NEW cs \in Seq(CommandSets)
  PROVE  /\ [row EXCEPT !.sets = cs] \in PolicyRows
         /\ [row EXCEPT !.sets = cs].priority = row.priority
BY DEF PolicyRows

LEMMA SnapshotIsKept ==
  ASSUME NEW row \in PolicyRows PROVE Snapshot(row) \in Snapshots
BY DEF PolicyRows, Snapshots, Snapshot

LEMMA RestoredIsRow ==
  ASSUME NEW v \in Snapshots, NEW old \in PolicyRows
  PROVE  /\ Restored(v, old) \in PolicyRows /\ Restored(v, old).priority = v.priority
         /\ Restored(v, old).tree = None
BY DEF PolicyRows, Snapshots, Restored

LEMMA LegacyLeavesAreConditions ==
  ASSUME NEW row, row.group \in OptionalGroup, row.device \in OptionalDevice,
         row.dgroup \in OptionalDeviceGroup, NEW l \in LegacyLeaves(row)
  PROVE  l \in Conditions /\ l.op = "equal"
<1>1. CASE l = Leaf("user_group", row.group)
  BY <1>1 DEF LegacyLeaves, Leaf, Conditions, Refs, OptionalGroup
<1>2. CASE l = Leaf("device", row.device)
  BY <1>2 DEF LegacyLeaves, Leaf, Conditions, Refs, OptionalDevice
<1>3. CASE l = Leaf("device_group", row.dgroup)
  BY <1>3 DEF LegacyLeaves, Leaf, Conditions, Refs, OptionalDeviceGroup
<1> QED
  BY <1>1, <1>2, <1>3 DEF LegacyLeaves

LEMMA MigratedIsTree ==
  ASSUME NEW row \in PolicyRows PROVE MigratedTree(row) \in ConditionTrees
<1>1. LegacyLeaves(row) \subseteq Conditions
  <2>1. row.group \in OptionalGroup /\ row.device \in OptionalDevice /\ row.dgroup \in OptionalDeviceGroup
    BY DEF PolicyRows
  <2> QED
    BY <2>1, LegacyLeavesAreConditions
<1> DEFINE root == [op |-> "AND", parent |-> 0, leaves |-> LegacyLeaves(row)]
<1>2. root \in ConditionGroups
  BY <1>1 DEF ConditionGroups
<1> HIDE DEF root
<1>3. <<root>> \in Seq(ConditionGroups) /\ <<root>> # <<>> /\ <<root>>[1] = root /\ DOMAIN <<root>> = {1}
  BY <1>2
<1>4. root.parent = 0
  BY DEF root
<1> QED
  BY <1>3, <1>4 DEF ConditionTrees, MigratedTree, root

LEMMA VersionIsRecorded ==
  ASSUME NEW vs \in Histories, NEW p \in Policies, NEW row \in PolicyRows
  PROVE  RecordVersion(vs, p, row) \in Histories
<1>1. Append(vs[p], Snapshot(row)) \in Seq(Snapshots)
  BY SnapshotIsKept, AppendProperties DEF Histories
<1> QED
  BY <1>1 DEF RecordVersion, Histories

\* A policy alone rewritten.
LEMMA OneRewritten ==
  ASSUME NEW book \in Books, NEW p \in Policies, NEW row \in {None} \cup PolicyRows
  PROVE  LET new == [book EXCEPT ![p] = row]
         IN  /\ new \in Books /\ new[p] = row
             /\ \A q \in Policies \ {p} : new[q] = book[q]
BY DEF Books

LEMMA OneAtItsPlace ==
  ASSUME NEW book \in Books, PrioritiesDiffer(book), NEW p \in Rows(book), NEW row \in PolicyRows,
         row.priority = book[p].priority
  PROVE  PrioritiesDiffer([book EXCEPT ![p] = row])
<1> DEFINE new == [book EXCEPT ![p] = row]
<1>1. p \in Policies /\ DOMAIN book = Policies /\ DOMAIN new = Policies /\ new[p] = row
      /\ \A q \in Policies \ {p} : new[q] = book[q]
  BY RowsOf DEF Books
<1>2. \A q \in Rows(new) : q \in Rows(book) /\ new[q].priority = book[q].priority
  BY <1>1 DEF Rows
<1> QED
  BY <1>2 DEF PrioritiesDiffer

LEMMA OneDropped ==
  ASSUME NEW book \in Books, PrioritiesDiffer(book), NEW p \in Policies
  PROVE  PrioritiesDiffer([book EXCEPT ![p] = None])
<1> DEFINE new == [book EXCEPT ![p] = None]
<1>1. DOMAIN book = Policies /\ DOMAIN new = Policies /\ new[p] = None
      /\ \A q \in Policies \ {p} : new[q] = book[q]
  BY DEF Books
<1>2. \A q \in Rows(new) : q \in Rows(book) /\ new[q] = book[q]
  BY <1>1 DEF Rows
<1> QED
  BY <1>2 DEF PrioritiesDiffer

\* What a commit leaves behind, whether the constraint lets it through or not.
LEMMA CommitKeepsBook ==
  ASSUME BookSafe, NEW op, NEW p, NEW book \in Books, NEW vs \in Histories,
         Commit(op, p, book, vs), UNCHANGED <<radius, grants, sets>>,
         PrioritiesDiffer(book) \/ op \in {"restore", "reorder"}
  PROVE  BookSafe'
<1>1. edits' = edits + 1 /\ edits' \in Nat /\ answer'.op = op
  BY DEF Commit, Reply, BookSafe
<1>2. \A q \in Rows(radius) : radius[q].born <= edits'
  BY <1>1, RadiusRowsOf DEF BookSafe, IsBook
<1>3. CASE PrioritiesDiffer(book)
  <2>1. policies' = book /\ versions' = vs /\ answer'.result = "ok"
    BY <1>3 DEF Commit, Reply
  <2> QED
    BY <1>1, <1>2, <1>3, <2>1 DEF BookSafe, IsBook, Books, Histories, Rows, PrioritiesDiffer
<1>4. CASE ~ PrioritiesDiffer(book)
  <2>1. policies' = policies /\ versions' = versions
    BY <1>4 DEF Commit
  <2> QED
    BY <1>1, <1>2, <1>4, <2>1 DEF BookSafe, IsBook, Rows, PrioritiesDiffer
<1> QED
  BY <1>3, <1>4

LEMMA RefusalKeepsBook ==
  ASSUME BookSafe, NEW op, NEW p, NEW result, result # "conflict", Reply(op, p, result),
         UNCHANGED <<policies, versions, radius, grants>>
  PROVE  BookSafe'
<1>1. edits' = edits + 1 /\ edits' \in Nat /\ answer'.result = result
  BY DEF Reply, BookSafe
<1>2. \A q \in Rows(radius) : radius[q].born <= edits'
  BY <1>1, RadiusRowsOf DEF BookSafe, IsBook
<1> QED
  BY <1>1, <1>2 DEF BookSafe, IsBook, Rows, PrioritiesDiffer

-----------------------------------------------------------------------------
(* Making room *)

\* Room at a place: the others stay rows, in their order, and leave the place free.
LEMMA RoomIsMade ==
  ASSUME NEW book \in Books, PrioritiesDiffer(book), NEW p \in Policies, NEW new \in Nat
  PROVE  LET room == MakeRoom(book, p, new)
         IN  /\ room \in Books
             /\ \A q \in Rows(book) \ {p} :
                  q \in Rows(room) /\ room[q].priority # new
             /\ \A q \in Rows(room) \ {p} : q \in Rows(book)
             /\ \A q, x \in Rows(book) \ {p} :
                  book[q].priority < book[x].priority => room[q].priority < room[x].priority
<1> DEFINE room == MakeRoom(book, p, new)
           old == book[p].priority
           shift(at) == IF book[p] = None THEN (IF at >= new THEN 1 ELSE 0)
                        ELSE IF new < old THEN (IF new <= at /\ at < old THEN 1 ELSE 0)
                        ELSE IF old < at /\ at <= new THEN -1 ELSE 0
           place(q) == book[q].priority + shift(book[q].priority)
<1>1. DOMAIN book = Policies /\ DOMAIN room = Policies
  BY DEF Books, MakeRoom
<1>2. book[p] # None => old \in Nat
  BY RowsOf DEF Books, Rows
<1>3. ASSUME NEW q \in Policies, q = p \/ book[q] = None PROVE room[q] = book[q]
  BY <1>1, <1>3 DEF MakeRoom
<1>4. ASSUME NEW q \in Rows(book) \ {p} PROVE room[q] = [book[q] EXCEPT !.priority = place(q)]
  BY <1>1, <1>4 DEF MakeRoom, Rows
<1>5. ASSUME NEW q \in Rows(book) \ {p}
      PROVE  /\ book[q].priority \in Nat /\ place(q) \in Nat /\ book[q] \in PolicyRows
             /\ book[p] # None => book[q].priority # old
  <2>1. book[q].priority \in Nat /\ book[q] \in PolicyRows
    BY RowsOf
  <2>2. book[p] # None => book[q].priority # old
    BY <1>1 DEF PrioritiesDiffer, Rows
  <2>3. shift(book[q].priority) \in {0, 1, -1}
        /\ (shift(book[q].priority) = -1 => book[p] # None /\ old < book[q].priority)
    OBVIOUS
  <2>4. place(q) \in Nat
    <3> HIDE DEF shift, old
    <3> QED
      BY <1>2, <2>1, <2>3
  <2> QED
    BY <2>1, <2>2, <2>4
<1>6. ASSUME NEW q \in Rows(book) \ {p}
      PROVE  room[q] \in PolicyRows /\ room[q].priority = place(q) /\ room[q] # None
  <2>1. book[q] \in PolicyRows /\ place(q) \in Nat /\ room[q] = [book[q] EXCEPT !.priority = place(q)]
    BY <1>4, <1>5
  <2> HIDE DEF place, room
  <2>2. room[q] \in PolicyRows /\ room[q].priority = place(q)
    BY <2>1, NewPriority
  <2> QED
    BY <2>2, RowsAreSomething
<1>7. room \in Books
  <2>1. \A q \in Policies : room[q] \in {None} \cup PolicyRows
    BY <1>1, <1>3, <1>6 DEF Rows, Books
  <2>2. room = [q \in Policies |-> room[q]]
    BY <1>1 DEF MakeRoom
  <2> QED
    BY <2>1, <2>2 DEF Books
<1>8. \A q \in Rows(book) \ {p} : q \in Rows(room) /\ room[q].priority # new
  <2> SUFFICES ASSUME NEW q \in Rows(book) \ {p} PROVE q \in Rows(room) /\ place(q) # new
    BY <1>6
  <2>1. q \in Rows(room)
    BY <1>1, <1>6 DEF Rows
  <2>2. place(q) # new
    BY <1>2, <1>5
  <2> QED
    BY <2>1, <2>2
<1>9. \A q \in Rows(room) \ {p} : q \in Rows(book)
  BY <1>1, <1>3 DEF Rows
<1>10. ASSUME NEW q \in Rows(book) \ {p}, NEW x \in Rows(book) \ {p},
              book[q].priority < book[x].priority
       PROVE  place(q) < place(x)
  BY <1>2, <1>5, <1>10
<1> HIDE DEF place, shift, old
<1> QED
  BY <1>6, <1>7, <1>8, <1>9, <1>10

\* The saved row takes the place that was made.
LEMMA RoomIsTaken ==
  ASSUME NEW book \in Books, PrioritiesDiffer(book), NEW p \in Policies, NEW row \in PolicyRows
  PROVE  LET saved == [MakeRoom(book, p, row.priority) EXCEPT ![p] = row]
         IN  /\ saved \in Books
             /\ PrioritiesDiffer(saved)
             /\ \A q, x \in Rows(book) \ {p} :
                  book[q].priority < book[x].priority => saved[q].priority < saved[x].priority
<1> DEFINE room == MakeRoom(book, p, row.priority)
           saved == [room EXCEPT ![p] = row]
<1>1. row.priority \in Nat
  BY DEF PolicyRows
<1>2. /\ room \in Books
      /\ \A q \in Rows(book) \ {p} : q \in Rows(room) /\ room[q].priority # row.priority
      /\ \A q \in Rows(room) \ {p} : q \in Rows(book)
      /\ \A q, x \in Rows(book) \ {p} :
           book[q].priority < book[x].priority => room[q].priority < room[x].priority
  BY <1>1, RoomIsMade
<1> HIDE DEF room
<1>3. saved \in Books /\ saved[p] = row /\ \A q \in Policies \ {p} : saved[q] = room[q]
  BY <1>2, OneRewritten
<1>4. DOMAIN saved = Policies /\ DOMAIN room = Policies /\ DOMAIN book = Policies
  BY <1>2, <1>3 DEF Books
<1>5. \A q \in Rows(book) \ {p} : saved[q] = room[q]
  BY <1>3, <1>4 DEF Rows
<1>6. ASSUME NEW q \in Rows(saved), NEW x \in Rows(saved), q # x
      PROVE  saved[q].priority # saved[x].priority
  <2>1. ASSUME NEW y \in Rows(saved), y # p
        PROVE  y \in Rows(book) \ {p} /\ saved[y] = room[y] /\ room[y].priority # row.priority
    BY <1>2, <1>3, <1>4, <2>1 DEF Rows
  <2>2. CASE q = p
    BY <1>3, <1>6, <2>1, <2>2
  <2>3. CASE x = p
    BY <1>3, <1>6, <2>1, <2>3
  <2>4. CASE q # p /\ x # p
    <3>1. q \in Rows(book) \ {p} /\ x \in Rows(book) \ {p}
          /\ saved[q] = room[q] /\ saved[x] = room[x]
      BY <2>1, <2>4
    <3>2. book[q].priority # book[x].priority /\ book[q].priority \in Nat /\ book[x].priority \in Nat
      BY <1>6, <3>1, RowsOf DEF PrioritiesDiffer
    <3>3. room[q].priority \in Nat /\ room[x].priority \in Nat
      BY <1>2, <3>1, RowsOf
    <3>4. room[q].priority < room[x].priority \/ room[x].priority < room[q].priority
      BY <1>2, <3>1, <3>2
    <3> QED
      BY <3>1, <3>3, <3>4
  <2> QED
    BY <2>2, <2>3, <2>4
<1>7. PrioritiesDiffer(saved)
  BY <1>6 DEF PrioritiesDiffer
<1> HIDE DEF saved
<1> QED
  BY <1>2, <1>3, <1>5, <1>7 DEF saved, room

-----------------------------------------------------------------------------
(* Every operation keeps the book *)

LEMMA BookInit == ASSUME InitBook PROVE BookSafe
<1>1. PICK b \in InitialBooks :
        policies = b.policies /\ radius = b.radius /\ grants = b.grants /\ versions = b.versions
  BY DEF InitBook
<1>2. IsBook(b.policies, b.radius, b.grants, b.versions, 0)
  BY BookAssumption
<1> QED
  BY <1>1, <1>2 DEF InitBook, BookSafe

\* What a handler must show of the policies it proposes to commit.
LEMMA CommitKeepsOrder ==
  ASSUME BookSafe, NEW op, NEW p, NEW book, NEW vs, Commit(op, p, book, vs),
         PrioritiesDiffer(book) \/ op \in {"restore", "reorder"},
         op # "reorder" =>
           \A q, x \in (Rows(policies) \cap Rows(book)) \ {p} :
             policies[q].priority < policies[x].priority => book[q].priority < book[x].priority
  PROVE  KeepsTheOthersInOrder
<1>1. answer'.op = op /\ answer'.on = p
  BY DEF Commit, Reply
<1>2. CASE PrioritiesDiffer(book)
  <2>1. policies' = book /\ answer'.result = "ok"
    BY <1>2 DEF Commit, Reply
  <2> QED
    BY <1>1, <2>1 DEF KeepsTheOthersInOrder
<1>3. CASE ~ PrioritiesDiffer(book)
  <2>1. policies' = policies
    BY <1>3 DEF Commit
  <2> QED
    BY <1>1, <1>3, <2>1 DEF KeepsTheOthersInOrder
<1> QED
  BY <1>2, <1>3

LEMMA SameOrder ==
  ASSUME policies' = policies, answer'.result # "conflict" PROVE KeepsTheOthersInOrder
BY DEF KeepsTheOthersInOrder

\* A refusal changes nothing but the answer.
LEMMA RefusedEdit ==
  ASSUME BookSafe, NEW op, NEW p, NEW result, result # "conflict", Reply(op, p, result),
         UNCHANGED <<policies, versions, radius, grants, sets>>
  PROVE  BookSafe' /\ KeepsTheOthersInOrder
<1>1. answer'.result # "conflict" /\ policies' = policies
  BY DEF Reply
<1> QED
  BY <1>1, RefusalKeepsBook, SameOrder

\* One policy rewritten at its place.
LEMMA RewriteInPlace ==
  ASSUME BookSafe, NEW op, op # "reorder", NEW p \in Rows(policies), NEW row \in PolicyRows,
         row.priority = policies[p].priority, NEW vs \in Histories,
         Commit(op, p, [policies EXCEPT ![p] = row], vs), UNCHANGED <<radius, grants, sets>>
  PROVE  BookSafe' /\ KeepsTheOthersInOrder
<1> DEFINE book == [policies EXCEPT ![p] = row]
<1>1. policies \in Books /\ PrioritiesDiffer(policies) /\ p \in Policies
  BY RowsOf DEF BookSafe, IsBook, Books
<1>2. book \in Books /\ \A q \in Policies \ {p} : book[q] = policies[q]
  BY <1>1, OneRewritten
<1>3. PrioritiesDiffer(book)
  BY <1>1, OneAtItsPlace
<1>4. \A q \in Rows(policies) \ {p} : book[q] = policies[q]
  BY <1>1, <1>2, RowsOf
<1> HIDE DEF book
<1>5. Commit(op, p, book, vs)
  BY DEF book
<1>6. BookSafe'
  BY <1>2, <1>3, <1>5, CommitKeepsBook
<1>7. KeepsTheOthersInOrder
  BY <1>3, <1>4, <1>5, CommitKeepsOrder
<1> QED
  BY <1>6, <1>7

LEMMA SaveKeeps ==
  ASSUME BookSafe, NEW p \in Policies, Save(p) PROVE BookSafe' /\ KeepsTheOthersInOrder
<1>1. PICK body \in Bodies, new \in Priorities :
        LET row == [enabled |-> body.enabled, priority |-> new, group |-> body.group,
                    device |-> body.device, dgroup |-> body.dgroup, tree |-> body.tree,
                    priv |-> body.priv, action |-> body.action, sets |-> body.sets,
                    approval |-> body.approval]
            op  == IF policies[p] = None THEN "create" ELSE "update"
        IN  IF Deployable(row, "tacacs")
              THEN Commit(op, p, [MakeRoom(policies, p, new) EXCEPT ![p] = row],
                          RecordVersion(versions, p, row))
              ELSE UNCHANGED <<policies, versions>> /\ Reply(op, p, "refused")
  BY DEF Save
<1> DEFINE row == [enabled |-> body.enabled, priority |-> new, group |-> body.group,
                   device |-> body.device, dgroup |-> body.dgroup, tree |-> body.tree,
                   priv |-> body.priv, action |-> body.action, sets |-> body.sets,
                   approval |-> body.approval]
           op == IF policies[p] = None THEN "create" ELSE "update"
           book == [MakeRoom(policies, p, new) EXCEPT ![p] = row]
<1>2. UNCHANGED <<radius, grants, sets>>
  BY DEF Save
<1>3. row \in PolicyRows /\ row.priority = new
  <2>1. new \in Nat
    <3>1. MaxPriority \in Nat
      BY BookAssumption
    <3> QED
      BY <3>1 DEF Priorities
  <2>2. body \in [enabled : BOOLEAN, group : OptionalGroup, device : OptionalDevice,
                  dgroup : OptionalDeviceGroup, tree : {None} \cup ConditionTrees,
                  priv : 0..15, action : Actions, sets : Seq(CommandSets), approval : Approvals]
    BY BookAssumption
  <2> QED
    BY <2>1, <2>2 DEF PolicyRows
<1>4. op \notin {"restore", "reorder"}
  OBVIOUS
<1> HIDE DEF row, op
<1>5. policies \in Books /\ PrioritiesDiffer(policies) /\ versions \in Histories
  BY DEF BookSafe, IsBook, Books, Histories
<1>6. CASE Deployable(row, "tacacs")
  <2>1. Commit(op, p, book, RecordVersion(versions, p, row))
    BY <1>1, <1>6 DEF row, op
  <2>2. /\ book \in Books /\ PrioritiesDiffer(book)
        /\ \A q, x \in Rows(policies) \ {p} :
             policies[q].priority < policies[x].priority => book[q].priority < book[x].priority
    BY <1>3, <1>5, RoomIsTaken
  <2>3. RecordVersion(versions, p, row) \in Histories
    BY <1>3, <1>5, VersionIsRecorded
  <2> HIDE DEF book
  <2>4. BookSafe'
    BY <1>2, <2>1, <2>2, <2>3, CommitKeepsBook
  <2>5. KeepsTheOthersInOrder
    BY <2>1, <2>2, CommitKeepsOrder
  <2> QED
    BY <2>4, <2>5
<1>7. CASE ~ Deployable(row, "tacacs")
  <2>1. UNCHANGED <<policies, versions>> /\ Reply(op, p, "refused")
    BY <1>1, <1>7 DEF row, op
  <2> QED
    BY <1>2, <2>1, RefusedEdit
<1> QED
  BY <1>6, <1>7

LEMMA DeleteKeeps ==
  ASSUME BookSafe, NEW p \in Policies, Delete(p) PROVE BookSafe' /\ KeepsTheOthersInOrder
<1> DEFINE book == [policies EXCEPT ![p] = None]
           vs == [versions EXCEPT ![p] = <<>>]
<1>1. policies \in Books /\ PrioritiesDiffer(policies) /\ versions \in Histories
  BY DEF BookSafe, IsBook, Books, Histories
<1>2. Commit("delete", p, book, vs) /\ UNCHANGED <<radius, grants, sets>>
  BY DEF Delete
<1>3. book \in Books /\ \A q \in Policies \ {p} : book[q] = policies[q]
  BY <1>1, OneRewritten
<1>4. PrioritiesDiffer(book)
  BY <1>1, OneDropped
<1>5. vs \in Histories
  BY <1>1 DEF Histories
<1>6. \A q \in Rows(policies) \ {p} : book[q] = policies[q]
  BY <1>1, <1>3, RowsOf
<1> HIDE DEF book, vs
<1>7. BookSafe'
  BY <1>2, <1>3, <1>4, <1>5, CommitKeepsBook
<1>8. KeepsTheOthersInOrder
  BY <1>2, <1>4, <1>6, CommitKeepsOrder
<1> QED
  BY <1>7, <1>8

LEMMA AddCommandSetKeeps ==
  ASSUME BookSafe, NEW p \in Policies, AddCommandSet(p) PROVE BookSafe' /\ KeepsTheOthersInOrder
<1>1. p \in Rows(policies) /\ UNCHANGED <<radius, grants, sets>>
  BY DEF AddCommandSet
<1>2. PICK c \in CommandSets :
        Commit("add_set", p,
          IF \E i \in DOMAIN policies[p].sets : policies[p].sets[i] = c THEN policies
          ELSE [policies EXCEPT ![p].sets = Append(@, c)], versions)
  BY DEF AddCommandSet
<1>3. policies \in Books /\ versions \in Histories
  BY DEF BookSafe, IsBook, Books, Histories
<1>4. policies[p] \in PolicyRows
  BY <1>1, <1>3, RowsOf
<1> DEFINE cs == Append(policies[p].sets, c)
           row == [policies[p] EXCEPT !.sets = cs]
<1>5. CASE \E i \in DOMAIN policies[p].sets : policies[p].sets[i] = c
  <2>1. Commit("add_set", p, [policies EXCEPT ![p] = policies[p]], versions)
    <3>1. [policies EXCEPT ![p] = policies[p]] = policies
      BY <1>3 DEF Books
    <3> QED
      BY <1>2, <1>5, <3>1
  <2> QED
    BY <1>1, <1>3, <1>4, <2>1, RewriteInPlace
<1>6. CASE ~ \E i \in DOMAIN policies[p].sets : policies[p].sets[i] = c
  <2>1. cs \in Seq(CommandSets)
    <3>1. policies[p].sets \in Seq(CommandSets)
      BY <1>4 DEF PolicyRows
    <3> QED
      BY <3>1, AppendProperties
  <2>2. row \in PolicyRows /\ row.priority = policies[p].priority
    BY <1>4, <2>1, NewSets
  <2>3. Commit("add_set", p, [policies EXCEPT ![p] = row], versions)
    BY <1>2, <1>6
  <2> HIDE DEF row
  <2> QED
    BY <1>1, <1>3, <2>2, <2>3, RewriteInPlace
<1> QED
  BY <1>5, <1>6

LEMMA ReplaceTreeKeeps ==
  ASSUME BookSafe, NEW p \in Policies, ReplaceTree(p) PROVE BookSafe' /\ KeepsTheOthersInOrder
<1>1. p \in Rows(policies) /\ UNCHANGED <<radius, grants, sets>>
  BY DEF ReplaceTree
<1>2. PICK t \in Trees : Commit("replace_tree", p, [policies EXCEPT ![p].tree = t], versions)
  BY DEF ReplaceTree
<1>3. policies \in Books /\ versions \in Histories
  BY DEF BookSafe, IsBook, Books, Histories
<1> DEFINE row == [policies[p] EXCEPT !.tree = t]
<1>4. row \in PolicyRows /\ row.priority = policies[p].priority
  BY <1>1, <1>3, RowsOf, NewTree, BookAssumption
<1>5. Commit("replace_tree", p, [policies EXCEPT ![p] = row], versions)
  BY <1>2
<1> HIDE DEF row
<1> QED
  BY <1>1, <1>3, <1>4, <1>5, RewriteInPlace

LEMMA MigrateKeeps ==
  ASSUME BookSafe, NEW p \in Policies, MigrateConditions(p)
  PROVE  BookSafe' /\ KeepsTheOthersInOrder
<1>1. p \in Rows(policies) /\ UNCHANGED <<radius, grants, sets>>
  BY DEF MigrateConditions
<1>2. policies \in Books /\ versions \in Histories
  BY DEF BookSafe, IsBook, Books, Histories
<1>3. CASE policies[p].tree # None \/ LegacyLeaves(policies[p]) = {}
  <2>1. UNCHANGED <<policies, versions>> /\ Reply("migrate", p, "refused")
    BY <1>3 DEF MigrateConditions
  <2> QED
    BY <1>1, <2>1, RefusedEdit
<1>4. CASE ~ (policies[p].tree # None \/ LegacyLeaves(policies[p]) = {})
  <2> DEFINE row == [policies[p] EXCEPT !.tree = MigratedTree(policies[p])]
  <2>1. Commit("migrate", p, [policies EXCEPT ![p] = row], versions)
    BY <1>4 DEF MigrateConditions
  <2>2. policies[p] \in PolicyRows
    BY <1>1, <1>2, RowsOf
  <2>3. row \in PolicyRows /\ row.priority = policies[p].priority
    BY <2>2, MigratedIsTree, NewTree
  <2> HIDE DEF row
  <2> QED
    BY <1>1, <1>2, <2>1, <2>3, RewriteInPlace
<1> QED
  BY <1>3, <1>4

LEMMA RestoreKeeps ==
  ASSUME BookSafe, NEW p \in Policies, Restore(p) PROVE BookSafe' /\ KeepsTheOthersInOrder
<1>1. p \in Rows(policies) /\ UNCHANGED <<radius, grants, sets>>
  BY DEF Restore
<1>2. policies \in Books /\ versions \in Histories
  BY DEF BookSafe, IsBook, Books, Histories
<1>3. PICK v \in DOMAIN versions[p] :
        LET row == Restored(versions[p][v], policies[p])
        IN  IF \/ versions[p][v].blocked
               \/ Snapshot(policies[p]).blocked
               \/ ~Deployable(row, "tacacs")
              THEN UNCHANGED <<policies, versions>> /\ Reply("restore", p, "refused")
              ELSE Commit("restore", p, [policies EXCEPT ![p] = row], RecordVersion(versions, p, row))
  BY DEF Restore
<1> DEFINE row == Restored(versions[p][v], policies[p])
           book == [policies EXCEPT ![p] = row]
<1>4. versions[p][v] \in Snapshots
  <2>1. versions[p] \in Seq(Snapshots)
    BY <1>2 DEF Histories
  <2> QED
    BY <2>1, LenProperties
<1>5. row \in PolicyRows
  <2>1. policies[p] \in PolicyRows
    BY <1>1, <1>2, RowsOf
  <2> QED
    BY <1>4, <2>1, RestoredIsRow
<1> HIDE DEF row
<1>6. CASE UNCHANGED <<policies, versions>> /\ Reply("restore", p, "refused")
  BY <1>1, <1>6, RefusedEdit
<1>7. CASE Commit("restore", p, book, RecordVersion(versions, p, row))
  <2>1. book \in Books /\ \A q \in Policies \ {p} : book[q] = policies[q]
    BY <1>2, <1>5, OneRewritten
  <2>2. RecordVersion(versions, p, row) \in Histories
    BY <1>2, <1>5, VersionIsRecorded
  <2>3. \A q \in Rows(policies) \ {p} : book[q] = policies[q]
    BY <1>2, <2>1, RowsOf
  <2> HIDE DEF book
  <2>4. BookSafe'
    BY <1>1, <1>7, <2>1, <2>2, CommitKeepsBook
  <2>5. KeepsTheOthersInOrder
    BY <1>7, <2>3, CommitKeepsOrder
  <2> QED
    BY <2>4, <2>5
<1> QED
  BY <1>3, <1>6, <1>7 DEF row

LEMMA ReorderKeeps ==
  ASSUME BookSafe, Reorder PROVE BookSafe' /\ KeepsTheOthersInOrder
<1>1. PICK listed \in SUBSET Rows(policies) : \E order \in SetToSeqs(listed) :
        Commit("reorder", None,
          [p \in Policies |-> IF p \in listed
            THEN [policies[p] EXCEPT !.priority = (CHOOSE i \in DOMAIN order : order[i] = p) - 1]
            ELSE policies[p]], versions)
  BY DEF Reorder
<1>2. PICK order \in SetToSeqs(listed) :
        Commit("reorder", None,
          [p \in Policies |-> IF p \in listed
            THEN [policies[p] EXCEPT !.priority = (CHOOSE i \in DOMAIN order : order[i] = p) - 1]
            ELSE policies[p]], versions)
  BY <1>1
<1> DEFINE place(p) == CHOOSE i \in DOMAIN order : order[i] = p
           book == [p \in Policies |-> IF p \in listed
                     THEN [policies[p] EXCEPT !.priority = place(p) - 1] ELSE policies[p]]
<1>3. policies \in Books /\ versions \in Histories /\ UNCHANGED <<radius, grants, sets>>
  BY DEF BookSafe, IsBook, Books, Histories, Reorder
<1>4. ASSUME NEW p \in listed PROVE place(p) - 1 \in Nat
  <2>1. IsFiniteSet(listed)
    <3>1. listed \in SUBSET Policies
      BY <1>3, RowsOf
    <3> QED
      BY <3>1, FS_Subset, BookAssumption
  <2>2. Cardinality(listed) \in Nat
    BY <2>1, FS_CardinalityType
  <2> DEFINE n == Cardinality(listed)
  <2>3. order \in [1..n -> listed] /\ \A i, j \in 1..n : i # j => order[i] # order[j]
    BY DEF SetToSeqs
  <2> HIDE DEF n
  <2>4. order \in Injection(1..n, listed)
    BY <2>3 DEF Injection, IsInjective
  <2>5. Cardinality(1..n) = n /\ n \in Nat
    <3>1. n \in Nat
      BY <2>2 DEF n
    <3>2. 1 \in Int /\ n \in Int
      BY <3>1
    <3>3. Cardinality(1..n) = IF 1 > n THEN 0 ELSE n - 1 + 1
      BY <3>2, FS_Interval
    <3> QED
      BY <3>1, <3>3
  <2>6. order \in Surjection(1..n, listed)
    BY <2>1, <2>4, <2>5, FS_Injection DEF n
  <2>7. \E i \in DOMAIN order : order[i] = p
    BY <2>6, <2>3 DEF Surjection
  <2>8. place(p) \in 1..n
    BY <2>3, <2>7
  <2> QED
    BY <2>5, <2>8
<1>5. book \in Books
  <2> HIDE DEF place
  <2>1. ASSUME NEW p \in listed PROVE [policies[p] EXCEPT !.priority = place(p) - 1] \in PolicyRows
    BY <1>3, <1>4, RowsOf, NewPriority
  <2> QED
    BY <1>3, <2>1 DEF Books
<1>6. Commit("reorder", None, book, versions)
  BY <1>2
<1> HIDE DEF book
<1>7. BookSafe'
  BY <1>3, <1>5, <1>6, CommitKeepsBook
<1>8. KeepsTheOthersInOrder
  BY <1>6, CommitKeepsOrder
<1> QED
  BY <1>7, <1>8

LEMMA SaveRadiusKeeps ==
  ASSUME BookSafe, NEW q \in RadiusPolicies, SaveRadius(q)
  PROVE  BookSafe' /\ KeepsTheOthersInOrder
<1>1. PICK body \in RadiusBodies, new \in Priorities :
        radius' = [radius EXCEPT ![q] =
          [enabled |-> body.enabled, priority |-> new, group |-> body.group, device |-> body.device,
           dgroup |-> body.dgroup, service |-> body.service, action |-> body.action,
           born |-> IF radius[q] = None THEN edits + 1 ELSE radius[q].born]]
  BY DEF SaveRadius
<1> DEFINE row == [enabled |-> body.enabled, priority |-> new, group |-> body.group,
                   device |-> body.device, dgroup |-> body.dgroup, service |-> body.service,
                   action |-> body.action,
                   born |-> IF radius[q] = None THEN edits + 1 ELSE radius[q].born]
<1>2. /\ radius \in [RadiusPolicies -> {None} \cup RadiusRows] /\ edits \in Nat
      /\ \A x, y \in Rows(radius) : x # y => radius[x].born # radius[y].born
      /\ \A x \in Rows(radius) : radius[x].born <= edits
      /\ UNCHANGED <<policies, grants, sets, versions>> /\ Reply("save_radius", None, "ok")
  BY DEF BookSafe, IsBook, SaveRadius
<1>3. new \in Nat
  <2>1. MaxPriority \in Nat
    BY BookAssumption
  <2> QED
    BY <2>1 DEF Priorities
<1>4. radius[q] # None => q \in Rows(radius) /\ radius[q].born \in Nat
  BY <1>2, RadiusRowsOf DEF Rows
<1>5. row \in RadiusRows /\ row.born = IF radius[q] = None THEN edits + 1 ELSE radius[q].born
  <2>1. body \in [enabled : BOOLEAN, group : OptionalGroup, device : OptionalDevice,
                  dgroup : OptionalDeviceGroup, service : {None} \cup Services, action : Actions]
    BY BookAssumption
  <2> QED
    BY <1>2, <1>3, <1>4, <2>1 DEF RadiusRows
<1>6. radius' = [radius EXCEPT ![q] = row]
  BY <1>1
<1> HIDE DEF row
<1>7. radius' \in [RadiusPolicies -> {None} \cup RadiusRows] /\ radius'[q] = row
      /\ \A x \in RadiusPolicies \ {q} : radius'[x] = radius[x]
  BY <1>2, <1>5, <1>6
<1>8. \A x \in Rows(radius') \ {q} : x \in Rows(radius) /\ radius'[x] = radius[x]
  BY <1>2, <1>7 DEF Rows
<1>9. edits' = edits + 1 /\ answer'.result = "ok"
  BY <1>2 DEF Reply
<1>10. \A x \in Rows(radius') : radius'[x].born <= edits' /\ (x # q => radius'[x].born # radius'[q].born)
  <2> SUFFICES ASSUME NEW x \in Rows(radius')
               PROVE  radius'[x].born <= edits' /\ (x # q => radius'[x].born # radius'[q].born)
    OBVIOUS
  <2>1. \A y \in Rows(radius) : radius[y].born \in Nat /\ radius[y].born <= edits
    BY <1>2, RadiusRowsOf
  <2>2. CASE x = q
    BY <1>2, <1>4, <1>5, <1>7, <1>9, <2>1, <2>2
  <2>3. CASE x # q
    BY <1>2, <1>4, <1>5, <1>7, <1>8, <1>9, <2>1, <2>3
  <2> QED
    BY <2>2, <2>3
<1>11. \A x, y \in Rows(radius') : x # y => radius'[x].born # radius'[y].born
  <2> SUFFICES ASSUME NEW x \in Rows(radius'), NEW y \in Rows(radius'), x # y
               PROVE  radius'[x].born # radius'[y].born
    OBVIOUS
  <2>1. CASE x = q \/ y = q
    BY <1>10, <2>1
  <2>2. CASE x # q /\ y # q
    BY <1>2, <1>8, <2>2
  <2> QED
    BY <2>1, <2>2
<1>12. policies' = policies /\ versions' = versions /\ grants' = grants
  BY <1>2
<1>13. BookSafe'
  BY <1>2, <1>7, <1>9, <1>10, <1>11, <1>12 DEF BookSafe, IsBook, Rows, PrioritiesDiffer
<1>14. KeepsTheOthersInOrder
  BY <1>9, <1>12, SameOrder
<1> QED
  BY <1>13, <1>14

LEMMA DeleteRadiusKeeps ==
  ASSUME BookSafe, NEW q \in RadiusPolicies, DeleteRadius(q)
  PROVE  BookSafe' /\ KeepsTheOthersInOrder
<1>1. /\ radius' = [radius EXCEPT ![q] = None] /\ Reply("delete_radius", None, "ok")
      /\ UNCHANGED <<policies, grants, sets, versions>>
  BY DEF DeleteRadius
<1>2. radius \in [RadiusPolicies -> {None} \cup RadiusRows] /\ edits \in Nat
  BY DEF BookSafe, IsBook
<1>3. radius' \in [RadiusPolicies -> {None} \cup RadiusRows] /\ radius'[q] = None
      /\ \A x \in RadiusPolicies \ {q} : radius'[x] = radius[x]
  BY <1>1, <1>2
<1>4. \A x \in Rows(radius') : x \in Rows(radius) /\ radius'[x] = radius[x]
  BY <1>2, <1>3 DEF Rows
<1>5. edits' = edits + 1 /\ answer'.result = "ok"
  BY <1>1 DEF Reply
<1>6. \A x \in Rows(radius') : radius'[x].born <= edits'
  BY <1>2, <1>4, <1>5, RadiusRowsOf DEF BookSafe, IsBook
<1>7. \A x, y \in Rows(radius') : x # y => radius'[x].born # radius'[y].born
  BY <1>4 DEF BookSafe, IsBook
<1>8. policies' = policies /\ versions' = versions /\ grants' = grants
  BY <1>1
<1>9. BookSafe'
  BY <1>2, <1>3, <1>5, <1>6, <1>7, <1>8 DEF BookSafe, IsBook, Rows, PrioritiesDiffer
<1>10. KeepsTheOthersInOrder
  BY <1>5, <1>8, SameOrder
<1> QED
  BY <1>9, <1>10

\* Operations that leave the policies, their versions and the RADIUS policies alone.
LEMMA ElsewhereKeeps ==
  ASSUME BookSafe, NEW op, NEW p, NEW result, result # "conflict", Reply(op, p, result),
         UNCHANGED <<policies, versions, radius>>, grants' \in Seq(Grants)
  PROVE  BookSafe' /\ KeepsTheOthersInOrder
<1>1. edits' = edits + 1 /\ edits' \in Nat /\ answer'.result = result
  BY DEF Reply, BookSafe
<1>2. \A q \in Rows(radius) : radius[q].born <= edits'
  BY <1>1, RadiusRowsOf DEF BookSafe, IsBook
<1>3. BookSafe'
  BY <1>1, <1>2 DEF BookSafe, IsBook, Rows, PrioritiesDiffer
<1> QED
  BY <1>1, <1>3, SameOrder

LEMMA CreateGrantKeeps ==
  ASSUME BookSafe, CreateGrant PROVE BookSafe' /\ KeepsTheOthersInOrder
<1>1. grants \in Seq(Grants) /\ UNCHANGED <<policies, versions, radius>>
  BY DEF BookSafe, IsBook, CreateGrant
<1>2. PICK g \in GrantForms :
        IF \E i \in DOMAIN grants : grants[i] = g
          THEN UNCHANGED grants /\ Reply("grant", None, "refused")
          ELSE grants' = Append(grants, g) /\ Reply("grant", None, "ok")
  BY DEF CreateGrant
<1>3. g \in Grants
  BY BookAssumption
<1>4. grants' \in Seq(Grants)
  BY <1>1, <1>2, <1>3, AppendProperties
<1>5. Reply("grant", None, "refused") \/ Reply("grant", None, "ok")
  BY <1>2
<1> QED
  BY <1>1, <1>4, <1>5, ElsewhereKeeps

LEMMA DeleteGrantKeeps ==
  ASSUME BookSafe, DeleteGrant PROVE BookSafe' /\ KeepsTheOthersInOrder
<1>1. /\ grants \in Seq(Grants) /\ UNCHANGED <<policies, versions, radius>>
      /\ Reply("delete_grant", None, "ok")
  BY DEF BookSafe, IsBook, DeleteGrant
<1>2. PICK i \in DOMAIN grants : grants' = RemoveAt(grants, i)
  BY DEF DeleteGrant
<1>3. i \in 1..Len(grants) /\ Len(grants) \in Nat /\ \A k \in 1..Len(grants) : grants[k] \in Grants
  BY <1>1, LenProperties
<1>4. SubSeq(grants, 1, i - 1) \in Seq(Grants)
  <2>1. 1 \in Int /\ i - 1 \in Int /\ \A k \in 1..(i - 1) : grants[k] \in Grants
    BY <1>3
  <2> QED
    BY <2>1, SubSeqProperties
<1>5. SubSeq(grants, i + 1, Len(grants)) \in Seq(Grants)
  <2>1. i + 1 \in Int /\ Len(grants) \in Int /\ \A k \in (i + 1)..Len(grants) : grants[k] \in Grants
    BY <1>3
  <2> QED
    BY <2>1, SubSeqProperties
<1>6. grants' \in Seq(Grants)
  BY <1>2, <1>4, <1>5, ConcatProperties DEF RemoveAt
<1> QED
  BY <1>1, <1>6, ElsewhereKeeps

LEMMA EditKeeps ==
  ASSUME BookSafe, EditBook PROVE BookSafe' /\ KeepsTheOthersInOrder
<1>1. CASE \E p \in Policies : \/ Save(p) \/ Delete(p) \/ AddCommandSet(p) \/ ReplaceTree(p)
                               \/ MigrateConditions(p) \/ Restore(p)
  BY <1>1, SaveKeeps, DeleteKeeps, AddCommandSetKeeps, ReplaceTreeKeeps, MigrateKeeps, RestoreKeeps
<1>2. CASE \E c \in CommandSets : SaveCommandSet(c)
  <2>1. /\ Reply("save_set", None, "ok") /\ UNCHANGED <<policies, versions, radius>>
        /\ grants' \in Seq(Grants)
    BY <1>2 DEF SaveCommandSet, BookSafe, IsBook
  <2> QED
    BY <2>1, ElsewhereKeeps
<1>3. CASE \E q \in RadiusPolicies : SaveRadius(q) \/ DeleteRadius(q)
  BY <1>3, SaveRadiusKeeps, DeleteRadiusKeeps
<1> QED
  BY <1>1, <1>2, <1>3, ReorderKeeps, CreateGrantKeeps, DeleteGrantKeeps DEF EditBook

\* The book's tables hold rows, no two policies a place, in every session of edits.
THEOREM BookIsSafe == SpecBook => []BookSafe
<1>1. InitBook => BookSafe
  BY BookInit
<1>2. BookSafe /\ [EditBook]_bookVars => BookSafe'
  <2> SUFFICES ASSUME BookSafe, [EditBook]_bookVars PROVE BookSafe'
    OBVIOUS
  <2>1. CASE UNCHANGED bookVars
    BY <2>1 DEF bookVars, BookSafe, IsBook, Rows, PrioritiesDiffer
  <2> QED
    BY <2>1, EditKeeps
<1> QED
  BY <1>1, <1>2, PTL DEF SpecBook

\* An edit of one policy never turns the order of two others round (EditsKeepTheOthersInOrder):
\* create_policy and update_policy always find room.
THEOREM OthersStayInOrder == SpecBook => EditsKeepTheOthersInOrder
<1>1. BookSafe /\ [EditBook]_bookVars => [KeepsTheOthersInOrder]_bookVars
  BY EditKeeps
<1> QED
  BY <1>1, BookIsSafe, PTL DEF SpecBook, EditsKeepTheOthersInOrder

-----------------------------------------------------------------------------
(* The first of some *)

\* A set of natural numbers has a least element.
LEMMA Least == ASSUME NEW S \in SUBSET Nat, S # {} PROVE \E n \in S : \A m \in S : n <= m
<1> DEFINE Less == OpToRel(<, Nat)
<1>1. PICK n \in S : \A m \in S : <<m, n>> \notin Less
  <2> HIDE DEF Less
  <2>1. IsWellFoundedOn(Less, Nat)
    BY NatLessThanWellFounded DEF Less
  <2> QED
    BY <2>1, WFMin
<1>2. \A m \in Nat : m < n => <<m, n>> \in Less
  BY DEF OpToRel
<1>3. \A m \in S : ~ (m < n)
  BY <1>1, <1>2
<1> QED
  BY <1>3

LEMMA FirstIsLeast ==
  ASSUME NEW S \in SUBSET Nat, S # {} PROVE First(S) \in S /\ \A m \in S : First(S) <= m
<1>1. \E n \in S : \A m \in S : n <= m
  BY Least
<1> QED
  BY <1>1 DEF First

\* Among policies there is one that no other comes before, and only one.
LEMMA ForemostIsFirst ==
  ASSUME NEW book \in Books, NEW ps \in SUBSET Rows(book), ps # {}
  PROVE  /\ Foremost(book, ps) \in ps
         /\ \A q \in ps : book[Foremost(book, ps)].priority <= book[q].priority
<1> DEFINE places == {book[p].priority : p \in ps}
<1>1. \A p \in ps : book[p].priority \in Nat
  BY RowsOf
<1>2. places \in SUBSET Nat /\ places # {}
  BY <1>1
<1>3. PICK n \in places : \A m \in places : n <= m
  <2> HIDE DEF places
  <2> QED
    BY <1>2, Least
<1>4. \E p \in ps : \A q \in ps : book[p].priority <= book[q].priority
  BY <1>3
<1> QED
  BY <1>4 DEF Foremost

-----------------------------------------------------------------------------
(* Trees and conditions *)

\* The values that the groups of a tree have for a request.
Values(F, tree, r) ==
  F = [i \in DOMAIN tree |->
        GroupResult(tree[i], {EvaluateCondition(l, r) : l \in tree[i].leaves}
                               \cup {F[j] : j \in Subgroups(tree, i)})]

LEMMA TreeIsRecursive ==
  ASSUME NEW tree, NEW r
  PROVE  EvaluateTree(tree, r) = (CHOOSE F : Values(F, tree, r))[1]
BY DEF EvaluateTree, Values

\* A tree without subgroups is the conjunction of its leaves.
LEMMA OneRowTree ==
  ASSUME NEW leaves, leaves # {}, NEW r
  PROVE  EvaluateTree(<<[op |-> "AND", parent |-> 0, leaves |-> leaves]>>, r)
           = (\A l \in leaves : EvaluateCondition(l, r))
<1> DEFINE tree == <<[op |-> "AND", parent |-> 0, leaves |-> leaves]>>
           results == {EvaluateCondition(l, r) : l \in leaves}
           value == GroupResult(tree[1], results)
<1>1. DOMAIN tree = {1} /\ tree[1].op = "AND" /\ tree[1].parent = 0 /\ tree[1].leaves = leaves
  OBVIOUS
<1> HIDE DEF tree
<1>2. Subgroups(tree, 1) = {}
  BY <1>1 DEF Subgroups
<1>3. value = (\A l \in leaves : EvaluateCondition(l, r))
  <2>1. \A l \in leaves : EvaluateCondition(l, r) \in BOOLEAN
    BY DEF EvaluateCondition
  <2> QED
    BY <1>1, <2>1 DEF GroupResult
<1>4. ASSUME NEW F
      PROVE  GroupResult(tree[1], {EvaluateCondition(l, r) : l \in tree[1].leaves}
                                    \cup {F[j] : j \in Subgroups(tree, 1)}) = value
  <2>1. {EvaluateCondition(l, r) : l \in tree[1].leaves} \cup {F[j] : j \in Subgroups(tree, 1)}
          = results
    BY <1>1, <1>2
  <2> QED
    BY <2>1
<1> HIDE DEF value, results
<1>5. \A F : Values(F, tree, r) <=> F = [i \in {1} |-> value]
  BY <1>1, <1>4 DEF Values
<1>6. (CHOOSE F : Values(F, tree, r))[1] = value
  BY <1>5
<1> QED
  BY <1>3, <1>6, TreeIsRecursive DEF tree

LEMMA LegacyLeafHolds ==
  ASSUME NEW type \in {"user_group", "device", "device_group"}, NEW ref, ref # None, NEW r
  PROVE  EvaluateCondition(Leaf(type, ref), r) <=> Actual(type, r) = ref
BY DEF EvaluateCondition, Leaf

LEMMA LegacyIsItsLeaves ==
  ASSUME NEW p, NEW r
  PROVE  LegacyMatches(p, r) = (\A l \in LegacyLeaves(p) : EvaluateCondition(l, r))
<1>1. ASSUME NEW type \in {"user_group", "device", "device_group"}, NEW ref
      PROVE  (ref # None => Actual(type, r) = ref)
             <=> (\A l \in {Leaf(type, ref)} : l.ref # None => EvaluateCondition(l, r))
  <2>1. Leaf(type, ref).ref = ref
    BY DEF Leaf
  <2>2. ref # None => (EvaluateCondition(Leaf(type, ref), r) <=> Actual(type, r) = ref)
    BY LegacyLeafHolds
  <2> QED
    BY <2>1, <2>2, Zenon
<1>2. /\ (p.group # None => r.group = p.group)
           <=> (\A l \in {Leaf("user_group", p.group)} : l.ref # None => EvaluateCondition(l, r))
      /\ (p.device # None => r.device = p.device)
           <=> (\A l \in {Leaf("device", p.device)} : l.ref # None => EvaluateCondition(l, r))
      /\ (p.dgroup # None => r.dgroup = p.dgroup)
           <=> (\A l \in {Leaf("device_group", p.dgroup)} : l.ref # None => EvaluateCondition(l, r))
  <2>1. Actual("user_group", r) = r.group /\ Actual("device", r) = r.device
        /\ Actual("device_group", r) = r.dgroup
    BY DEF Actual
  <2> QED
    BY <1>1, <2>1
<1>3. LegacyMatches(p, r) \in BOOLEAN
  BY DEF LegacyMatches
<1>4. LegacyMatches(p, r) <=> (\A l \in LegacyLeaves(p) : EvaluateCondition(l, r))
  BY <1>2, Zenon DEF LegacyMatches, LegacyLeaves
<1> QED
  BY <1>3, <1>4

\* The migrated tree is met by the requests that met the policy.
LEMMA MigrationMatches ==
  ASSUME NEW row, LegacyLeaves(row) # {}, NEW r
  PROVE  EvaluateTree(MigratedTree(row), r) = LegacyMatches(row, r)
BY OneRowTree, LegacyIsItsLeaves DEF MigratedTree

\* Two books whose policies have the same places, profiles and matches decide alike.
LEMMA SameDecision ==
  ASSUME NEW old \in Books, NEW new, DOMAIN new = DOMAIN old, NEW cs, NEW r, NEW command,
         \A p \in DOMAIN old :
           /\ (new[p] # None) = (old[p] # None)
           /\ old[p] # None =>
                /\ new[p].enabled = old[p].enabled /\ new[p].priority = old[p].priority
                /\ new[p].priv = old[p].priv /\ new[p].action = old[p].action
                /\ new[p].sets = old[p].sets
                /\ PolicyMatches(new[p], r) = PolicyMatches(old[p], r)
  PROVE  Evaluate(new, cs, r, command) = Evaluate(old, cs, r, command)
<1> DEFINE met(book) == {p \in Enabled(book) : PolicyMatches(book[p], r)}
<1>1. met(new) = met(old)
  BY DEF Enabled, Rows
<1>2. \A p \in met(old) : new[p].priority = old[p].priority /\ new[p].priv = old[p].priv
                          /\ EvaluateCommand(new[p], cs, command) = EvaluateCommand(old[p], cs, command)
  BY DEF Enabled, Rows, EvaluateCommand
<1>3. CASE met(old) = {}
  BY <1>1, <1>3 DEF Evaluate
<1>4. CASE met(old) # {}
  <2>1. \A p : (p \in met(new) /\ \A q \in met(new) : new[p].priority <= new[q].priority)
               <=> (p \in met(old) /\ \A q \in met(old) : old[p].priority <= old[q].priority)
    BY <1>1, <1>2
  <2> HIDE DEF met
  <2>2. Foremost(new, met(new)) = Foremost(old, met(old))
    BY <2>1 DEF Foremost
  <2>3. met(old) \subseteq Rows(old)
    BY DEF met, Enabled
  <2>4. Foremost(old, met(old)) \in met(old)
    BY <1>4, <2>3, ForemostIsFirst
  <2>5. new[Foremost(old, met(old))].priv = old[Foremost(old, met(old))].priv
        /\ EvaluateCommand(new[Foremost(old, met(old))], cs, command)
             = EvaluateCommand(old[Foremost(old, met(old))], cs, command)
    BY <1>2, <2>4
  <2>6. Evaluate(new, cs, r, command) =
          [policy |-> Foremost(new, met(new)), priv |-> new[Foremost(new, met(new))].priv,
           decision |-> EvaluateCommand(new[Foremost(new, met(new))], cs, command)]
    BY <1>1, <1>4 DEF Evaluate, met
  <2>7. Evaluate(old, cs, r, command) =
          [policy |-> Foremost(old, met(old)), priv |-> old[Foremost(old, met(old))].priv,
           decision |-> EvaluateCommand(old[Foremost(old, met(old))], cs, command)]
    BY <1>4 DEF Evaluate, met
  <2> QED
    BY <2>2, <2>5, <2>6, <2>7
<1> QED
  BY <1>3, <1>4

-----------------------------------------------------------------------------
(* Migrations and restorations *)

LEMMA CommitAnswers ==
  ASSUME NEW op, NEW p, NEW book, NEW vs, Commit(op, p, book, vs)
  PROVE  /\ answer'.op = op /\ answer'.on = p
         /\ answer'.result = "ok" => policies' = book /\ versions' = vs
         /\ answer'.result # "ok" => policies' = policies /\ versions' = versions
BY DEF Commit, Reply

LEMMA ReplyAnswers ==
  ASSUME NEW op, NEW p, NEW result, Reply(op, p, result)
  PROVE  answer'.op = op /\ answer'.on = p /\ answer'.result = result
BY DEF Reply

\* An operation answers in its own name.
LEMMA AnswerNamesTheEdit ==
  ASSUME EditBook, answer'.op \in {"migrate", "restore"}
  PROVE  \E p \in Policies : \/ MigrateConditions(p) /\ answer'.op = "migrate" /\ answer'.on = p
                             \/ Restore(p) /\ answer'.op = "restore" /\ answer'.on = p
<1>1. ASSUME NEW p \in Policies, MigrateConditions(p)
      PROVE  answer'.op = "migrate" /\ answer'.on = p
  BY <1>1, CommitAnswers, ReplyAnswers DEF MigrateConditions
<1>2. ASSUME NEW p \in Policies, Restore(p) PROVE answer'.op = "restore" /\ answer'.on = p
  BY <1>2, CommitAnswers, ReplyAnswers DEF Restore
<1>3. ASSUME NEW p \in Policies, Save(p) \/ Delete(p) \/ AddCommandSet(p) \/ ReplaceTree(p)
      PROVE  FALSE
  <2>1. CASE Save(p)
    <3>1. answer'.op \in {"create", "update", "refused"}
      BY <2>1, CommitAnswers, ReplyAnswers DEF Save
    <3> QED
      BY <3>1
  <2>2. CASE Delete(p)
    BY <2>2, CommitAnswers DEF Delete
  <2>3. CASE AddCommandSet(p)
    BY <2>3, CommitAnswers DEF AddCommandSet
  <2>4. CASE ReplaceTree(p)
    BY <2>4, CommitAnswers DEF ReplaceTree
  <2> QED
    BY <1>3, <2>1, <2>2, <2>3, <2>4
<1>4. ASSUME Reorder PROVE FALSE
  BY <1>4, CommitAnswers DEF Reorder
<1>5. ASSUME NEW c \in CommandSets, SaveCommandSet(c) PROVE FALSE
  BY <1>5, ReplyAnswers DEF SaveCommandSet
<1>6. ASSUME NEW q \in RadiusPolicies, SaveRadius(q) \/ DeleteRadius(q) PROVE FALSE
  BY <1>6, ReplyAnswers DEF SaveRadius, DeleteRadius
<1>7. ASSUME CreateGrant \/ DeleteGrant PROVE FALSE
  BY <1>7, ReplyAnswers DEF CreateGrant, DeleteGrant
<1> QED
  BY <1>1, <1>2, <1>3, <1>4, <1>5, <1>6, <1>7 DEF EditBook

LEMMA MigrationKeepsDecisions ==
  ASSUME BookSafe, NEW p \in Policies, MigrateConditions(p), NEW r, NEW command
  PROVE  Evaluate(policies', sets', r, command) = Evaluate(policies, sets, r, command)
<1>1. sets' = sets /\ p \in Rows(policies) /\ policies \in Books
  BY DEF MigrateConditions, BookSafe, IsBook, Books
<1>2. CASE policies' = policies
  BY <1>1, <1>2
<1>3. CASE policies' # policies
  <2> DEFINE row == policies[p]
             new == [row EXCEPT !.tree = MigratedTree(row)]
  <2>1. row.tree = None /\ LegacyLeaves(row) # {}
    BY <1>3 DEF MigrateConditions
  <2>2. policies' = [policies EXCEPT ![p] = new]
    <3>1. Commit("migrate", p, [policies EXCEPT ![p].tree = MigratedTree(policies[p])], versions)
      BY <1>3, <2>1 DEF MigrateConditions
    <3> QED
      BY <1>3, <3>1, CommitAnswers
  <2>3. p \in Policies /\ row \in PolicyRows /\ row # None
    BY <1>1, RowsOf DEF Rows
  <2>4. MigratedTree(row) \in ConditionTrees /\ MigratedTree(row) # None
    BY <2>3, MigratedIsTree, RowsAreSomething
  <2>5. /\ new \in PolicyRows /\ new.priority = row.priority /\ new.tree = MigratedTree(row)
        /\ new.enabled = row.enabled /\ new.priv = row.priv /\ new.action = row.action
        /\ new.sets = row.sets
    <3> HIDE DEF row
    <3> QED
      BY <2>3, <2>4, NewTree
  <2>6. new # None
    BY <2>5, RowsAreSomething
  <2> HIDE DEF row, new
  <2>7. PolicyMatches(new, r) = PolicyMatches(row, r)
    BY <2>1, <2>4, <2>5, MigrationMatches DEF PolicyMatches
  <2>8. DOMAIN policies' = Policies /\ DOMAIN policies = Policies /\ policies'[p] = new
        /\ \A q \in Policies \ {p} : policies'[q] = policies[q]
    BY <1>1, <2>2, <2>3 DEF Books
  <2>9. policies[p] = row
    BY DEF row
  <2>10. ASSUME NEW q \in DOMAIN policies
         PROVE /\ (policies'[q] # None) = (policies[q] # None)
               /\ policies[q] # None =>
                    /\ policies'[q].enabled = policies[q].enabled
                    /\ policies'[q].priority = policies[q].priority
                    /\ policies'[q].priv = policies[q].priv
                    /\ policies'[q].action = policies[q].action
                    /\ policies'[q].sets = policies[q].sets
                    /\ PolicyMatches(policies'[q], r) = PolicyMatches(policies[q], r)
    <3>1. CASE q = p
      BY <2>3, <2>5, <2>6, <2>7, <2>8, <2>9, <3>1
    <3>2. CASE q # p
      <4>1. policies'[q] = policies[q]
        BY <2>8, <3>2
      <4> QED
        BY <4>1
    <3> QED
      BY <3>1, <3>2
  <2> QED
    BY <1>1, <2>8, <2>10, SameDecision
<1> QED
  BY <1>2, <1>3

LEMMA RestorationShowsItsVersion ==
  ASSUME BookSafe, NEW p \in Policies, Restore(p), answer'.result = "ok"
  PROVE  \E v \in DOMAIN versions[p] :
           /\ Snapshot(policies'[p]) = versions[p][v]
           /\ \A r : PolicyMatches(policies'[p], r) = LegacyMatches(versions[p][v], r)
<1>1. policies \in Books /\ versions \in Histories
  BY DEF BookSafe, IsBook, Books, Histories
<1>2. PICK v \in DOMAIN versions[p] :
        LET row == Restored(versions[p][v], policies[p])
        IN  IF \/ versions[p][v].blocked
               \/ Snapshot(policies[p]).blocked
               \/ ~Deployable(row, "tacacs")
              THEN UNCHANGED <<policies, versions>> /\ Reply("restore", p, "refused")
              ELSE Commit("restore", p, [policies EXCEPT ![p] = row], RecordVersion(versions, p, row))
  BY DEF Restore
<1> DEFINE was == versions[p][v]
           row == Restored(was, policies[p])
<1>3. was \in Snapshots
  <2>1. versions[p] \in Seq(Snapshots)
    BY <1>1 DEF Histories
  <2> QED
    BY <2>1, LenProperties
<1>4. ~ was.blocked /\ Commit("restore", p, [policies EXCEPT ![p] = row], RecordVersion(versions, p, row))
  BY <1>2, ReplyAnswers
<1>5. policies'[p] = row
  <2>1. Commit("restore", p, [policies EXCEPT ![p] = row], RecordVersion(versions, p, row))
    BY <1>4
  <2> HIDE DEF row
  <2>2. policies' = [policies EXCEPT ![p] = row]
    BY <2>1, CommitAnswers
  <2> QED
    BY <1>1, <2>2 DEF Books
<1> HIDE DEF was
<1>6. Snapshot(row) = was
  <2>1. was.group \notin External /\ was.blocked = FALSE
    BY <1>3, <1>4 DEF Snapshots
  <2> QED
    BY <1>3, <2>1 DEF Snapshot, Restored, Snapshots
<1>7. \A r : PolicyMatches(row, r) = LegacyMatches(was, r)
  <2>1. row.tree = None /\ row.group = was.group /\ row.device = was.device /\ row.dgroup = was.dgroup
    BY DEF Restored
  <2> HIDE DEF row
  <2> QED
    BY <2>1 DEF PolicyMatches, LegacyMatches
<1> QED
  BY <1>5, <1>6, <1>7 DEF was

\* Rewriting a policy changes no decision (RewritingKeepsDecisions): migrating its conditions
\* to a tree, or restoring one of its versions.
THEOREM RewritingIsHarmless == SpecBook => RewritingKeepsDecisions
<1>1. BookSafe /\ [EditBook]_bookVars => [KeepsDecisions]_bookVars
  <2> SUFFICES ASSUME BookSafe, EditBook PROVE KeepsDecisions
    OBVIOUS
  <2>1. ASSUME answer'.op = "migrate"
        PROVE  \A n \in DOMAIN LocalUser, d \in DOMAIN Device \cup {None}, a \in Addresses,
                  c \in Commands :
                  Simulate(policies', sets', n, d, a, c) = Simulate(policies, sets, n, d, a, c)
    <3>1. PICK p \in Policies : MigrateConditions(p)
      BY <2>1, AnswerNamesTheEdit
    <3> QED
      BY <3>1, MigrationKeepsDecisions DEF Simulate
  <2>2. ASSUME answer'.op = "restore", answer'.result = "ok"
        PROVE  \E v \in DOMAIN versions[answer'.on] :
                 LET was == versions[answer'.on][v]
                     row == policies'[answer'.on]
                 IN  /\ Snapshot(row) = was
                     /\ \A n \in DOMAIN LocalUser, d \in DOMAIN Device :
                          LET r == RequestContext(SimulatedSubject(n), d, None)
                          IN  PolicyMatches(row, r) = LegacyMatches(was, r)
    <3>1. PICK p \in Policies : Restore(p) /\ answer'.on = p
      BY <2>2, AnswerNamesTheEdit
    <3> QED
      BY <2>2, <3>1, RestorationShowsItsVersion
  <2> QED
    BY <2>1, <2>2 DEF KeepsDecisions
<1> QED
  BY <1>1, BookIsSafe, PTL DEF SpecBook, RewritingKeepsDecisions

-----------------------------------------------------------------------------
(* Expressions say what conditions say *)

\* A session of the daemon and the request the engine evaluates, of the same local user.
SameRequest(s, r) ==
  /\ s.member = {r.group} \ {None} /\ s.source = "local"
  /\ s.device \in DOMAIN Device /\ r.device = s.device /\ r.dgroup = Device[s.device].group
  /\ r.address = s.address
  /\ r.group \notin External
  /\ None \notin {r.device, r.address}

\* What a condition reads of the request is there, or the condition does not negate.
CanBeNegated(l, r) == l.op \in {"not_equal", "is_not_in_cidr"} => Actual(l.type, r) # None

LEMMA FieldsOf ==
  ASSUME NEW s
  PROVE  /\ FieldValues("member", s) = s.member /\ FieldValues("device", s) = {s.device}
         /\ FieldValues("nac", s) = {s.address} /\ FieldValues("identity-source", s) = {s.source}
         /\ FieldValues("aaa.protocol", s) = {s.protocol}
BY DEF FieldValues

LEMMA TestIsEquation ==
  ASSUME NEW field, NEW eq \in BOOLEAN, NEW values, NEW s
  PROVE  TestHolds(Is(field, eq, values), s) <=> ((FieldValues(field, s) \cap values # {}) <=> eq)
BY DEF TestHolds, Is

LEMMA OneTestHolds ==
  ASSUME NEW field, NEW eq \in BOOLEAN, NEW values, NEW s
  PROVE  TermHolds(OneTest(field, eq, values), s) <=> ((FieldValues(field, s) \cap values # {}) <=> eq)
<1> DEFINE t == Is(field, eq, values)
<1>1. TermHolds(Term("AND", {t}), s) <=> TestHolds(t, s)
  BY DEF TermHolds, Term, Combined, TestHolds
<1> QED
  BY <1>1, TestIsEquation DEF OneTest

LEMMA TermsAreTests ==
  ASSUME NEW tests, NEW s
  PROVE  /\ TermHolds(Term("AND", tests), s) <=> \A t \in tests : TestHolds(t, s)
         /\ TermHolds(Term("OR", tests), s) <=> \E t \in tests : TestHolds(t, s)
<1>1. \A t \in tests : TestHolds(t, s) \in BOOLEAN
  BY DEF TestHolds
<1> QED
  BY <1>1 DEF TermHolds, Term, Combined

LEMMA TermIsBoolean == ASSUME NEW t, NEW s PROVE TermHolds(t, s) \in BOOLEAN
<1>1. \A op, values : Combined(op, values) \in BOOLEAN
  BY DEF Combined
<1> QED
  BY <1>1 DEF TermHolds

LEMMA ConditionIsBoolean == ASSUME NEW l, NEW r PROVE EvaluateCondition(l, r) \in BOOLEAN
BY DEF EvaluateCondition

\* A condition that can be deployed is rendered as a term that the daemon finds true of the
\* same requests.
LEMMA LeafDecides ==
  ASSUME NEW s, NEW r, SameRequest(s, r), NEW l \in Conditions, NEW protocol,
         LeafIssues(l, protocol) = {}, CanBeNegated(l, r)
  PROVE  TermHolds(LeafExpression(l), s) <=> EvaluateCondition(l, r)
<1> DEFINE eq == l.op \in {"equal", "is_in_cidr"}
<1>1. eq \in BOOLEAN /\ (~ eq => Actual(l.type, r) # None)
  BY DEF Conditions, CanBeNegated
<1>2. CASE l.type = "user"
  BY <1>2 DEF LeafIssues
<1>3. CASE l.type = "device"
  <2>1. LeafExpression(l) = OneTest("device", eq, {l.ref})
    BY <1>3 DEF LeafExpression
  <2> HIDE DEF eq
  <2>2. TermHolds(LeafExpression(l), s) <=> ((s.device = l.ref) <=> eq)
    BY <1>1, <2>1, OneTestHolds, FieldsOf
  <2>3. EvaluateCondition(l, r) <=> ((s.device = l.ref) <=> eq)
    BY <1>3 DEF EvaluateCondition, Actual, SameRequest, eq
  <2> QED
    BY <2>2, <2>3
<1>4. CASE l.type = "source_ip"
  <2>1. LeafExpression(l) = OneTest("nac", eq, l.ref)
    BY <1>4 DEF LeafExpression
  <2> HIDE DEF eq
  <2>2. TermHolds(LeafExpression(l), s) <=> ((s.address \in l.ref) <=> eq)
    BY <1>1, <2>1, OneTestHolds, FieldsOf
  <2>3. EvaluateCondition(l, r) <=> ((s.address \in l.ref) <=> eq)
    BY <1>4 DEF EvaluateCondition, Actual, SameRequest, eq
  <2> QED
    BY <2>2, <2>3
<1>5. CASE l.type = "device_group"
  <2> DEFINE tests == {Is("device", eq, {d}) : d \in DevicesOf(l.ref)}
  <2>1. LeafExpression(l) = Term(IF eq THEN "OR" ELSE "AND", tests)
    BY <1>5 DEF LeafExpression
  <2> HIDE DEF eq
  <2>2. \A d : TestHolds(Is("device", eq, {d}), s) <=> ((s.device = d) <=> eq)
    BY <1>1, TestIsEquation, FieldsOf
  <2>3. TermHolds(LeafExpression(l), s) <=> ((s.device \in DevicesOf(l.ref)) <=> eq)
    <3> HIDE DEF tests
    <3>1. CASE eq
      <4>1. LeafExpression(l) = Term("OR", tests)
        BY <2>1, <3>1
      <4>2. TermHolds(LeafExpression(l), s) <=> \E t \in tests : TestHolds(t, s)
        BY <4>1, TermsAreTests
      <4> QED
        BY <2>2, <3>1, <4>2 DEF tests
    <3>2. CASE ~ eq
      <4>1. LeafExpression(l) = Term("AND", tests)
        BY <2>1, <3>2
      <4>2. TermHolds(LeafExpression(l), s) <=> \A t \in tests : TestHolds(t, s)
        BY <4>1, TermsAreTests
      <4> QED
        BY <2>2, <3>2, <4>2 DEF tests
    <3> QED
      BY <3>1, <3>2
  <2>4. s.device \in DevicesOf(l.ref) <=> r.dgroup = l.ref
    BY DEF DevicesOf, SameRequest
  <2>5. None # l.ref
    BY <1>5, BookAssumption DEF Conditions
  <2>6. EvaluateCondition(l, r) <=> ((r.dgroup = l.ref) <=> eq)
    BY <1>1, <1>5, <2>5 DEF EvaluateCondition, Actual, eq
  <2> QED
    BY <2>3, <2>4, <2>6
<1>6. CASE l.type = "user_group" /\ l.ref \notin External
  <2>1. LeafExpression(l) = OneTest("member", eq, {l.ref})
    BY <1>6 DEF LeafExpression
  <2>2. None # l.ref
    BY <1>6, BookAssumption DEF Conditions
  <2> HIDE DEF eq
  <2>3. TermHolds(LeafExpression(l), s) <=> ((r.group = l.ref) <=> eq)
    <3>1. FieldValues("member", s) = {r.group} \ {None}
      BY FieldsOf DEF SameRequest
    <3> QED
      BY <1>1, <2>1, <2>2, <3>1, OneTestHolds
  <2>4. EvaluateCondition(l, r) <=> ((r.group = l.ref) <=> eq)
    BY <1>1, <1>6, <2>2 DEF EvaluateCondition, Actual, eq
  <2> QED
    BY <2>3, <2>4
<1>7. CASE l.type = "user_group" /\ l.ref \in External
  <2> DEFINE source == Is("identity-source", TRUE, {"active_directory"})
             tests == {source, Is("member", TRUE, {l.ref}), Is("aaa.protocol", TRUE, {"tacacs"})}
  <2>1. LeafExpression(l) = Term("AND", tests)
    BY <1>7 DEF LeafExpression
  <2>2. ~ TestHolds(source, s)
    <3>1. FieldValues("identity-source", s) = {"local"}
      BY FieldsOf DEF SameRequest
    <3>2. {"local"} \cap {"active_directory"} = {}
      OBVIOUS
    <3>3. TestHolds(source, s)
            <=> ((FieldValues("identity-source", s) \cap {"active_directory"} # {}) <=> TRUE)
      BY TestIsEquation
    <3> QED
      BY <3>1, <3>2, <3>3
  <2>3. ~ TermHolds(LeafExpression(l), s)
    <3>1. source \in tests
      OBVIOUS
    <3> HIDE DEF source, tests
    <3> QED
      BY <2>1, <2>2, <3>1, TermsAreTests
  <2>4. l.op = "equal"
    BY <1>7 DEF LeafIssues, GroupIssues
  <2>5. r.group # l.ref
    BY <1>7 DEF SameRequest
  <2>6. ~ EvaluateCondition(l, r)
    BY <1>7, <2>4, <2>5 DEF EvaluateCondition, Actual
  <2> QED
    BY <2>3, <2>6
<1> QED
  BY <1>2, <1>3, <1>4, <1>5, <1>6, <1>7 DEF Conditions

\* The values that the groups of an expression have for a session.
Truths(F, e, s) ==
  F = [i \in DOMAIN e |->
        Combined(e[i].op, {TermHolds(part, s) : part \in e[i].parts}
                            \cup {F[j] : j \in Subgroups(e, i)})]

LEMMA ExpressionIsRecursive ==
  ASSUME NEW e, NEW s PROVE Holds(e, s) = (CHOOSE F : Truths(F, e, s))[1]
BY DEF Holds, Truths

\* A tree that can be deployed is rendered as an expression that holds when it evaluates to TRUE:
\* group by group the two compute the same values.
LEMMA TreeDecides ==
  ASSUME NEW s, NEW r, SameRequest(s, r), NEW tree \in ConditionTrees, TreeIssues(tree) = {},
         ~ NegatesAbsence(tree, r)
  PROVE  Holds(TreeExpression(tree), s) = EvaluateTree(tree, r)
<1> DEFINE e == TreeExpression(tree)
<1>1. /\ \A i \in DOMAIN tree : tree[i].op \in Operators /\ ~ IsEmptyGroup(tree, i)
      /\ \A l \in Leaves(tree) : LeafIssues(l, "tacacs") = {}
  BY DEF TreeIssues
<1>2. \A i \in DOMAIN tree : tree[i] \in ConditionGroups
  <2>1. tree \in Seq(ConditionGroups)
    BY DEF ConditionTrees
  <2> QED
    BY <2>1, LenProperties
<1>3. DOMAIN e = DOMAIN tree
      /\ \A i \in DOMAIN tree : /\ e[i].op = tree[i].op /\ e[i].parent = tree[i].parent
                                /\ e[i].parts = {LeafExpression(l) : l \in tree[i].leaves}
  BY DEF TreeExpression
<1> HIDE DEF e
<1>4. \A i \in DOMAIN tree : Subgroups(e, i) = Subgroups(tree, i)
  BY <1>3 DEF Subgroups
<1>5. ASSUME NEW i \in DOMAIN tree, NEW l \in tree[i].leaves
      PROVE  TermHolds(LeafExpression(l), s) = EvaluateCondition(l, r)
  <2>1. l \in Conditions /\ l \in Leaves(tree)
    BY <1>2, <1>5 DEF ConditionGroups, Leaves
  <2>2. CanBeNegated(l, r)
    BY <2>1 DEF NegatesAbsence, CanBeNegated
  <2>3. TermHolds(LeafExpression(l), s) <=> EvaluateCondition(l, r)
    BY <1>1, <2>1, <2>2, LeafDecides
  <2> QED
    BY <2>3, TermIsBoolean, ConditionIsBoolean
<1>6. ASSUME NEW F, NEW i \in DOMAIN tree
      PROVE  Combined(e[i].op, {TermHolds(part, s) : part \in e[i].parts}
                                 \cup {F[j] : j \in Subgroups(e, i)})
             = GroupResult(tree[i], {EvaluateCondition(l, r) : l \in tree[i].leaves}
                                      \cup {F[j] : j \in Subgroups(tree, i)})
  <2> DEFINE terms == {TermHolds(part, s) : part \in e[i].parts}
             conditions == {EvaluateCondition(l, r) : l \in tree[i].leaves}
             below == {F[j] : j \in Subgroups(tree, i)}
  <2>1. terms = conditions
    BY <1>3, <1>5
  <2>2. {F[j] : j \in Subgroups(e, i)} = below
    BY <1>4
  <2>3. conditions \cup below # {}
    BY <1>1 DEF IsEmptyGroup
  <2> HIDE DEF terms, conditions, below
  <2>4. Combined(tree[i].op, conditions \cup below) = GroupResult(tree[i], conditions \cup below)
    BY <1>1, <2>3 DEF Combined, GroupResult, Operators
  <2>5. e[i].op = tree[i].op
    BY <1>3
  <2> QED
    BY <2>1, <2>2, <2>4, <2>5 DEF terms, conditions, below
<1>7. ASSUME NEW F PROVE Truths(F, e, s) <=> Values(F, tree, r)
  <2> DEFINE truth(i) == Combined(e[i].op, {TermHolds(part, s) : part \in e[i].parts}
                                             \cup {F[j] : j \in Subgroups(e, i)})
             value(i) == GroupResult(tree[i], {EvaluateCondition(l, r) : l \in tree[i].leaves}
                                                \cup {F[j] : j \in Subgroups(tree, i)})
  <2>1. \A i \in DOMAIN tree : truth(i) = value(i)
    BY <1>6
  <2>2. /\ Truths(F, e, s) <=> F = [i \in DOMAIN e |-> truth(i)]
        /\ Values(F, tree, r) <=> F = [i \in DOMAIN tree |-> value(i)]
    BY DEF Truths, Values
  <2> HIDE DEF truth, value
  <2>3. [i \in DOMAIN e |-> truth(i)] = [i \in DOMAIN tree |-> value(i)]
    BY <1>3, <2>1
  <2> QED
    BY <2>2, <2>3
<1>8. (CHOOSE F : Truths(F, e, s)) = (CHOOSE F : Values(F, tree, r))
  BY <1>7, Zenon
<1> QED
  BY <1>8, ExpressionIsRecursive, TreeIsRecursive DEF e

\* A conjunction of terms holds when each of them does.
LEMMA AllOfHolds ==
  ASSUME NEW parts, NEW s
  PROVE  Holds(AllOf(parts), s) <=> \A part \in parts : TermHolds(part, s)
<1> DEFINE e == AllOf(parts)
           terms == {TermHolds(part, s) : part \in parts}
           value == Combined("AND", terms)
<1>1. DOMAIN e = {1} /\ e[1].op = "AND" /\ e[1].parent = 0 /\ e[1].parts = parts
  BY DEF AllOf
<1> HIDE DEF e
<1>2. Subgroups(e, 1) = {}
  BY <1>1 DEF Subgroups
<1>3. value <=> \A part \in parts : TermHolds(part, s)
  BY TermIsBoolean DEF Combined
<1>4. ASSUME NEW F
      PROVE  Combined(e[1].op, {TermHolds(part, s) : part \in e[1].parts}
                                 \cup {F[j] : j \in Subgroups(e, 1)}) = value
  <2>1. {TermHolds(part, s) : part \in e[1].parts} \cup {F[j] : j \in Subgroups(e, 1)} = terms
    BY <1>1, <1>2
  <2> QED
    BY <1>1, <2>1
<1> HIDE DEF value, terms
<1>5. \A F : Truths(F, e, s) <=> F = [i \in {1} |-> value]
  BY <1>1, <1>4 DEF Truths
<1>6. (CHOOSE F : Truths(F, e, s))[1] = value
  BY <1>5
<1> QED
  BY <1>3, <1>6, ExpressionIsRecursive DEF e

LEMMA ExpressionsAreConditions ==
  ASSUME NEW parts, NEW tree \in ConditionTrees
  PROVE  AllOf(parts) # NoCondition /\ TreeExpression(tree) # NoCondition
<1>1. AllOf(parts) # <<>>
  BY DEF AllOf
<1>2. 1 \in DOMAIN tree
  BY LenProperties, EmptySeq DEF ConditionTrees
<1>3. DOMAIN TreeExpression(tree) = DOMAIN tree
  BY DEF TreeExpression
<1> QED
  BY <1>1, <1>2, <1>3 DEF NoCondition

\* The rendered scope of a rule is met by the requests that meet its legacy conditions.
LEMMA LegacyDecides ==
  ASSUME NEW s, NEW r, SameRequest(s, r), NEW p, NEW protocol,
         p.group \in OptionalGroup, p.device \in OptionalDevice, p.dgroup \in OptionalDeviceGroup,
         ~ HasTree(p, protocol), ScopeIssues(p, protocol) = {}
  PROVE  (RenderScope(p, protocol) = NoCondition \/ Holds(RenderScope(p, protocol), s))
           <=> LegacyMatches(p, r)
<1> DEFINE parts == {LeafExpression(l) : l \in LegacyLeaves(p)}
<1>1. LegacyMatches(p, r) <=> \A l \in LegacyLeaves(p) : EvaluateCondition(l, r)
  BY LegacyIsItsLeaves
<1>2. CASE LegacyLeaves(p) = {}
  BY <1>1, <1>2 DEF RenderScope
<1>3. CASE LegacyLeaves(p) # {}
  <2>1. RenderScope(p, protocol) = AllOf(parts)
    BY <1>3 DEF RenderScope
  <2>2. AllOf(parts) # NoCondition
    BY DEF AllOf, NoCondition
  <2>3. ASSUME NEW l \in LegacyLeaves(p)
        PROVE  TermHolds(LeafExpression(l), s) <=> EvaluateCondition(l, r)
    <3>1. l \in Conditions /\ l.op = "equal"
      BY LegacyLeavesAreConditions
    <3>2. LeafIssues(l, protocol) = {}
      BY DEF ScopeIssues
    <3>3. CanBeNegated(l, r)
      BY <3>1 DEF CanBeNegated
    <3> QED
      BY <3>1, <3>2, <3>3, LeafDecides
  <2>4. (\A part \in parts : TermHolds(part, s)) <=> \A l \in LegacyLeaves(p) : EvaluateCondition(l, r)
    BY <2>3
  <2> HIDE DEF parts
  <2> QED
    BY <1>1, <2>1, <2>2, <2>4, AllOfHolds
<1> QED
  BY <1>2, <1>3

LEMMA PolicyDecides ==
  ASSUME NEW s, NEW r, SameRequest(s, r), NEW p \in PolicyRows, ScopeIssues(p, "tacacs") = {},
         p.tree # None => ~ NegatesAbsence(p.tree, r)
  PROVE  (RenderScope(p, "tacacs") = NoCondition \/ Holds(RenderScope(p, "tacacs"), s))
           <=> PolicyMatches(p, r)
<1>1. CASE p.tree = None
  <2>1. ~ HasTree(p, "tacacs") /\ PolicyMatches(p, r) = LegacyMatches(p, r)
    BY <1>1 DEF HasTree, PolicyMatches
  <2>2. p.group \in OptionalGroup /\ p.device \in OptionalDevice /\ p.dgroup \in OptionalDeviceGroup
    BY DEF PolicyRows
  <2> QED
    BY <2>1, <2>2, LegacyDecides
<1>2. CASE p.tree # None
  <2>1. p.tree \in ConditionTrees
    BY <1>2 DEF PolicyRows
  <2>2. HasTree(p, "tacacs") /\ TreeIssues(p.tree) = {}
    BY <1>2 DEF HasTree, ScopeIssues
  <2>3. RenderScope(p, "tacacs") = TreeExpression(p.tree) /\ PolicyMatches(p, r) = EvaluateTree(p.tree, r)
    BY <1>2, <2>2 DEF RenderScope, PolicyMatches
  <2>4. Holds(TreeExpression(p.tree), s) = EvaluateTree(p.tree, r)
    BY <1>2, <2>1, <2>2, TreeDecides
  <2> QED
    BY <2>1, <2>3, <2>4, ExpressionsAreConditions
<1> QED
  BY <1>1, <1>2

-----------------------------------------------------------------------------
(* The ruleset in its order *)

IsOrder(S, order) ==
  /\ \A x \in S : <<x, x>> \notin order
  /\ \A x, y, z \in S : <<x, y>> \in order /\ <<y, z>> \in order => <<x, z>> \in order
  /\ \A x, y \in S : x # y => <<x, y>> \in order \/ <<y, x>> \in order

\* A finite set is laid out once and for all in a strict order.
LEMMA OrderIsLaidOut ==
  ASSUME NEW S, IsFiniteSet(S), NEW order, IsOrder(S, order)
  PROVE  LET laid == InOrder(S, order)
             n == Cardinality(S)
         IN  /\ n \in Nat /\ laid \in [1..n -> S]
             /\ \A x \in S : \E k \in 1..n : laid[k] = x
             /\ \A j, k \in 1..n : j < k => <<laid[j], laid[k]>> \in order
<1> DEFINE n == Cardinality(S)
           below(x) == {y \in S : <<y, x>> \in order}
           rank == [x \in S |-> Cardinality(below(x)) + 1]
           laid == InOrder(S, order)
<1>1. n \in Nat
  BY FS_CardinalityType
<1>2. ASSUME NEW x \in S
      PROVE  IsFiniteSet(below(x)) /\ Cardinality(below(x)) \in Nat /\ rank[x] \in 1..n
  <2>1. below(x) \in SUBSET S
    OBVIOUS
  <2>2. IsFiniteSet(below(x)) /\ Cardinality(below(x)) \in Nat /\ Cardinality(below(x)) <= n
    BY <2>1, FS_Subset, FS_CardinalityType
  <2>3. x \notin below(x)
    BY DEF IsOrder
  <2>4. Cardinality(below(x)) # n
    BY <2>1, <2>3, FS_Subset
  <2> QED
    BY <1>1, <2>2, <2>4
<1>3. ASSUME NEW x \in S, NEW y \in S, <<x, y>> \in order PROVE rank[x] < rank[y]
  <2>1. below(x) \cup {x} \in SUBSET below(y)
    BY <1>3 DEF IsOrder
  <2>2. x \notin below(x)
    BY DEF IsOrder
  <2> HIDE DEF below
  <2>3. Cardinality(below(x) \cup {x}) = Cardinality(below(x)) + 1
    BY <1>2, <2>2, FS_AddElement
  <2>4. Cardinality(below(x) \cup {x}) <= Cardinality(below(y))
    BY <1>2, <2>1, FS_Subset
  <2> QED
    BY <1>2, <2>3, <2>4
<1>4. rank \in Injection(S, 1..n)
  <2>1. rank \in [S -> 1..n]
    BY <1>2
  <2>2. \A x, y \in S : rank[x] = rank[y] => x = y
    <3> SUFFICES ASSUME NEW x \in S, NEW y \in S, x # y PROVE rank[x] # rank[y]
      OBVIOUS
    <3>1. rank[x] \in Nat /\ rank[y] \in Nat
      <4>1. rank[x] \in 1..n /\ rank[y] \in 1..n
        BY <1>2
      <4> HIDE DEF rank, n
      <4> QED
        BY <1>1, <4>1
    <3>2. rank[x] < rank[y] \/ rank[y] < rank[x]
      BY <1>3 DEF IsOrder
    <3> HIDE DEF rank
    <3> QED
      BY <3>1, <3>2
  <2> HIDE DEF rank
  <2> QED
    BY <2>1, <2>2 DEF Injection, IsInjective
<1>5. \A k \in 1..n : \E x \in S : rank[x] = k
  <2>1. IsFiniteSet(1..n) /\ Cardinality(1..n) = n
    <3>1. 1 \in Int /\ n \in Int /\ (1 > n => n = 0)
      BY <1>1
    <3>2. IsFiniteSet(1..n) /\ Cardinality(1..n) = IF 1 > n THEN 0 ELSE n - 1 + 1
      BY <3>1, FS_Interval
    <3> QED
      BY <1>1, <3>1, <3>2
  <2>2. rank \in Surjection(S, 1..n)
    <3> HIDE DEF rank
    <3> QED
      BY <1>4, <2>1, FS_Injection
  <2> HIDE DEF rank
  <2> QED
    BY <2>2 DEF Surjection
<1>6. ASSUME NEW k \in 1..n PROVE laid[k] \in S /\ rank[laid[k]] = k
  <2>1. laid[k] = CHOOSE x \in S : Cardinality(below(x)) = k - 1
    BY DEF InOrder
  <2>2. \E x \in S : Cardinality(below(x)) = k - 1
    <3>1. PICK x \in S : rank[x] = k
      BY <1>5
    <3>2. rank[x] = Cardinality(below(x)) + 1 /\ Cardinality(below(x)) \in Nat
      BY <1>2
    <3> HIDE DEF rank, below
    <3> QED
      BY <3>1, <3>2
  <2>3. laid[k] \in S /\ Cardinality(below(laid[k])) = k - 1
    <3> HIDE DEF below, laid
    <3> QED
      BY <2>1, <2>2
  <2> HIDE DEF below, laid
  <2> QED
    BY <1>1, <2>3
<1>7. laid \in [1..n -> S]
  <2> DEFINE choice(k) == CHOOSE x \in S : Cardinality(below(x)) = k - 1
  <2>1. laid = [k \in 1..n |-> choice(k)]
    BY DEF InOrder
  <2> HIDE DEF choice
  <2> HIDE DEF laid
  <2> QED
    BY <1>6, <2>1
<1>8. ASSUME NEW x \in S PROVE \E k \in 1..n : laid[k] = x
  <2>1. rank[x] \in 1..n
    BY <1>2
  <2>2. laid[rank[x]] \in S /\ rank[laid[rank[x]]] = rank[x]
    <3> HIDE DEF rank, laid
    <3> QED
      BY <1>6, <2>1
  <2>3. laid[rank[x]] = x
    <3> HIDE DEF rank, laid
    <3> QED
      BY <1>4, <2>2 DEF Injection, IsInjective
  <2> HIDE DEF rank, laid
  <2> QED
    BY <2>1, <2>3
<1>9. ASSUME NEW j \in 1..n, NEW k \in 1..n, j < k PROVE <<laid[j], laid[k]>> \in order
  <2>1. laid[j] \in S /\ laid[k] \in S /\ rank[laid[j]] = j /\ rank[laid[k]] = k
    BY <1>6
  <2> HIDE DEF laid, rank
  <2>2. laid[j] # laid[k]
    BY <1>1, <1>9, <2>1
  <2>3. ~ <<laid[k], laid[j]>> \in order
    BY <1>1, <1>3, <1>9, <2>1
  <2> QED
    BY <2>1, <2>2, <2>3 DEF IsOrder
<1> HIDE DEF laid, rank, n
<1> QED
  BY <1>1, <1>7, <1>8, <1>9 DEF laid, n

\* The places that some members of a set have in its order.
Places(S, order, M) == {k \in DOMAIN InOrder(S, order) : InOrder(S, order)[k] \in M}

\* The first of them is the one before the others.
LEMMA FirstLaidOut ==
  ASSUME NEW S, IsFiniteSet(S), NEW order, IsOrder(S, order), NEW M \in SUBSET S
  PROVE  LET met == Places(S, order, M)
             x   == InOrder(S, order)[First(met)]
         IN  /\ met = {} <=> M = {}
             /\ met # {} => /\ First(met) \in met /\ x \in M
                             /\ \A y \in M : y # x => <<x, y>> \in order
<1> DEFINE n == Cardinality(S)
           laid == InOrder(S, order)
           met == Places(S, order, M)
<1>1. /\ n \in Nat /\ laid \in [1..n -> S]
      /\ \A x \in S : \E k \in 1..n : laid[k] = x
      /\ \A j, k \in 1..n : j < k => <<laid[j], laid[k]>> \in order
  BY OrderIsLaidOut
<1> HIDE DEF n, laid
<1>2. met = {k \in 1..n : laid[k] \in M}
  BY <1>1 DEF laid, Places
<1> HIDE DEF met
<1>3. met = {} <=> M = {}
  BY <1>1, <1>2
<1>4. ASSUME met # {}
      PROVE  /\ First(met) \in met /\ laid[First(met)] \in M
             /\ \A x \in M : x # laid[First(met)] => <<laid[First(met)], x>> \in order
  <2>1. met \in SUBSET Nat
    BY <1>1, <1>2
  <2>2. First(met) \in met /\ \A m \in met : First(met) <= m
    BY <1>4, <2>1, FirstIsLeast
  <2>3. ASSUME NEW x \in M, x # laid[First(met)] PROVE <<laid[First(met)], x>> \in order
    <3>1. PICK k \in 1..n : laid[k] = x
      BY <1>1
    <3>2. k \in met /\ First(met) <= k /\ k # First(met)
      BY <1>2, <2>2, <2>3, <3>1
    <3>3. First(met) \in 1..n /\ First(met) < k
      BY <1>1, <1>2, <2>2, <3>2
    <3> QED
      BY <1>1, <3>1, <3>3
  <2> QED
    BY <1>2, <2>2, <2>3
<1> QED
  BY <1>3, <1>4 DEF laid, met

\* The rule a session meets first.
Winner(rules, s) == rules[First(Met(rules, s))]

LEMMA MetAreRules ==
  ASSUME NEW S, NEW rules \in Seq(S), NEW s
  PROVE  /\ Met(rules, s) \in SUBSET (1..Len(rules)) /\ Met(rules, s) \in SUBSET Nat
         /\ Met(rules, s) # {} => /\ First(Met(rules, s)) \in Met(rules, s)
                                  /\ \A i \in Met(rules, s) : First(Met(rules, s)) <= i
<1>1. DOMAIN rules = 1..Len(rules) /\ Len(rules) \in Nat
  BY LenProperties
<1>2. Met(rules, s) \in SUBSET (1..Len(rules)) /\ Met(rules, s) \in SUBSET Nat
  BY <1>1 DEF Met
<1> QED
  BY <1>2, FirstIsLeast

LEMMA FirstIs ==
  ASSUME NEW S \in SUBSET Nat, NEW n \in S, \A i \in S : n <= i PROVE First(S) = n
<1>1. First(S) \in S /\ \A i \in S : First(S) <= i
  BY FirstIsLeast
<1>2. First(S) <= n /\ n <= First(S) /\ First(S) \in Nat /\ n \in Nat
  BY <1>1
<1> QED
  BY <1>2

\* The rules of a list stand before those of the next one.
StandBefore(A, B, s) ==
  /\ Met(A, s) # {} => Met(A \o B, s) # {} /\ Winner(A \o B, s) = Winner(A, s)
  /\ Met(A, s) = {} =>
       /\ Met(A \o B, s) = {} <=> Met(B, s) = {}
       /\ Met(B, s) # {} => Winner(A \o B, s) = Winner(B, s)

LEMMA WinnerOfConcat ==
  ASSUME NEW S, NEW A \in Seq(S), NEW B \in Seq(S), NEW s PROVE StandBefore(A, B, s)
<1> DEFINE C == A \o B
           met(rule) == rule.when = NoCondition \/ Holds(rule.when, s)
<1>1. Len(A) \in Nat /\ Len(B) \in Nat /\ DOMAIN A = 1..Len(A) /\ DOMAIN B = 1..Len(B)
  BY LenProperties
<1>2. C \in Seq(S) /\ Len(C) = Len(A) + Len(B)
      /\ \A i \in 1..(Len(A) + Len(B)) : C[i] = IF i <= Len(A) THEN A[i] ELSE B[i - Len(A)]
  BY ConcatProperties
<1>3. DOMAIN C = 1..(Len(A) + Len(B))
  BY <1>2, LenProperties
<1>4. /\ Met(A, s) = {i \in 1..Len(A) : met(A[i])} /\ Met(B, s) = {i \in 1..Len(B) : met(B[i])}
      /\ Met(C, s) = {i \in 1..(Len(A) + Len(B)) : met(C[i])}
  BY <1>1, <1>3 DEF Met
<1> HIDE DEF C, met
<1>5. CASE Met(A, s) # {}
  <2> DEFINE f == First(Met(A, s))
  <2>1. f \in Met(A, s) /\ \A i \in Met(A, s) : f <= i
    BY <1>5, MetAreRules
  <2> HIDE DEF f
  <2>2. f \in 1..Len(A) /\ C[f] = A[f] /\ f \in Met(C, s)
    BY <1>1, <1>2, <1>4, <2>1
  <2>3. ASSUME NEW i \in Met(C, s) PROVE f <= i
    <3>1. i \in 1..(Len(A) + Len(B)) /\ met(C[i]) /\ f \in Nat /\ f <= Len(A)
      BY <1>1, <1>4, <2>2
    <3>2. CASE i <= Len(A)
      <4>1. i \in 1..Len(A) /\ C[i] = A[i]
        BY <1>1, <1>2, <3>1, <3>2
      <4> QED
        BY <1>4, <2>1, <3>1, <4>1
    <3>3. CASE ~ i <= Len(A)
      BY <1>1, <3>1, <3>3
    <3> QED
      BY <3>2, <3>3
  <2>4. Met(C, s) \in SUBSET Nat
    BY <1>2, MetAreRules
  <2>5. First(Met(C, s)) = f
    BY <2>2, <2>3, <2>4, FirstIs
  <2> QED
    BY <1>5, <2>2, <2>5 DEF StandBefore, Winner, C, f
<1>6. CASE Met(A, s) = {}
  <2>1. ASSUME NEW i \in Met(C, s) PROVE i \in Nat /\ i > Len(A) /\ i - Len(A) \in Met(B, s)
    <3>1. i \in 1..(Len(A) + Len(B)) /\ met(C[i])
      BY <1>4
    <3>2. i > Len(A)
      <4> SUFFICES ASSUME i <= Len(A) PROVE FALSE
        BY <1>1, <3>1
      <4>1. i \in 1..Len(A) /\ C[i] = A[i]
        BY <1>1, <1>2, <3>1
      <4>2. i \in Met(A, s)
        BY <1>4, <3>1, <4>1
      <4> QED
        BY <1>6, <4>2
    <3>3. i - Len(A) \in 1..Len(B) /\ C[i] = B[i - Len(A)]
      BY <1>1, <1>2, <3>1, <3>2
    <3> QED
      BY <1>1, <1>4, <3>1, <3>2, <3>3
  <2>2. ASSUME NEW i \in Met(B, s) PROVE i + Len(A) \in Met(C, s) /\ C[i + Len(A)] = B[i]
    <3>1. i \in 1..Len(B) /\ met(B[i])
      BY <1>4
    <3> DEFINE k == i + Len(A)
    <3>2. k \in 1..(Len(A) + Len(B)) /\ ~ (k <= Len(A)) /\ k - Len(A) = i
      BY <1>1, <3>1
    <3> HIDE DEF k
    <3>3. C[k] = B[k - Len(A)]
      BY <1>2, <3>2
    <3>4. C[k] = B[i]
      BY <3>2, <3>3
    <3> QED
      BY <1>4, <3>1, <3>2, <3>4 DEF k
  <2>3. Met(C, s) = {} <=> Met(B, s) = {}
    BY <2>1, <2>2
  <2>4. ASSUME Met(B, s) # {} PROVE Winner(C, s) = Winner(B, s)
    <3> DEFINE f == First(Met(B, s))
    <3>1. f \in Met(B, s) /\ \A i \in Met(B, s) : f <= i
      BY <2>4, MetAreRules
    <3>2. Met(B, s) \in SUBSET Nat /\ Met(C, s) \in SUBSET Nat
      BY <1>2, MetAreRules
    <3> HIDE DEF f
    <3>3. f + Len(A) \in Met(C, s) /\ C[f + Len(A)] = B[f]
      BY <2>2, <3>1
    <3>4. ASSUME NEW i \in Met(C, s) PROVE f + Len(A) <= i
      BY <1>1, <2>1, <3>1, <3>2
    <3>5. First(Met(C, s)) = f + Len(A)
      BY <3>2, <3>3, <3>4, FirstIs
    <3> QED
      BY <3>3, <3>5 DEF Winner, f
  <2> QED
    BY <1>6, <2>3, <2>4 DEF StandBefore, C
<1> QED
  BY <1>5, <1>6

LEMMA ListOfRules ==
  ASSUME NEW n \in Nat, NEW S, NEW rules \in [1..n -> S]
  PROVE  rules \in Seq(S) /\ Len(rules) = n
<1>1. rules \in Seq(S)
  OBVIOUS
<1>2. Len(rules) \in Nat /\ 1..Len(rules) = 1..n
  BY <1>1, LenProperties
<1>3. Len(rules) = n
  <2>1. n # 0 => n \in 1..Len(rules)
    BY <1>2
  <2>2. Len(rules) # 0 => Len(rules) \in 1..n
    BY <1>2
  <2> QED
    BY <1>2, <2>1, <2>2
<1> QED
  BY <1>1, <1>3

\* Three lists in a row: the first one that has a rule for the session gives the winner.
FirstOfThree(all, A, B, C, s) ==
  /\ Met(A, s) # {} => Met(all, s) # {} /\ Winner(all, s) = Winner(A, s)
  /\ Met(A, s) = {} /\ Met(B, s) # {} => Met(all, s) # {} /\ Winner(all, s) = Winner(B, s)
  /\ Met(A, s) = {} /\ Met(B, s) = {} =>
       /\ Met(all, s) = {} <=> Met(C, s) = {}
       /\ Met(C, s) # {} => Winner(all, s) = Winner(C, s)

LEMMA WinnerOfThree ==
  ASSUME NEW S, NEW A \in Seq(S), NEW B \in Seq(S), NEW C \in Seq(S), NEW s
  PROVE  FirstOfThree(<<>> \o A \o B \o C, A, B, C, s)
<1>1. <<>> \o A = A
  BY ConcatEmptySeq
<1>2. A \o B \in Seq(S)
  BY ConcatProperties
<1>3. StandBefore(A, B, s) /\ StandBefore(A \o B, C, s)
  BY <1>2, WinnerOfConcat
<1> QED
  BY <1>1, <1>3 DEF StandBefore, FirstOfThree

\* A list written in the order of a set.
LEMMA ListInOrder ==
  ASSUME NEW S, IsFiniteSet(S), NEW order, IsOrder(S, order), NEW list,
         list = [k \in DOMAIN InOrder(S, order) |-> list[k]]
  PROVE  /\ DOMAIN list = DOMAIN InOrder(S, order) /\ list \in Seq({list[k] : k \in DOMAIN list})
         /\ \A k \in DOMAIN list : InOrder(S, order)[k] \in S
<1> DEFINE n == Cardinality(S)
           values == {list[k] : k \in DOMAIN list}
<1>1. n \in Nat /\ InOrder(S, order) \in [1..n -> S]
  BY OrderIsLaidOut
<1> HIDE DEF n
<1>2. DOMAIN InOrder(S, order) = 1..n /\ DOMAIN list = 1..n
  BY <1>1
<1>3. list \in [1..n -> values]
  BY <1>2
<1> HIDE DEF values
<1>4. list \in Seq(values)
  BY <1>1, <1>3
<1> QED
  BY <1>1, <1>2, <1>4 DEF values

\* The grants.

GrantMatches(g, r) ==
  /\ r.group = g.group
  /\ IF g.device # None THEN r.device = g.device ELSE r.dgroup = g.dgroup

LEMMA GrantedIs == ASSUME NEW r PROVE Granted(r) <=> \E i \in DOMAIN grants : GrantMatches(grants[i], r)
BY DEF Granted, GrantMatches

LEMMA GrantEntryDecides ==
  ASSUME NEW s, NEW r, SameRequest(s, r), NEW g \in Grants
  PROVE  /\ GrantEntry(g).when # NoCondition
         /\ Holds(GrantEntry(g).when, s) <=> GrantMatches(g, r)
         /\ GrantMatches(g, r) => GrantDevices(g) # {}
<1> DEFINE member == OneTest("member", TRUE, {g.group})
           device == OneTest("device", TRUE, GrantDevices(g))
<1>1. GrantEntry(g).when = AllOf({member, device})
  BY DEF GrantEntry
<1>2. g.group # None /\ (g.device = None <=> g.dgroup # None)
  BY BookAssumption DEF Grants
<1>3. s.device \in GrantDevices(g) <=> IF g.device # None THEN r.device = g.device ELSE r.dgroup = g.dgroup
  BY DEF GrantDevices, DevicesOf, SameRequest
<1>4. TermHolds(member, s) <=> r.group = g.group
  <2>1. FieldValues("member", s) = {r.group} \ {None}
    BY FieldsOf DEF SameRequest
  <2>2. TRUE \in BOOLEAN
    OBVIOUS
  <2>3. TermHolds(member, s) <=> ((FieldValues("member", s) \cap {g.group} # {}) <=> TRUE)
    BY <2>2, OneTestHolds
  <2> QED
    BY <1>2, <2>1, <2>3
<1>5. TermHolds(device, s) <=> s.device \in GrantDevices(g)
  <2>1. FieldValues("device", s) = {s.device}
    BY FieldsOf
  <2>2. TRUE \in BOOLEAN
    OBVIOUS
  <2>3. TermHolds(device, s) <=> ((FieldValues("device", s) \cap GrantDevices(g) # {}) <=> TRUE)
    BY <2>2, OneTestHolds
  <2> QED
    BY <2>1, <2>3
<1> HIDE DEF member, device
<1>6. Holds(GrantEntry(g).when, s) <=> TermHolds(member, s) /\ TermHolds(device, s)
  BY <1>1, AllOfHolds
<1>7. GrantEntry(g).when # NoCondition
  BY <1>1 DEF AllOf, NoCondition
<1> QED
  BY <1>3, <1>4, <1>5, <1>6, <1>7 DEF GrantMatches

LEMMA GrantsAreOrdered ==
  ASSUME grants \in Seq(Grants)
  PROVE  /\ IsFiniteSet(Granting(grants)) /\ IsOrder(Granting(grants), GrantOrder(grants))
         /\ Granting(grants) \subseteq DOMAIN grants
<1>1. DOMAIN grants = 1..Len(grants) /\ Len(grants) \in Nat
  BY LenProperties
<1>2. Granting(grants) \in SUBSET (1..Len(grants))
  BY <1>1 DEF Granting
<1>3. IsFiniteSet(1..Len(grants))
  BY <1>1, FS_Interval
<1>4. IsFiniteSet(Granting(grants))
  BY <1>2, <1>3, FS_Subset
<1>5. \A x, y \in Granting(grants) : <<x, y>> \in GrantOrder(grants) <=> x < y
  BY DEF GrantOrder
<1>6. \A x \in Granting(grants) : x \in Nat
  BY <1>1, <1>2
<1>7. IsOrder(Granting(grants), GrantOrder(grants))
  BY <1>5, <1>6 DEF IsOrder
<1> QED
  BY <1>1, <1>2, <1>4, <1>7

LEMMA GrantsDecide ==
  ASSUME grants \in Seq(Grants), NEW s, NEW r, SameRequest(s, r)
  PROVE  /\ GrantRules(grants) \in Seq({GrantRules(grants)[k] : k \in DOMAIN GrantRules(grants)})
         /\ Met(GrantRules(grants), s) = {} <=> ~ Granted(r)
         /\ Met(GrantRules(grants), s) # {} =>
              \E i \in DOMAIN grants : Winner(GrantRules(grants), s) = GrantEntry(grants[i])
<1> DEFINE order == InOrder(Granting(grants), GrantOrder(grants))
           rules == GrantRules(grants)
           M == {i \in Granting(grants) : GrantMatches(grants[i], r)}
<1>1. /\ IsFiniteSet(Granting(grants)) /\ IsOrder(Granting(grants), GrantOrder(grants))
      /\ Granting(grants) \subseteq DOMAIN grants
  BY GrantsAreOrdered
<1>2. \A i \in DOMAIN grants : grants[i] \in Grants
  BY LenProperties
<1>3. rules = [k \in DOMAIN order |-> rules[k]]
      /\ \A k \in DOMAIN order : rules[k] = GrantEntry(grants[order[k]])
  BY DEF GrantRules
<1> HIDE DEF rules
<1>4. DOMAIN rules = DOMAIN order /\ rules \in Seq({rules[k] : k \in DOMAIN rules})
      /\ \A k \in DOMAIN order : order[k] \in Granting(grants)
  BY <1>1, <1>3, ListInOrder
<1> HIDE DEF order
<1>5. Met(rules, s) = {k \in DOMAIN order : order[k] \in M}
  <2>1. ASSUME NEW k \in DOMAIN order
        PROVE  (rules[k].when = NoCondition \/ Holds(rules[k].when, s)) <=> order[k] \in M
    <3>1. order[k] \in Granting(grants) /\ grants[order[k]] \in Grants
          /\ rules[k] = GrantEntry(grants[order[k]])
      BY <1>1, <1>2, <1>3, <1>4
    <3> QED
      BY <3>1, GrantEntryDecides
  <2> HIDE DEF M
  <2> QED
    BY <1>4, <2>1 DEF Met
<1>6. M \in SUBSET Granting(grants)
  OBVIOUS
<1>7. M # {} <=> Granted(r)
  <2>1. \A i \in DOMAIN grants : GrantMatches(grants[i], r) => i \in Granting(grants)
    BY <1>2, GrantEntryDecides DEF Granting
  <2> QED
    BY <1>1, <2>1, GrantedIs
<1> HIDE DEF M
<1>8. /\ Met(rules, s) = {} <=> M = {}
      /\ Met(rules, s) # {} => First(Met(rules, s)) \in Met(rules, s)
  <2>1. Met(rules, s) = Places(Granting(grants), GrantOrder(grants), M)
    BY <1>5 DEF order, Places
  <2> QED
    BY <1>1, <1>6, <2>1, FirstLaidOut
<1>9. Met(rules, s) # {} => \E i \in DOMAIN grants : Winner(rules, s) = GrantEntry(grants[i])
  <2>1. \A k \in Met(rules, s) : \E i \in DOMAIN grants : rules[k] = GrantEntry(grants[i])
    BY <1>1, <1>3, <1>4, <1>5
  <2> QED
    BY <1>8, <2>1 DEF Winner
<1> QED
  BY <1>4, <1>7, <1>8, <1>9 DEF rules

\* The RADIUS policies.

LEMMA RadiusIsOrdered ==
  ASSUME BookSafe
  PROVE  IsFiniteSet(Enabled(radius)) /\ IsOrder(Enabled(radius), RadiusOrder(radius))
<1>1. /\ radius \in [RadiusPolicies -> {None} \cup RadiusRows]
      /\ \A p, q \in Rows(radius) : p # q => radius[p].born # radius[q].born
  BY DEF BookSafe, IsBook
<1>2. \A q \in Enabled(radius) : q \in Rows(radius) /\ q \in RadiusPolicies
                                 /\ radius[q].priority \in Nat /\ radius[q].born \in Nat
  BY <1>1, RadiusRowsOf DEF Enabled
<1>3. IsFiniteSet(Enabled(radius))
  <2>1. Enabled(radius) \in SUBSET RadiusPolicies
    BY <1>2
  <2> QED
    BY <2>1, BookAssumption, FS_Subset
<1>4. \A x, y \in Enabled(radius) :
        <<x, y>> \in RadiusOrder(radius) <=> RadiusBefore(radius[x], radius[y])
  BY DEF RadiusOrder
<1>5. IsOrder(Enabled(radius), RadiusOrder(radius))
  BY <1>1, <1>2, <1>4 DEF IsOrder, RadiusBefore
<1> QED
  BY <1>3, <1>5

LEMMA CompiledMeans ==
  ASSUME Compiles
  PROVE  /\ \A p \in Enabled(policies) : ScopeIssues(policies[p], "tacacs") = {}
         /\ \A q \in Enabled(radius) : ScopeIssues(radius[q], "radius") = {}
<1> DEFINE P == UNION {ScopeIssues(policies[p], "tacacs") : p \in Enabled(policies)}
           R == UNION {ScopeIssues(radius[q], "radius") : q \in Enabled(radius)}
<1>1. P = {} /\ R = {}
  <2> HIDE DEF P, R
  <2>1. P \cup R \subseteq CompileIssues(policies, sets, radius, grants)
    BY DEF CompileIssues, P, R
  <2> QED
    BY <2>1 DEF Compiles
<1>2. \A p \in Enabled(policies) : ScopeIssues(policies[p], "tacacs") \subseteq P
  OBVIOUS
<1>3. \A q \in Enabled(radius) : ScopeIssues(radius[q], "radius") \subseteq R
  OBVIOUS
<1> HIDE DEF P, R
<1> QED
  BY <1>1, <1>2, <1>3

LEMMA RadiusDecides ==
  ASSUME BookSafe, Compiles, NEW s, NEW r, SameRequest(s, r)
  PROVE  LET rules == RadiusRules(radius)
         IN  /\ Met(rules, s) = {} <=> RadiusMet(r) = {}
             /\ Met(rules, s) # {} =>
                  \E q \in RadiusMet(r) :
                    /\ Winner(rules, s) = RadiusEntry(q, radius[q])
                    /\ \A x \in RadiusMet(r) : x # q => RadiusBefore(radius[q], radius[x])
<1> DEFINE S == Enabled(radius)
           order == InOrder(S, RadiusOrder(radius))
           rules == RadiusRules(radius)
<1>1. IsFiniteSet(S) /\ IsOrder(S, RadiusOrder(radius))
  BY RadiusIsOrdered
<1>2. rules = [k \in DOMAIN order |-> rules[k]]
      /\ \A k \in DOMAIN order : rules[k] = RadiusEntry(order[k], radius[order[k]])
  BY DEF RadiusRules
<1> HIDE DEF rules, S
<1>3. DOMAIN rules = DOMAIN order /\ \A k \in DOMAIN order : order[k] \in S
  BY <1>1, <1>2, ListInOrder
<1> HIDE DEF order
<1>4. ASSUME NEW q \in S, NEW name
      PROVE  LET when == RadiusEntry(name, radius[q]).when
             IN  (when = NoCondition \/ Holds(when, s)) <=> LegacyMatches(radius[q], r)
  <2>1. radius[q] \in RadiusRows
    <3>1. radius \in [RadiusPolicies -> {None} \cup RadiusRows]
      BY DEF BookSafe, IsBook
    <3>2. q \in Rows(radius)
      BY DEF S, Enabled
    <3> QED
      BY <3>1, <3>2, RadiusRowsOf
  <2>2. /\ radius[q].group \in OptionalGroup /\ radius[q].device \in OptionalDevice
        /\ radius[q].dgroup \in OptionalDeviceGroup
    BY <2>1 DEF RadiusRows
  <2>3. ~ HasTree(radius[q], "radius") /\ ScopeIssues(radius[q], "radius") = {}
    <3>1. ~ HasTree(radius[q], "radius")
      BY DEF HasTree
    <3>2. ScopeIssues(radius[q], "radius") = {}
      BY CompiledMeans DEF S
    <3> QED
      BY <3>1, <3>2
  <2>4. RadiusEntry(name, radius[q]).when = RenderScope(radius[q], "radius")
    BY DEF RadiusEntry
  <2> QED
    BY <2>2, <2>3, <2>4, LegacyDecides
<1>5. RadiusMet(r) = {q \in S : LegacyMatches(radius[q], r)} /\ RadiusMet(r) \in SUBSET S
  BY DEF RadiusMet, S
<1>6. Met(rules, s) = {k \in DOMAIN order : order[k] \in RadiusMet(r)}
  <2>1. ASSUME NEW k \in DOMAIN order
        PROVE  (rules[k].when = NoCondition \/ Holds(rules[k].when, s)) <=> order[k] \in RadiusMet(r)
    <3>1. order[k] \in S /\ rules[k] = RadiusEntry(order[k], radius[order[k]])
      BY <1>2, <1>3
    <3> QED
      BY <1>4, <1>5, <3>1
  <2> QED
    BY <1>3, <2>1 DEF Met
<1> DEFINE f == First(Met(rules, s))
<1>7. /\ Met(rules, s) = {} <=> RadiusMet(r) = {}
      /\ Met(rules, s) # {} =>
           /\ f \in Met(rules, s) /\ order[f] \in RadiusMet(r)
           /\ \A x \in RadiusMet(r) : x # order[f] => <<order[f], x>> \in RadiusOrder(radius)
  <2>1. Met(rules, s) = Places(S, RadiusOrder(radius), RadiusMet(r))
    BY <1>6 DEF order, Places
  <2> QED
    BY <1>1, <1>5, <2>1, FirstLaidOut DEF order
<1> HIDE DEF f
<1>8. ASSUME Met(rules, s) # {}
      PROVE  \E q \in RadiusMet(r) :
               /\ Winner(rules, s) = RadiusEntry(q, radius[q])
               /\ \A x \in RadiusMet(r) : x # q => RadiusBefore(radius[q], radius[x])
  <2>1. f \in DOMAIN order /\ Winner(rules, s) = RadiusEntry(order[f], radius[order[f]])
    BY <1>2, <1>6, <1>7, <1>8 DEF Winner, f
  <2>2. \A x \in RadiusMet(r) : x # order[f] => RadiusBefore(radius[order[f]], radius[x])
    BY <1>7, <1>8 DEF RadiusOrder
  <2> QED
    BY <1>7, <1>8, <2>1, <2>2
<1> QED
  BY <1>7, <1>8 DEF rules

LEMMA RadiusListIsSequence ==
  ASSUME BookSafe
  PROVE  LET rules == RadiusRules(radius) IN rules \in Seq({rules[k] : k \in DOMAIN rules})
<1> DEFINE rules == RadiusRules(radius)
           order == InOrder(Enabled(radius), RadiusOrder(radius))
<1>1. rules = [k \in DOMAIN order |-> rules[k]]
  BY DEF RadiusRules
<1> HIDE DEF rules
<1> QED
  BY <1>1, RadiusIsOrdered, ListInOrder DEF rules

\* The TACACS+ policies.

LEMMA PoliciesAreOrdered ==
  ASSUME BookSafe
  PROVE  IsFiniteSet(Enabled(policies)) /\ IsOrder(Enabled(policies), PriorityOrder(policies))
<1>1. policies \in Books /\ PrioritiesDiffer(policies)
  BY DEF BookSafe, IsBook, Books
<1>2. \A p \in Enabled(policies) : p \in Rows(policies) /\ p \in Policies /\ policies[p].priority \in Nat
  BY <1>1, RowsOf DEF Enabled
<1>3. IsFiniteSet(Enabled(policies))
  <2>1. Enabled(policies) \in SUBSET Policies
    BY <1>2
  <2> QED
    BY <2>1, BookAssumption, FS_Subset
<1>4. \A x, y \in Enabled(policies) :
        <<x, y>> \in PriorityOrder(policies) <=> policies[x].priority < policies[y].priority
  BY DEF PriorityOrder
<1>5. \A x, y \in Enabled(policies) : x # y => policies[x].priority # policies[y].priority
  BY <1>1, <1>2 DEF PrioritiesDiffer
<1>6. IsOrder(Enabled(policies), PriorityOrder(policies))
  BY <1>2, <1>4, <1>5 DEF IsOrder
<1> QED
  BY <1>3, <1>6

Matching(r) == {p \in Enabled(policies) : PolicyMatches(policies[p], r)}

LEMMA PoliciesDecide ==
  ASSUME BookSafe, Compiles, NEW s, NEW r, SameRequest(s, r),
         ~ \E t \in EnabledTrees : NegatesAbsence(t, r)
  PROVE  LET rules == PolicyRules(policies, sets)
             p     == Foremost(policies, Matching(r))
         IN  /\ Met(rules, s) = {} <=> Matching(r) = {}
             /\ Met(rules, s) # {} =>
                  p \in Enabled(policies) /\ Winner(rules, s) = PolicyEntry(p, policies[p], sets)
<1> DEFINE S == Enabled(policies)
           order == InOrder(S, PriorityOrder(policies))
           rules == PolicyRules(policies, sets)
<1>1. IsFiniteSet(S) /\ IsOrder(S, PriorityOrder(policies))
  BY PoliciesAreOrdered
<1>2. rules = [k \in DOMAIN order |-> rules[k]]
      /\ \A k \in DOMAIN order : rules[k] = PolicyEntry(order[k], policies[order[k]], sets)
  BY DEF PolicyRules
<1> HIDE DEF rules, S
<1>3. DOMAIN rules = DOMAIN order /\ \A k \in DOMAIN order : order[k] \in S
  BY <1>1, <1>2, ListInOrder
<1> HIDE DEF order
<1>4. ASSUME NEW p \in S, NEW name
      PROVE  LET when == PolicyEntry(name, policies[p], sets).when
             IN  (when = NoCondition \/ Holds(when, s)) <=> PolicyMatches(policies[p], r)
  <2>1. policies[p] \in PolicyRows
    BY RowsOf DEF S, Enabled, BookSafe, IsBook, Books
  <2>2. ScopeIssues(policies[p], "tacacs") = {}
    BY CompiledMeans DEF S
  <2>3. policies[p].tree # None => ~ NegatesAbsence(policies[p].tree, r)
    BY DEF EnabledTrees, S
  <2>4. PolicyEntry(name, policies[p], sets).when = RenderScope(policies[p], "tacacs")
    BY DEF PolicyEntry
  <2> QED
    BY <2>1, <2>2, <2>3, <2>4, PolicyDecides
<1>5. Matching(r) = {p \in S : PolicyMatches(policies[p], r)} /\ Matching(r) \in SUBSET S
  BY DEF Matching, S
<1>6. Met(rules, s) = {k \in DOMAIN order : order[k] \in Matching(r)}
  <2>1. ASSUME NEW k \in DOMAIN order
        PROVE  (rules[k].when = NoCondition \/ Holds(rules[k].when, s)) <=> order[k] \in Matching(r)
    <3>1. order[k] \in S /\ rules[k] = PolicyEntry(order[k], policies[order[k]], sets)
      BY <1>2, <1>3
    <3> QED
      BY <1>4, <1>5, <3>1
  <2> QED
    BY <1>3, <2>1 DEF Met
<1> DEFINE f == First(Met(rules, s))
<1>7. /\ Met(rules, s) = {} <=> Matching(r) = {}
      /\ Met(rules, s) # {} =>
           /\ f \in Met(rules, s) /\ order[f] \in Matching(r)
           /\ \A x \in Matching(r) : x # order[f] => <<order[f], x>> \in PriorityOrder(policies)
  <2>1. Met(rules, s) = Places(S, PriorityOrder(policies), Matching(r))
    BY <1>6 DEF order, Places
  <2> QED
    BY <1>1, <1>5, <2>1, FirstLaidOut DEF order
<1> HIDE DEF f
<1>8. ASSUME Met(rules, s) # {}
      PROVE  LET p == Foremost(policies, Matching(r))
             IN  p \in Enabled(policies) /\ Winner(rules, s) = PolicyEntry(p, policies[p], sets)
  <2> DEFINE p == Foremost(policies, Matching(r))
  <2>1. f \in DOMAIN order /\ Winner(rules, s) = PolicyEntry(order[f], policies[order[f]], sets)
    BY <1>2, <1>6, <1>7, <1>8 DEF Winner, f
  <2>2. \A x \in Matching(r) : x # order[f] => policies[order[f]].priority < policies[x].priority
    BY <1>7, <1>8 DEF PriorityOrder
  <2>3. policies \in Books /\ Matching(r) \in SUBSET Rows(policies)
    BY <1>5 DEF S, Enabled, BookSafe, IsBook, Books
  <2>4. p \in Matching(r) /\ \A q \in Matching(r) : policies[p].priority <= policies[q].priority
    BY <1>7, <1>8, <2>3, ForemostIsFirst
  <2> HIDE DEF p
  <2>5. order[f] \in Matching(r) /\ policies[p].priority \in Nat /\ policies[order[f]].priority \in Nat
    BY <1>7, <1>8, <2>3, <2>4, RowsOf
  <2>6. p = order[f]
    BY <2>2, <2>4, <2>5
  <2> QED
    BY <1>5, <2>1, <2>4, <2>6 DEF p, S
<1> QED
  BY <1>7, <1>8 DEF rules

LEMMA PolicyListIsSequence ==
  ASSUME BookSafe
  PROVE  LET rules == PolicyRules(policies, sets)
         IN  /\ rules \in Seq({rules[k] : k \in DOMAIN rules})
             /\ \A k \in DOMAIN rules : rules[k].kind = "policy"
<1> DEFINE rules == PolicyRules(policies, sets)
           order == InOrder(Enabled(policies), PriorityOrder(policies))
<1>1. rules = [k \in DOMAIN order |-> rules[k]]
  BY DEF PolicyRules
<1>2. \A k \in DOMAIN rules : rules[k].kind = "policy"
  BY DEF PolicyRules, PolicyEntry
<1> HIDE DEF rules
<1> QED
  BY <1>1, <1>2, PoliciesAreOrdered, ListInOrder DEF rules

-----------------------------------------------------------------------------
(* The daemon and the simulator *)

\* The whole ruleset: a grant that matches wins, then a RADIUS policy, then what the engine says.
LEMMA RulesetDecides ==
  ASSUME BookSafe, Compiles, NEW s, NEW r, SameRequest(s, r)
  PROVE  LET rules == Ruleset(policies, sets, radius, grants)
             p     == Foremost(policies, Matching(r))
         IN  /\ Granted(r) =>
                  /\ Met(rules, s) # {}
                  /\ \E i \in DOMAIN grants : Winner(rules, s) = GrantEntry(grants[i])
             /\ ~ Granted(r) /\ RadiusMet(r) # {} =>
                  /\ Met(rules, s) # {}
                  /\ \E q \in RadiusMet(r) :
                       /\ Winner(rules, s) = RadiusEntry(q, radius[q])
                       /\ \A x \in RadiusMet(r) : x # q => RadiusBefore(radius[q], radius[x])
             /\ ~ Granted(r) /\ RadiusMet(r) = {} /\ Met(rules, s) # {} =>
                  Winner(rules, s).kind = "policy"
             /\ ~ Granted(r) /\ RadiusMet(r) = {} /\ ~ (\E t \in EnabledTrees : NegatesAbsence(t, r)) =>
                  /\ Met(rules, s) = {} <=> Matching(r) = {}
                  /\ Met(rules, s) # {} =>
                       p \in Enabled(policies) /\ Winner(rules, s) = PolicyEntry(p, policies[p], sets)
<1> DEFINE A == GrantRules(grants)
           B == RadiusRules(radius)
           C == PolicyRules(policies, sets)
           rules == Ruleset(policies, sets, radius, grants)
           S == {A[k] : k \in DOMAIN A} \cup {B[k] : k \in DOMAIN B} \cup {C[k] : k \in DOMAIN C}
<1>1. rules = <<>> \o A \o B \o C
  BY DEF Ruleset, LockoutRules
<1>2. grants \in Seq(Grants)
  BY DEF BookSafe, IsBook
<1>3. /\ A \in Seq({A[k] : k \in DOMAIN A})
      /\ Met(A, s) = {} <=> ~ Granted(r)
      /\ Met(A, s) # {} => \E i \in DOMAIN grants : Winner(A, s) = GrantEntry(grants[i])
  BY <1>2, GrantsDecide
<1>4. /\ B \in Seq({B[k] : k \in DOMAIN B})
      /\ Met(B, s) = {} <=> RadiusMet(r) = {}
      /\ Met(B, s) # {} =>
           \E q \in RadiusMet(r) :
             /\ Winner(B, s) = RadiusEntry(q, radius[q])
             /\ \A x \in RadiusMet(r) : x # q => RadiusBefore(radius[q], radius[x])
  BY RadiusListIsSequence, RadiusDecides
<1>5. /\ C \in Seq({C[k] : k \in DOMAIN C})
      /\ \A k \in DOMAIN C : C[k].kind = "policy"
  BY PolicyListIsSequence
<1>6. ~ (\E t \in EnabledTrees : NegatesAbsence(t, r)) =>
        LET p == Foremost(policies, Matching(r))
        IN  /\ Met(C, s) = {} <=> Matching(r) = {}
            /\ Met(C, s) # {} =>
                 p \in Enabled(policies) /\ Winner(C, s) = PolicyEntry(p, policies[p], sets)
  BY PoliciesDecide
<1> HIDE DEF A, B, C, rules
<1>7. A \in Seq(S) /\ B \in Seq(S) /\ C \in Seq(S)
  <2> DEFINE As == {A[k] : k \in DOMAIN A}
             Bs == {B[k] : k \in DOMAIN B}
             Cs == {C[k] : k \in DOMAIN C}
  <2>1. A \in Seq(As) /\ B \in Seq(Bs) /\ C \in Seq(Cs)
    BY <1>3, <1>4, <1>5
  <2>2. S = As \cup Bs \cup Cs
    OBVIOUS
  <2> HIDE DEF S, As, Bs, Cs
  <2>3. As \subseteq S /\ Bs \subseteq S /\ Cs \subseteq S
    BY <2>2
  <2> QED
    BY <2>1, <2>3, SeqMonotonic
<1> HIDE DEF S
<1>8. /\ Met(A, s) # {} => Met(rules, s) # {} /\ Winner(rules, s) = Winner(A, s)
      /\ Met(A, s) = {} /\ Met(B, s) # {} => Met(rules, s) # {} /\ Winner(rules, s) = Winner(B, s)
      /\ Met(A, s) = {} /\ Met(B, s) = {} =>
           /\ Met(rules, s) = {} <=> Met(C, s) = {}
           /\ Met(C, s) # {} => Winner(rules, s) = Winner(C, s)
  <2>1. FirstOfThree(<<>> \o A \o B \o C, A, B, C, s)
    BY <1>7, WinnerOfThree
  <2>2. FirstOfThree(rules, A, B, C, s)
    BY <1>1, <2>1
  <2> QED
    BY <2>2 DEF FirstOfThree
<1>9. Met(C, s) # {} => Winner(C, s).kind = "policy"
  <2>1. Met(C, s) # {} => First(Met(C, s)) \in Met(C, s)
    BY <1>7, MetAreRules
  <2>2. Met(C, s) \subseteq DOMAIN C
    BY DEF Met
  <2> QED
    BY <1>5, <2>1, <2>2 DEF Winner
<1>10. Granted(r) => /\ Met(rules, s) # {}
                     /\ \E i \in DOMAIN grants : Winner(rules, s) = GrantEntry(grants[i])
  BY <1>3, <1>8
<1>11. ~ Granted(r) /\ RadiusMet(r) # {} =>
         /\ Met(rules, s) # {}
         /\ \E q \in RadiusMet(r) :
              /\ Winner(rules, s) = RadiusEntry(q, radius[q])
              /\ \A x \in RadiusMet(r) : x # q => RadiusBefore(radius[q], radius[x])
  BY <1>3, <1>4, <1>8
<1>12. ~ Granted(r) /\ RadiusMet(r) = {} => Met(A, s) = {} /\ Met(B, s) = {}
  BY <1>3, <1>4
<1>13. ~ Granted(r) /\ RadiusMet(r) = {} /\ Met(rules, s) # {} => Winner(rules, s).kind = "policy"
  BY <1>8, <1>9, <1>12
<1> QED
  BY <1>6, <1>8, <1>10, <1>11, <1>12, <1>13 DEF rules

\* The session of a locally authenticated user is the request the simulator evaluates.
LEMMA SessionIsRequest ==
  ASSUME NEW n \in DOMAIN LocalUser, NEW d \in DOMAIN Device, NEW a \in Addresses,
         HasBlock(n), LocalUser[n].group \notin External,
         NEW protocol, NEW service, NEW command
  PROVE  SameRequest(Session(n, d, a, protocol, service, command),
                     RequestContext(SimulatedSubject(n), d, a))
<1> DEFINE s == Session(n, d, a, protocol, service, command)
           r == RequestContext(SimulatedSubject(n), d, a)
<1>1. SimulatedSubject(n) = [id |-> n, group |-> LocalUser[n].group]
  BY DEF SimulatedSubject, ResolveUsername, EvaluationSubject
<1>2. d # None /\ a # None
  BY BookAssumption
<1>3. r = [user |-> n, group |-> LocalUser[n].group, device |-> d, dgroup |-> Device[d].group,
           address |-> a]
  BY <1>1, <1>2 DEF RequestContext
<1>4. s = [member |-> {LocalUser[n].group} \ {None}, source |-> "local", device |-> d,
           address |-> a, protocol |-> protocol, service |-> service, command |-> command]
  BY DEF Session
<1> HIDE DEF r, s
<1>5. SameRequest(s, r)
  BY <1>2, <1>3, <1>4 DEF SameRequest
<1> QED
  BY <1>5 DEF r, s

LEMMA DaemonGivesTheWinner ==
  ASSUME NEW rules, NEW s
  PROVE  /\ Met(rules, s) = {} =>
              Daemon(rules, s) = [kind |-> None, name |-> None, priv |-> None, decision |-> "deny"]
         /\ Met(rules, s) # {} =>
              LET entry == Winner(rules, s)
              IN  Daemon(rules, s) = [kind |-> entry.kind, name |-> entry.name, priv |-> entry.priv,
                                      decision |-> ProfileDecision(entry, s)]
BY DEF Daemon, Winner

\* A grant permits every command, and says nothing to RADIUS.
LEMMA GrantPermits ==
  ASSUME NEW g, NEW s
  PROVE  /\ GrantEntry(g).kind = "grant"
         /\ s.protocol = "tacacs" => ProfileDecision(GrantEntry(g), s) = "permit"
         /\ s.protocol = "radius" => ProfileDecision(GrantEntry(g), s) = "deny"
<1>1. /\ GrantEntry(g).kind = "grant" /\ GrantEntry(g).rules = <<>>
      /\ GrantEntry(g).action = "permit"
  BY DEF GrantEntry, OverrideProfile
<1>2. \A c : FirstHit(<<>>, c, "permit") = "permit"
  BY DEF FirstHit
<1>3. s.protocol = "tacacs" => ProfileDecision(GrantEntry(g), s) = "permit"
  BY <1>1, <1>2 DEF ProfileDecision
<1>4. s.protocol = "radius" => ProfileDecision(GrantEntry(g), s) = "deny"
  BY <1>1 DEF ProfileDecision
<1> QED
  BY <1>1, <1>3, <1>4

LEMMA RadiusAnswers ==
  ASSUME NEW name, NEW q, NEW s
  PROVE  LET entry == RadiusEntry(name, q)
         IN  /\ entry.kind = "radius"
             /\ s.protocol = "tacacs" => ProfileDecision(entry, s) = "deny"
             /\ s.protocol = "radius" =>
                  ProfileDecision(entry, s) = IF q.service \in {None, s.service} THEN q.action ELSE "deny"
<1> DEFINE entry == RadiusEntry(name, q)
<1>1. entry.kind = "radius" /\ entry.service = q.service /\ entry.action = q.action
  BY DEF RadiusEntry
<1> HIDE DEF entry
<1>2. ProfileDecision(entry, s) =
        IF s.protocol = "radius" /\ entry.service \in {None, s.service} THEN entry.action ELSE "deny"
  BY <1>1 DEF ProfileDecision
<1>3. s.protocol = "tacacs" => ProfileDecision(entry, s) = "deny"
  BY <1>2
<1>4. s.protocol = "radius" =>
        ProfileDecision(entry, s) = IF q.service \in {None, s.service} THEN q.action ELSE "deny"
  BY <1>1, <1>2
<1> QED
  BY <1>1, <1>3, <1>4 DEF entry

\* A policy of the book that is matched is what the engine answers with.
LEMMA EngineAnswers ==
  ASSUME BookSafe, NEW r, NEW command
  PROVE  LET sim == Evaluate(policies, sets, r, command)
             p   == Foremost(policies, Matching(r))
         IN  /\ Matching(r) = {} => sim = [policy |-> None, priv |-> None, decision |-> "deny"]
             /\ Matching(r) # {} =>
                  sim = [policy |-> p, priv |-> policies[p].priv,
                         decision |-> EvaluateCommand(policies[p], sets, command)]
             /\ sim.policy # None <=> Matching(r) # {}
<1> DEFINE sim == Evaluate(policies, sets, r, command)
           p   == Foremost(policies, Matching(r))
<1>1. /\ Matching(r) = {} => sim = [policy |-> None, priv |-> None, decision |-> "deny"]
      /\ Matching(r) # {} =>
           sim = [policy |-> p, priv |-> policies[p].priv,
                  decision |-> EvaluateCommand(policies[p], sets, command)]
  BY DEF Evaluate, Matching
<1>2. policies \in Books /\ Matching(r) \in SUBSET Rows(policies)
  BY DEF BookSafe, IsBook, Books, Matching, Enabled
<1>3. Matching(r) # {} => p \in Policies
  BY <1>2, ForemostIsFirst, RowsOf
<1> HIDE DEF sim, p
<1>4. sim.policy # None <=> Matching(r) # {}
  <2>1. ASSUME Matching(r) # {} PROVE sim.policy = p /\ p # None
    BY <1>1, <1>3, <2>1, RowsAreSomething
  <2>2. ASSUME Matching(r) = {} PROVE sim.policy = None
    BY <1>1, <2>2
  <2> QED
    BY <2>1, <2>2
<1> QED
  BY <1>1, <1>4 DEF sim, p

LEMMA ShellIsDecided ==
  ASSUME BookSafe, Compiles, NEW n \in DOMAIN LocalUser, NEW d \in DOMAIN Device,
         NEW a \in Addresses, NEW c \in Commands \cup {None},
         HasBlock(n), LocalUser[n].group \notin External
  PROVE  ShellDecidedAsSimulated(Ruleset(policies, sets, radius, grants), n, d, a, c)
<1> DEFINE rules == Ruleset(policies, sets, radius, grants)
           r == RequestContext(SimulatedSubject(n), d, a)
           typed == IF c = None THEN "" ELSE c
           s == Session(n, d, a, "tacacs", None, typed)
           run == Daemon(rules, s)
           sim == Simulate(policies, sets, n, d, a, c)
           p == Foremost(policies, Matching(r))
<1>1. SameRequest(s, r) /\ s.protocol = "tacacs" /\ s.command = typed
  <2>1. SameRequest(s, r)
    BY SessionIsRequest
  <2>2. s.protocol = "tacacs" /\ s.command = typed
    BY DEF Session
  <2> QED
    BY <2>1, <2>2
<1>2. sim = Evaluate(policies, sets, r, c)
  BY DEF Simulate
<1>3. typed = "" <=> c = None
  BY BookAssumption
<1> SUFFICES /\ Granted(r) => run.kind = "grant" /\ run.decision = "permit"
             /\ ~ Granted(r) /\ RadiusMet(r) # {} => run.kind = "radius" /\ run.decision = "deny"
             /\ ~ Granted(r) /\ RadiusMet(r) = {} /\ ~ (\E t \in EnabledTrees : NegatesAbsence(t, r))
                  => /\ run.name = sim.policy /\ run.priv = sim.priv
                     /\ run.decision = IF c = None /\ sim.policy # None THEN "permit"
                                       ELSE sim.decision
  BY DEF ShellDecidedAsSimulated
<1> HIDE DEF rules, r, s, sim
<1>4. /\ Met(rules, s) = {} =>
           run = [kind |-> None, name |-> None, priv |-> None, decision |-> "deny"]
      /\ Met(rules, s) # {} =>
           /\ run.kind = Winner(rules, s).kind /\ run.name = Winner(rules, s).name
           /\ run.priv = Winner(rules, s).priv
           /\ run.decision = ProfileDecision(Winner(rules, s), s)
  BY DaemonGivesTheWinner
<1> HIDE DEF run
<1>5. ASSUME Granted(r) PROVE run.kind = "grant" /\ run.decision = "permit"
  <2>1. Met(rules, s) # {} /\ \E i \in DOMAIN grants : Winner(rules, s) = GrantEntry(grants[i])
    BY <1>1, <1>5, RulesetDecides DEF rules
  <2> QED
    BY <1>1, <1>4, <2>1, GrantPermits
<1>6. ASSUME ~ Granted(r), RadiusMet(r) # {} PROVE run.kind = "radius" /\ run.decision = "deny"
  <2>1. Met(rules, s) # {} /\ \E q \in RadiusMet(r) : Winner(rules, s) = RadiusEntry(q, radius[q])
    BY <1>1, <1>6, RulesetDecides DEF rules
  <2>2. PICK q \in RadiusMet(r) : Winner(rules, s) = RadiusEntry(q, radius[q])
    BY <2>1
  <2> DEFINE entry == RadiusEntry(q, radius[q])
  <2>3. entry.kind = "radius"
    BY DEF RadiusEntry
  <2> HIDE DEF entry
  <2>4. ProfileDecision(entry, s) = "deny"
    BY <1>1, <2>3 DEF ProfileDecision
  <2>5. Winner(rules, s) = entry
    BY <2>2 DEF entry
  <2> QED
    BY <1>4, <2>1, <2>3, <2>4, <2>5
<1>7. ASSUME ~ Granted(r), RadiusMet(r) = {}, ~ (\E t \in EnabledTrees : NegatesAbsence(t, r))
      PROVE  /\ run.name = sim.policy /\ run.priv = sim.priv
             /\ run.decision = IF c = None /\ sim.policy # None THEN "permit" ELSE sim.decision
  <2>1. /\ Met(rules, s) = {} <=> Matching(r) = {}
        /\ Met(rules, s) # {} => Winner(rules, s) = PolicyEntry(p, policies[p], sets)
    BY <1>1, <1>7, RulesetDecides DEF rules
  <2>2. /\ Matching(r) = {} => sim = [policy |-> None, priv |-> None, decision |-> "deny"]
        /\ Matching(r) # {} =>
             sim = [policy |-> p, priv |-> policies[p].priv,
                    decision |-> EvaluateCommand(policies[p], sets, c)]
        /\ sim.policy # None <=> Matching(r) # {}
    BY <1>2, EngineAnswers
  <2> HIDE DEF p
  <2>3. CASE Matching(r) = {}
    BY <1>4, <2>1, <2>2, <2>3
  <2>4. CASE Matching(r) # {}
    <3>1. /\ Winner(rules, s).name = p /\ Winner(rules, s).priv = policies[p].priv
          /\ ProfileDecision(Winner(rules, s), s) =
               IF typed = "" THEN "permit"
               ELSE FirstHit(OrderedRules(policies[p].sets, sets), typed, policies[p].action)
      <4> DEFINE entry == PolicyEntry(p, policies[p], sets)
      <4>1. /\ entry.kind = "policy" /\ entry.name = p /\ entry.priv = policies[p].priv
            /\ entry.rules = OrderedRules(policies[p].sets, sets)
            /\ entry.action = policies[p].action
        BY DEF PolicyEntry
      <4> HIDE DEF entry
      <4>2. ProfileDecision(entry, s) = IF s.command = "" THEN "permit"
                                        ELSE FirstHit(entry.rules, s.command, entry.action)
        BY <1>1, <4>1 DEF ProfileDecision
      <4>3. Winner(rules, s) = entry
        BY <2>1, <2>4 DEF entry
      <4> QED
        BY <1>1, <4>1, <4>2, <4>3
    <3>2. run.name = p /\ run.priv = policies[p].priv
          /\ run.decision = ProfileDecision(Winner(rules, s), s)
      BY <1>4, <2>1, <2>4, <3>1
    <3>3. sim.policy = p /\ sim.priv = policies[p].priv
          /\ sim.decision = EvaluateCommand(policies[p], sets, c) /\ sim.policy # None
      BY <2>2, <2>4
    <3>4. CASE c = None
      BY <1>3, <3>1, <3>2, <3>3, <3>4
    <3>5. CASE c # None
      <4>1. EvaluateCommand(policies[p], sets, c)
              = FirstHit(OrderedRules(policies[p].sets, sets), c, policies[p].action)
        BY <3>5 DEF EvaluateCommand
      <4>2. typed = c /\ typed # ""
        BY <1>3, <3>5
      <4> QED
        BY <3>1, <3>2, <3>3, <3>5, <4>1, <4>2
    <3> QED
      BY <3>4, <3>5
  <2> QED
    BY <2>3, <2>4
<1> QED
  BY <1>5, <1>6, <1>7

LEMMA RadiusIsDecided ==
  ASSUME BookSafe, Compiles, NEW n \in DOMAIN LocalUser, NEW d \in DOMAIN Device,
         NEW a \in Addresses, NEW service \in Services,
         HasBlock(n), LocalUser[n].group \notin External
  PROVE  RadiusDecidedAsDeclared(Ruleset(policies, sets, radius, grants), n, d, a, service)
<1> DEFINE rules == Ruleset(policies, sets, radius, grants)
           r == RequestContext(SimulatedSubject(n), d, a)
           s == Session(n, d, a, "radius", service, "")
           run == Daemon(rules, s)
           met == RadiusMet(r)
           q == CHOOSE q \in met : \A other \in met \ {q} : RadiusBefore(radius[q], radius[other])
<1>1. SameRequest(s, r) /\ s.protocol = "radius" /\ s.service = service
  <2>1. SameRequest(s, r)
    BY SessionIsRequest
  <2>2. s.protocol = "radius" /\ s.service = service
    BY DEF Session
  <2> QED
    BY <2>1, <2>2
<1> SUFFICES run.decision =
               IF Granted(r) \/ met = {} \/ radius[q].service \notin {None, service} THEN "deny"
               ELSE radius[q].action
  BY DEF RadiusDecidedAsDeclared
<1>2. /\ Met(rules, s) = {} => run.decision = "deny"
      /\ Met(rules, s) # {} => run.decision = ProfileDecision(Winner(rules, s), s)
  <2> HIDE DEF rules, s
  <2> QED
    BY DaemonGivesTheWinner
<1> HIDE DEF rules, r, s, run, q
<1>3. CASE Granted(r)
  <2>1. Met(rules, s) # {} /\ \E i \in DOMAIN grants : Winner(rules, s) = GrantEntry(grants[i])
    BY <1>1, <1>3, RulesetDecides DEF rules
  <2>2. run.decision = "deny"
    BY <1>1, <1>2, <2>1, GrantPermits
  <2> QED
    BY <1>3, <2>2
<1>4. CASE ~ Granted(r) /\ met = {}
  <2>1. Met(rules, s) # {} => Winner(rules, s).kind = "policy"
    BY <1>1, <1>4, RulesetDecides DEF rules
  <2>2. Met(rules, s) # {} => ProfileDecision(Winner(rules, s), s) = "deny"
    BY <1>1, <2>1 DEF ProfileDecision
  <2> QED
    BY <1>2, <1>4, <2>2
<1>5. CASE ~ Granted(r) /\ met # {}
  <2>1. Met(rules, s) # {}
    BY <1>1, <1>5, RulesetDecides DEF rules
  <2>2. PICK x \in met : /\ Winner(rules, s) = RadiusEntry(x, radius[x])
                         /\ \A y \in met : y # x => RadiusBefore(radius[x], radius[y])
    BY <1>1, <1>5, RulesetDecides DEF rules
  <2>3. \A y \in met : radius[y].priority \in Nat /\ radius[y].born \in Nat
    <3>1. radius \in [RadiusPolicies -> {None} \cup RadiusRows]
      BY DEF BookSafe, IsBook
    <3>2. \A y \in met : y \in Rows(radius)
      BY DEF RadiusMet, Enabled
    <3> QED
      BY <3>1, <3>2, RadiusRowsOf
  <2>4. q \in met /\ \A other \in met \ {q} : RadiusBefore(radius[q], radius[other])
    <3> HIDE DEF met
    <3> QED
      BY <2>2 DEF q
  <2>5. q = x
    <3>1. q # x => RadiusBefore(radius[q], radius[x]) /\ RadiusBefore(radius[x], radius[q])
      BY <2>2, <2>4
    <3>2. ~ (RadiusBefore(radius[q], radius[x]) /\ RadiusBefore(radius[x], radius[q]))
      BY <2>2, <2>3, <2>4 DEF RadiusBefore
    <3> QED
      BY <3>1, <3>2
  <2>6. run.decision = IF radius[x].service \in {None, service} THEN radius[x].action ELSE "deny"
    BY <1>1, <1>2, <2>1, <2>2, RadiusAnswers
  <2> QED
    BY <1>5, <2>5, <2>6
<1> QED
  BY <1>3, <1>4, <1>5

\* A tree without an address in it does not see where the request comes from.
LEMMA AddressDoesNotMatter ==
  ASSUME NEW subject, NEW d, NEW a, NEW row,
         row.tree # None => ~ ReadsAddress(row.tree)
  PROVE  PolicyMatches(row, RequestContext(subject, d, a))
           <=> PolicyMatches(row, RequestContext(subject, d, None))
<1> DEFINE r == RequestContext(subject, d, a)
           q == RequestContext(subject, d, None)
<1>1. r.user = q.user /\ r.group = q.group /\ r.device = q.device /\ r.dgroup = q.dgroup
  BY DEF RequestContext
<1> HIDE DEF r, q
<1>2. CASE row.tree = None
  <2>1. LegacyMatches(row, r) <=> LegacyMatches(row, q)
    BY <1>1 DEF LegacyMatches
  <2> QED
    BY <1>2, <2>1 DEF PolicyMatches, r, q
<1>3. CASE row.tree # None
  <2> DEFINE tree == row.tree
  <2>1. ASSUME NEW i \in DOMAIN tree, NEW l \in tree[i].leaves
        PROVE  EvaluateCondition(l, r) = EvaluateCondition(l, q)
    <3>1. l.type # "source_ip"
      BY <1>3 DEF ReadsAddress, Leaves
    <3>2. Actual(l.type, r) = Actual(l.type, q)
      BY <1>1, <3>1 DEF Actual
    <3> QED
      BY <3>1, <3>2 DEF EvaluateCondition
  <2>2. \A i \in DOMAIN tree : {EvaluateCondition(l, r) : l \in tree[i].leaves}
                                 = {EvaluateCondition(l, q) : l \in tree[i].leaves}
    BY <2>1
  <2> HIDE DEF tree
  <2>3. \A F : Values(F, tree, r) <=> Values(F, tree, q)
    <3> TAKE F
    <3>1. \A i \in DOMAIN tree :
            GroupResult(tree[i], {EvaluateCondition(l, r) : l \in tree[i].leaves}
                                   \cup {F[j] : j \in Subgroups(tree, i)})
            = GroupResult(tree[i], {EvaluateCondition(l, q) : l \in tree[i].leaves}
                                     \cup {F[j] : j \in Subgroups(tree, i)})
      BY <2>2
    <3> QED
      BY <3>1 DEF Values
  <2>4. EvaluateTree(tree, r) = EvaluateTree(tree, q)
    BY <2>3, TreeIsRecursive
  <2> QED
    BY <1>3, <2>4 DEF PolicyMatches, tree, r, q
<1> QED
  BY <1>2, <1>3

LEMMA PagesAnswer ==
  ASSUME BookSafe, NEW n \in DOMAIN LocalUser, NEW d \in DOMAIN Device, NEW a \in Addresses,
         HasBlock(n), \A t \in EnabledTrees : ~ ReadsAddress(t)
  PROVE  PagesAnswerAsSimulated(n, d, a)
<1> DEFINE subject == SimulatedSubject(n)
           r == RequestContext(subject, d, a)
           q == RequestContext(subject, d, None)
<1>1. subject = EvaluationSubject(ResolveUsername(n))
  BY DEF SimulatedSubject, ResolveUsername
<1> HIDE DEF subject
<1>2. Matching(r) = Matching(q)
  <2>1. \A p \in Enabled(policies) : policies[p].tree # None => ~ ReadsAddress(policies[p].tree)
    BY DEF EnabledTrees
  <2>2. \A p \in Enabled(policies) : PolicyMatches(policies[p], r) <=> PolicyMatches(policies[p], q)
    BY <2>1, AddressDoesNotMatter
  <2> HIDE DEF r, q
  <2> QED
    BY <2>2 DEF Matching
<1> DEFINE seen == Reaches(policies, sets, subject, d)
           told == Simulate(policies, sets, n, d, a, None)
<1>3. seen = Evaluate(policies, sets, q, None) /\ told = Evaluate(policies, sets, r, None)
  BY DEF Reaches, Simulate, subject
<1> HIDE DEF r, q, seen, told
<1>4. /\ seen.policy # None <=> Matching(q) # {}
      /\ told.policy # None <=> Matching(r) # {}
  BY <1>3, EngineAnswers
<1>5. d \in AccessOfUsername(policies, sets, n) <=> seen.policy # None
  BY <1>1 DEF AccessOfUsername, seen
<1>6. n \in UsersOfDevice(policies, sets, d) <=> seen.policy # None
  BY <1>1 DEF UsersOfDevice, HasBlock, seen
<1>7. (d \in AccessOfUsername(policies, sets, n) /\ n \in UsersOfDevice(policies, sets, d))
        <=> told.policy # None
  BY <1>2, <1>4, <1>5, <1>6
<1> QED
  BY <1>7 DEF PagesAnswerAsSimulated, told

\* Where a leaf can be resolved and is no external group, both compilers give it the same term.
LEMMA LeavesCompileAlike ==
  ASSUME NEW l \in Conditions, NEW protocol, LeafIssues(l, protocol) = {},
         l.type = "user_group" => l.ref \notin External
  PROVE  CompileConditionLeaf(l) = LeafExpression(l) /\ ~ IsRefused(l)
<1>1. l.type # "user"
  BY DEF LeafIssues
<1>2. ~ IsRefused(l)
  BY <1>1 DEF LeafIssues, IsRefused
<1>3. CASE l.type = "device"
  BY <1>2, <1>3 DEF CompileConditionLeaf, LeafExpression
<1>4. CASE l.type = "source_ip"
  BY <1>2, <1>4 DEF CompileConditionLeaf, LeafExpression
<1>5. CASE l.type = "user_group"
  BY <1>2, <1>5 DEF CompileConditionLeaf, LeafExpression
<1>6. CASE l.type = "device_group"
  BY <1>2, <1>6 DEF CompileConditionLeaf, LeafExpression
<1> QED
  BY <1>1, <1>3, <1>4, <1>5, <1>6 DEF Conditions

LEMMA HelpersCompileAlike ==
  ASSUME NEW row \in PolicyRows, ScopeIssues(row, "tacacs") = {}
  PROVE  HelpersAgree(row)
<1>1. SUFFICES ASSUME row.group \notin External, row.tree # None => ~ NamesExternal(row.tree)
               PROVE  (IF row.tree # None THEN CompileConditionGroupTree(row.tree)
                       ELSE ConditionExpression(row)) = RenderScope(row, "tacacs")
  BY DEF HelpersAgree
<1>2. CASE row.tree # None
  <2> DEFINE tree == row.tree
             parts(i) == {LeafExpression(l) : l \in tree[i].leaves}
             terms(i) == {CompileConditionLeaf(l) : l \in tree[i].leaves}
  <2>1. tree \in ConditionTrees
    BY <1>2 DEF PolicyRows
  <2>2. \A i \in DOMAIN tree : tree[i] \in ConditionGroups
    <3>1. tree \in Seq(ConditionGroups)
      BY <2>1 DEF ConditionTrees
    <3> QED
      BY <3>1, LenProperties
  <2>3. TreeIssues(tree) = {}
    BY <1>2 DEF ScopeIssues, HasTree
  <2>4. /\ \A i \in DOMAIN tree : tree[i].op \in Operators /\ ~ IsEmptyGroup(tree, i)
        /\ \A l \in Leaves(tree) : LeafIssues(l, "tacacs") = {}
    BY <2>3 DEF TreeIssues
  <2>5. RenderScope(row, "tacacs") = TreeExpression(tree)
    BY <1>2 DEF RenderScope, HasTree
  <2>6. ASSUME NEW i \in DOMAIN tree, NEW l \in tree[i].leaves
        PROVE  CompileConditionLeaf(l) = LeafExpression(l) /\ ~ IsRefused(l)
    <3>1. l \in Conditions /\ l \in Leaves(tree)
      BY <2>2 DEF ConditionGroups, Leaves
    <3>2. l.type = "user_group" => l.ref \notin External
      BY <1>1, <1>2, <3>1 DEF NamesExternal
    <3> QED
      BY <2>4, <3>1, <3>2, LeavesCompileAlike
  <2> HIDE DEF tree
  <2>7. \A i \in DOMAIN tree : terms(i) = parts(i)
    BY <2>6
  <2>8. CompileConditionGroupTree(tree) =
          [i \in DOMAIN tree |-> [op |-> tree[i].op, parent |-> tree[i].parent, parts |-> terms(i)]]
    BY <2>4, <2>6 DEF CompileConditionGroupTree, Operators
  <2>9. TreeExpression(tree) =
          [i \in DOMAIN tree |-> [op |-> tree[i].op, parent |-> tree[i].parent, parts |-> parts(i)]]
    BY DEF TreeExpression
  <2> HIDE DEF terms, parts
  <2>10. CompileConditionGroupTree(tree) = TreeExpression(tree)
    BY <2>7, <2>8, <2>9
  <2> QED
    BY <1>2, <2>5, <2>10 DEF tree
<1>3. CASE row.tree = None
  <2> DEFINE leaves == LegacyLeaves(row)
  <2>1. \A l \in leaves : l \in Conditions /\ LeafIssues(l, "tacacs") = {}
    <3>1. row.group \in OptionalGroup /\ row.device \in OptionalDevice /\ row.dgroup \in OptionalDeviceGroup
      BY DEF PolicyRows
    <3>2. UNION {LeafIssues(l, "tacacs") : l \in leaves} = {}
      BY <1>3 DEF ScopeIssues, HasTree
    <3> HIDE DEF leaves
    <3>3. leaves \subseteq Conditions
      BY <3>1, LegacyLeavesAreConditions DEF leaves
    <3> QED
      BY <3>2, <3>3
  <2>2. \A l \in leaves : l.type = "user_group" => l.ref \notin External
    BY <1>1 DEF LegacyLeaves, Leaf
  <2> HIDE DEF leaves
  <2>3. \A l \in leaves : CompileConditionLeaf(l) = LeafExpression(l) /\ ~ IsRefused(l)
    BY <2>1, <2>2, LeavesCompileAlike
  <2>4. {CompileConditionLeaf(l) : l \in leaves} = {LeafExpression(l) : l \in leaves}
    BY <2>3
  <2>5. ConditionExpression(row) =
          IF leaves = {} THEN NoCondition ELSE AllOf({CompileConditionLeaf(l) : l \in leaves})
    BY <2>3 DEF ConditionExpression, leaves
  <2>6. RenderScope(row, "tacacs") =
          IF leaves = {} THEN NoCondition ELSE AllOf({LeafExpression(l) : l \in leaves})
    BY <1>3 DEF RenderScope, HasTree, leaves
  <2> QED
    BY <1>3, <2>4, <2>5, <2>6
<1> QED
  BY <1>2, <1>3

LEMMA SafeBooksCompile == ASSUME BookSafe PROVE CompiledDecidesAsSimulated
<1> SUFFICES ASSUME Compiles
             PROVE  LET rules == Ruleset(policies, sets, radius, grants)
                    IN  /\ \A n \in DOMAIN LocalUser, d \in DOMAIN Device :
                             HasBlock(n) /\ LocalUser[n].group \notin External
                               /\ Declared(n, d, "tacacs") =>
                               \A a \in Addresses :
                                 /\ \A c \in Commands \cup {None} :
                                      ShellDecidedAsSimulated(rules, n, d, a, c)
                                 /\ Declared(n, d, "radius") =>
                                      \A s \in Services : RadiusDecidedAsDeclared(rules, n, d, a, s)
                                 /\ (\A t \in EnabledTrees : ~ ReadsAddress(t)) =>
                                      PagesAnswerAsSimulated(n, d, a)
                        /\ \A p \in Enabled(policies) : HelpersAgree(policies[p])
  BY DEF CompiledDecidesAsSimulated
<1> DEFINE rules == Ruleset(policies, sets, radius, grants)
<1>1. ASSUME NEW n \in DOMAIN LocalUser, NEW d \in DOMAIN Device,
             HasBlock(n), LocalUser[n].group \notin External, NEW a \in Addresses
      PROVE  /\ \A c \in Commands \cup {None} : ShellDecidedAsSimulated(rules, n, d, a, c)
             /\ \A s \in Services : RadiusDecidedAsDeclared(rules, n, d, a, s)
             /\ (\A t \in EnabledTrees : ~ ReadsAddress(t)) => PagesAnswerAsSimulated(n, d, a)
  <2>1. \A c \in Commands \cup {None} : ShellDecidedAsSimulated(rules, n, d, a, c)
    BY <1>1, ShellIsDecided
  <2>2. \A s \in Services : RadiusDecidedAsDeclared(rules, n, d, a, s)
    BY <1>1, RadiusIsDecided
  <2>3. (\A t \in EnabledTrees : ~ ReadsAddress(t)) => PagesAnswerAsSimulated(n, d, a)
    BY <1>1, PagesAnswer
  <2> QED
    BY <2>1, <2>2, <2>3
<1>2. ASSUME NEW p \in Enabled(policies) PROVE HelpersAgree(policies[p])
  <2>1. policies[p] \in PolicyRows
    BY RowsOf DEF Enabled, BookSafe, IsBook, Books
  <2>2. ScopeIssues(policies[p], "tacacs") = {}
    BY CompiledMeans
  <2> QED
    BY <2>1, <2>2, HelpersCompileAlike
<1> HIDE DEF rules
<1>3. /\ \A n \in DOMAIN LocalUser, d \in DOMAIN Device :
           HasBlock(n) /\ LocalUser[n].group \notin External /\ Declared(n, d, "tacacs") =>
             \A a \in Addresses :
               /\ \A c \in Commands \cup {None} : ShellDecidedAsSimulated(rules, n, d, a, c)
               /\ Declared(n, d, "radius") =>
                    \A s \in Services : RadiusDecidedAsDeclared(rules, n, d, a, s)
               /\ (\A t \in EnabledTrees : ~ ReadsAddress(t)) => PagesAnswerAsSimulated(n, d, a)
      /\ \A p \in Enabled(policies) : HelpersAgree(policies[p])
  BY <1>1, <1>2
<1> QED
  BY <1>3 DEF rules

\* However the book was edited, if it compiles then the rules the daemon walks decide every
\* request of a locally authenticated user as the simulator says, but for the exceptions that
\* the property states: grants, RADIUS policies, negated absences and external memberships.
THEOREM CompiledBooksDecideAsSimulated == SpecBook => []CompiledDecidesAsSimulated
BY BookIsSafe, SafeBooksCompile, PTL
=============================================================================
