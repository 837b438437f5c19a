------------------------------- MODULE MCFleet -------------------------------
(***************************************************************************)
(* The inventory and what refers to it: two devices, one of them alone in  *)
(* a group that a policy names; a free host that two networks cover.       *)
(* With it, as topics of their own, three parts it never meets: the        *)
(* administrators' accounts, the pages over the daemon's logs and the      *)
(* watch for unknown clients; and the audit schedule of an empty           *)
(* inventory, with more edits.  One behaviour moves one topic.             *)
(***************************************************************************)
EXTENDS Fleet, Accounts, AccountingLog, ClientWatch, TLC

VARIABLE topic

CONSTANTS o1, m1, y1, d1, d2, d3, d4, h1, h2, h3, h4, n1, n2, n3, n4, s1, s2, g1, g2, p1, p2

Single(h) == [ip |-> h, net |-> {h}]
Wide == [ip |-> h3, net |-> {h3, h4}]

MCAddresses == {Single(h) : h \in {h1, h2, h3, h4}} \cup {Wide}
MCHostname  == [h \in {h1, h2, h3, h4} |-> n3]
MCRenamed   == [h \in {h1, h2, h3, h4} |-> n4]
MCScans ==
  {[hosts |-> <<h3>>, group |-> g1, secret |-> None], [hosts |-> <<h3, h4>>, group |-> None, secret |-> s2]}
MCTypedRows ==
  {[name |-> n3, addr |-> Wide, group |-> None, enabled |-> TRUE, secret |-> s2],
   [name |-> n1, addr |-> Single(h3), group |-> g1, enabled |-> TRUE, secret |-> s1],
   [name |-> n4, addr |-> Single(h4), group |-> None, enabled |-> TRUE, secret |-> s1],
   [name |-> n1, addr |-> Single(h1), group |-> None, enabled |-> FALSE, secret |-> None]}
MCInitialDevice ==
  (d1 :> [name |-> n1, addr |-> Single(h1), group |-> g1, enabled |-> TRUE, secret |-> s1])
  @@ (d2 :> [name |-> n2, addr |-> Single(h2), group |-> None, enabled |-> TRUE, secret |-> s1])
MCInitialPolicy == p1 :> [ref |-> <<"group", g1>>, enabled |-> TRUE]
MixTable == {<<0,0,0,0>>, <<0,0,2,0>>, <<0,0,1,1>>, <<0,1,0,1>>, <<1,0,0,1>>, <<1,0,1,0>>, <<2,0,0,0>>, <<0,0,0,2>>}
MixesOf(table) ==
  {[tasks |-> m[1], jobs |-> m[2], audits |-> m[3], edits |-> m[4]] : m \in table}
MCMixes == MixesOf(MixTable)

-----------------------------------------------------------------------------
MCAllowLists == {{}, {o1}}

\* The inventory's topic needs room to move; the others leave it at one initial state.
NoMix   == [tasks |-> 0, jobs |-> 0, audits |-> 0, edits |-> 0]
AtRest  == Init /\ mix = NoMix /\ licence = "none" /\ settings.zoned /\ settings.configured
\* Two audits of no device and three edits, all of the schedule or of its credentials, or deaths:
\* room to move the daily time and back.
Slots   == [tasks |-> 0, jobs |-> 0, audits |-> 2, edits |-> 3]
NoFleet == /\ device = <<>> /\ retired = {} /\ groups = {} /\ licence = "none" /\ policy = <<>>
           /\ equipment = [h \in Hosts |-> None] /\ gate = None /\ touched = {} /\ drift = Hosts
           /\ at = [t \in Tasks |-> "idle"] /\ work = [t \in Tasks |-> NoWork]
           /\ review = NoReview /\ deletion = NoDeletion /\ edits = 0
InitSlots == NoFleet /\ InitJobs /\ InitAudits /\ mix = Slots
OfSchedule == UNCHANGED <<inventory, policy, review, deletion>>
NoPeople == /\ account = m1 :> [name |-> y1, active |-> TRUE, super |-> TRUE, trusted |-> {}, role |-> None]
            /\ role = <<>> /\ session = {} /\ own = None /\ accountEdits = 0
NoPages == /\ access = <<>> /\ auth = <<>> /\ accounting = <<>> /\ live = [l \in Lines |-> None] /\ silent = {}
           /\ clock = 0 /\ events = 0
NoWatch == /\ inventoried = Clients /\ written = [l \in Logs |-> <<>>] /\ seen = <<>> /\ published = <<>>
           /\ last = None /\ moves = 0

InitTopic ==
  \/ topic = "fleet" /\ Init /\ mix # NoMix /\ NoPeople /\ NoPages /\ NoWatch
  \/ topic = "slots" /\ InitSlots /\ NoPeople /\ NoPages /\ NoWatch
  \/ topic = "accounts" /\ AtRest /\ InitAccounts /\ NoPages /\ NoWatch
  \/ topic = "pages" /\ AtRest /\ NoPeople /\ InitLogs /\ NoWatch
  \/ topic = "clients" /\ AtRest /\ NoPeople /\ NoPages /\ InitWatch

\* Of refused logins, lines of another shape and decisions other than the plain permit, two.
Sparse ==
  LET odd(log) == Cardinality({i \in DOMAIN log : ~log[i].parsed})
  IN  odd(auth') + odd(accounting')
        + Cardinality({i \in DOMAIN access' : access'[i].result = "failed"})
        + Cardinality({i \in DOMAIN auth' : auth'[i].parsed /\ auth'[i].result # "permit"}) <= 2

\* The fleet reaches its second day; what comes after is the slots' topic.
Noon == now' <= 2

NextTopic ==
  /\ UNCHANGED topic
  /\ \/ topic = "fleet" /\ Next /\ Noon /\ UNCHANGED <<accountVars, logVars, watchVars>>
     \/ topic = "slots" /\ Next /\ OfSchedule /\ UNCHANGED <<accountVars, logVars, watchVars>>
     \/ topic = "accounts" /\ NextAccounts /\ UNCHANGED <<vars, logVars, watchVars>>
     \/ topic = "pages" /\ NextLogs /\ Sparse /\ UNCHANGED <<vars, accountVars, watchVars>>
     \/ topic = "clients" /\ NextWatch /\ UNCHANGED <<vars, accountVars, logVars>>
SpecTopics == InitTopic /\ [][NextTopic]_<<vars, topic, accountVars, logVars, watchVars>>

\* The topics share their model values, so that one small group of permutations serves all.
Symmetry == Permutations({d3, d4}) \cup Permutations(Tasks) \cup Permutations(Audits)
=============================================================================
