------------------------- MODULE ConfigApply_proofs -------------------------
(***************************************************************************)
(* The history of applied configurations, what an installation shows of    *)
(* its configuration, and what a request that was not disturbed answers,   *)
(* for any number of requests, edits, failures of the daemon and deaths.   *)
(***************************************************************************)
EXTENDS ConfigApply, TLAPS

-----------------------------------------------------------------------------
(* The invariant *)

\* The numbers in use are those from one to some number.
Dense == \E k \in Nat : DOMAIN version = 1 .. k

\* A request under way has a text, and a number whose predecessors are all taken.
LocalsAreSet ==
  \A r \in InFlight :
    /\ request[r].text \in Contents
    /\ request[r].previous \in Texts
    /\ request[r].number \in Nat \ {0}
    /\ 1 .. (request[r].number - 1) \subseteq DOMAIN version

Safe == TypeOK /\ Dense /\ LocalsAreSet

\* The next number is one more than the count of versions.
LEMMA NextNumber ==
  ASSUME NEW k \in Nat, DOMAIN version = 1 .. k
  PROVE  NextVersionNumber = k + 1
<1>1. CASE k = 0
  <2>1. DOMAIN version = {}
    BY <1>1
  <2> QED
    BY <1>1, <2>1 DEF NextVersionNumber
<1>2. CASE k # 0
  <2>1. k \in DOMAIN version /\ \A m \in DOMAIN version : m <= k
    BY <1>2
  <2> DEFINE IsMax(n) == n \in DOMAIN version /\ \A m \in DOMAIN version : m <= n
  <2>2. \A n : IsMax(n) => n = k
    BY <2>1
  <2>3. (CHOOSE n \in DOMAIN version : \A m \in DOMAIN version : m <= n) = k
    BY <2>1, <2>2
  <2>4. DOMAIN version # {}
    BY <2>1
  <2>5. NextVersionNumber = 1 + k
    BY <2>3, <2>4 DEF NextVersionNumber
  <2> QED
    BY <2>5
<1> QED
  BY <1>1, <1>2

\* A step after which every request under way was under way before, with the
\* same text, predecessor and number, and no version has gone.
LEMMA LocalsStay ==
  ASSUME LocalsAreSet, DOMAIN version \subseteq DOMAIN version',
         \A r \in InFlight' : /\ r \in InFlight
                              /\ request'[r].text = request[r].text
                              /\ request'[r].previous = request[r].previous
                              /\ request'[r].number = request[r].number
  PROVE  LocalsAreSet'
BY DEF LocalsAreSet

\* Moving on inside a request, and ending it.
LEMMA Moves ==
  ASSUME TypeOK, NEW r \in Requests
  PROVE  /\ \A place \in Places \ (Ended \cup {"idle"}) :
              r \in InFlight /\ Goto(r, place) => InFlight' = InFlight
         /\ \A place \in Places : Goto(r, place) => pc' \in [Requests -> Places]
         /\ \A outcome \in Ended : End(r, outcome) =>
              /\ pc' \in [Requests -> Places]
              /\ request' \in [Requests -> Locals]
              /\ InFlight' = InFlight \ {r}
              /\ \A s \in InFlight' : request'[s] = request[s]
<1>1. pc \in [Requests -> Places] /\ request \in [Requests -> Locals]
  BY DEF TypeOK
<1>2. NoLocals \in Locals
  BY DEF NoLocals, Locals
<1>3. ASSUME NEW place \in Places \ (Ended \cup {"idle"}), r \in InFlight, Goto(r, place)
      PROVE  InFlight' = InFlight
  BY <1>1, <1>3 DEF InFlight, Goto
<1>4. ASSUME NEW place \in Places, Goto(r, place)
      PROVE  pc' \in [Requests -> Places]
  BY <1>1, <1>4 DEF Goto
<1>5. ASSUME NEW outcome \in Ended, End(r, outcome)
      PROVE  /\ pc' \in [Requests -> Places]
             /\ request' \in [Requests -> Locals]
             /\ InFlight' = InFlight \ {r}
             /\ \A s \in InFlight' : request'[s] = request[s]
  <2>1. outcome \in Places
    BY DEF Places
  <2>2. pc' = [pc EXCEPT ![r] = outcome] /\ request' = [request EXCEPT ![r] = NoLocals]
    BY <1>5 DEF End, Goto
  <2>3. InFlight' = InFlight \ {r}
    BY <1>1, <2>2 DEF InFlight, Ended
  <2> QED
    BY <1>1, <1>2, <2>1, <2>2, <2>3
<1> QED
  BY <1>3, <1>4, <1>5

\* What the daemon has loaded is a text it was given.
LEMMA LoadedType == ASSUME TypeOK PROVE Loaded \in Contents \cup {None}
BY ApplyAssumption DEF TypeOK, Loaded

\* What a file is read as.
LEMMA ActiveTextType == ASSUME TypeOK PROVE ActiveText \in Texts
BY ApplyAssumption DEF TypeOK, ActiveText, Texts

\* Rows of the baseline.
LEMMA BaselineRows ==
  /\ NoRow.recorded = None
  /\ \A text \in Contents \cup {None} :
       Trusted(text) \in [recorded : Contents \cup {None},
                          status : {"none", "unknown", "ok", "missing", "modified"}]
  /\ NewRow \in [recorded : Contents \cup {None},
                 status : {"none", "unknown", "ok", "missing", "modified"}]
BY DEF NoRow, NewRow, Trusted

-----------------------------------------------------------------------------
(* The steps *)

LEMMA SafeInit == Init => Safe
<1> SUFFICES ASSUME Init PROVE Safe
  OBVIOUS
<1>1. TypeOK
  BY ApplyAssumption
  DEF Init, TypeOK, NoRow, NoLocals, Locals, Texts, Places, Ended
<1>2. Dense
  <2>1. DOMAIN version = 1 .. 0
    BY DEF Init
  <2> QED
    BY <2>1 DEF Dense
<1>3. LocalsAreSet
  BY DEF Init, LocalsAreSet, InFlight
<1> QED
  BY <1>1, <1>2, <1>3 DEF Safe

\* A request begins.
LEMMA SafeBegin ==
  ASSUME Safe, NEW r \in Requests, NEW text \in Contents, Begin(r, text)
  PROVE  Safe'
<1>1. PICK k \in Nat : DOMAIN version = 1 .. k
  BY DEF Safe, Dense
<1>2. NextVersionNumber = k + 1
  BY <1>1, NextNumber
<1> DEFINE l == [text |-> text, previous |-> ActiveText, number |-> NextVersionNumber,
                 held |-> FALSE, broken |-> FALSE]
<1>3. /\ l \in Locals
      /\ l.text = text /\ l.previous \in Texts /\ l.number = k + 1
  <2>1. l = [text |-> text, previous |-> ActiveText, number |-> k + 1,
             held |-> FALSE, broken |-> FALSE]
    BY <1>2
  <2>2. ActiveText \in Texts
    BY ActiveTextType DEF Safe
  <2> HIDE DEF l
  <2> QED
    BY <2>1, <2>2 DEF Locals
<1>4. /\ request' = [request EXCEPT ![r] = l]
      /\ pc' = [pc EXCEPT ![r] = "check"]
      /\ UNCHANGED store /\ gate' = r
  BY DEF Begin, Goto
<1>5. pc \in [Requests -> Places] /\ request \in [Requests -> Locals]
  BY DEF Safe, TypeOK
<1>6. /\ alone' \in [Requests -> BOOLEAN] /\ calm' \in BOOLEAN
  <2>1. alone \in [Requests -> BOOLEAN] /\ calm \in BOOLEAN
    BY DEF Safe, TypeOK
  <2>2. CASE UNCHANGED <<alone, calm>>
    BY <2>1, <2>2
  <2>3. CASE /\ alone' = [s \in Requests |-> alone[s] /\ s \notin InFlight \cup {r}]
             /\ calm' = FALSE
    BY <2>3
  <2> QED
    BY <2>2, <2>3 DEF Begin
<1>7. TypeOK'
  <2>1. pc' \in [Requests -> Places]
    BY <1>4, <1>5 DEF Places
  <2>2. request' \in [Requests -> Locals]
    BY <1>3, <1>4, <1>5
  <2> QED
    BY <1>4, <1>6, <2>1, <2>2 DEF Safe, TypeOK, store
<1>8. LocalsAreSet'
  <2> SUFFICES ASSUME NEW s \in InFlight'
               PROVE  /\ request'[s].text \in Contents
                      /\ request'[s].previous \in Texts
                      /\ request'[s].number \in Nat \ {0}
                      /\ 1 .. (request'[s].number - 1) \subseteq DOMAIN version'
    BY DEF LocalsAreSet
  <2>1. version' = version
    BY <1>4 DEF store
  <2>2. CASE s = r
    BY <1>1, <1>3, <1>4, <1>5, <2>1, <2>2
  <2>3. CASE s # r
    <3>1. s \in InFlight /\ request'[s] = request[s]
      BY <1>4, <1>5, <2>3 DEF InFlight
    <3> QED
      BY <2>1, <3>1 DEF Safe, LocalsAreSet
  <2> QED
    BY <2>2, <2>3
<1> QED
  BY <1>4, <1>7, <1>8 DEF Safe, Dense, store

\* Steps that only move a request on, or end it.
LEMMA SafeMove ==
  ASSUME Safe, NEW r \in Requests, r \in InFlight,
         \/ \E place \in Places \ (Ended \cup {"idle"}) :
              /\ Goto(r, place)
              /\ \/ UNCHANGED request
                 \/ request' = [request EXCEPT ![r].held = TRUE]
                 \/ request' = [request EXCEPT ![r].held = FALSE]
                 \/ request' = [request EXCEPT ![r].broken = TRUE]
         \/ \E outcome \in Ended : End(r, outcome),
         DOMAIN version \subseteq DOMAIN version'
  PROVE  /\ pc' \in [Requests -> Places]
         /\ request' \in [Requests -> Locals]
         /\ LocalsAreSet'
<1> USE DEF Safe
<1>1. request \in [Requests -> Locals]
  BY DEF TypeOK
<1>2. CASE \E place \in Places \ (Ended \cup {"idle"}) :
              /\ Goto(r, place)
              /\ \/ UNCHANGED request
                 \/ request' = [request EXCEPT ![r].held = TRUE]
                 \/ request' = [request EXCEPT ![r].held = FALSE]
                 \/ request' = [request EXCEPT ![r].broken = TRUE]
  <2>1. InFlight' = InFlight /\ pc' \in [Requests -> Places]
    BY <1>2, Moves
  <2>2. request' \in [Requests -> Locals]
    <3>1. /\ [request[r] EXCEPT !.held = TRUE] \in Locals
          /\ [request[r] EXCEPT !.held = FALSE] \in Locals
          /\ [request[r] EXCEPT !.broken = TRUE] \in Locals
      BY <1>1 DEF Locals
    <3> QED
      BY <1>1, <1>2, <3>1
  <2>3. \A s \in InFlight : /\ request'[s].text = request[s].text
                            /\ request'[s].previous = request[s].previous
                            /\ request'[s].number = request[s].number
    BY <1>1, <1>2 DEF InFlight, Locals
  <2> QED
    BY <2>1, <2>2, <2>3, LocalsStay
<1>3. CASE \E outcome \in Ended : End(r, outcome)
  <2>1. /\ pc' \in [Requests -> Places]
        /\ request' \in [Requests -> Locals]
        /\ InFlight' = InFlight \ {r}
        /\ \A s \in InFlight' : request'[s] = request[s]
    BY <1>3, Moves
  <2> QED
    BY <2>1, LocalsStay
<1> QED
  BY <1>2, <1>3

\* One step of a request under way.
LEMMA SafeWork ==
  ASSUME Safe, NEW r \in Requests, Work(r)
  PROVE  Safe'
<1> USE DEF Safe
<1>0. TypeOK
  OBVIOUS
<1>1. r \in InFlight
  BY DEF Work, Validate, BackUp, WriteConfigFile, CreateBaselineRow, RecordApplied,
         RecordTimesOut, Reload, Restart, CheckHealth, CommitVersion, CommitFails,
         UndoBegin, UndoFile, UndoReload, UndoRestart, SystemctlTimesOut, InFlight, Ended
<1>2. /\ request[r].text \in Contents /\ request[r].previous \in Texts
      /\ request[r].number \in Nat \ {0}
      /\ 1 .. (request[r].number - 1) \subseteq DOMAIN version
  BY <1>1 DEF LocalsAreSet
<1> DEFINE Moved == /\ pc' \in [Requests -> Places]
                    /\ request' \in [Requests -> Locals]
                    /\ LocalsAreSet'
<1>3. CASE UNCHANGED version
  <2>1. Moved
    <3>1. DOMAIN version \subseteq DOMAIN version'
      BY <1>3
    <3>2. \/ \E place \in Places \ (Ended \cup {"idle"}) :
               /\ Goto(r, place)
               /\ \/ UNCHANGED request
                  \/ request' = [request EXCEPT ![r].held = TRUE]
                  \/ request' = [request EXCEPT ![r].held = FALSE]
                  \/ request' = [request EXCEPT ![r].broken = TRUE]
          \/ \E outcome \in Ended : End(r, outcome)
          \/ CreateBaselineRow(r)
      <4> DEFINE Inside == Places \ (Ended \cup {"idle"})
      <4>1. /\ {"write", "fill", "record", "reload", "restart", "health", "commit", "undo",
                "undo fill", "undo reload", "undo restart"} \subseteq Inside
            /\ {"applied", "rejected", "failed", "raised"} \subseteq Ended
        BY DEF Places, Ended
      <4>2. CASE Validate(r)
        BY <4>1, <4>2 DEF Validate
      <4>3. CASE BackUp(r) \/ WriteConfigFile(r) \/ RecordApplied(r) \/ RecordTimesOut(r)
        BY <4>1, <4>3 DEF BackUp, WriteConfigFile, RecordApplied, RecordTimesOut
      <4>4. CASE Reload(r) \/ Restart(r) \/ UndoBegin(r) \/ UndoFile(r)
        BY <4>1, <4>4 DEF Reload, Restart, UndoBegin, UndoFile
      <4>5. CASE CheckHealth(r)
        <5>1. Goto(r, "undo") \/ Goto(r, "commit")
          BY <4>5 DEF CheckHealth
        <5> QED
          BY <4>1, <4>5, <5>1 DEF CheckHealth
      <4>6. CASE UndoReload(r)
        BY <4>1, <4>6 DEF UndoReload
      <4>7. CASE CommitVersion(r) \/ CommitFails(r) \/ UndoRestart(r) \/ SystemctlTimesOut(r)
        BY <4>1, <4>7 DEF CommitVersion, CommitFails, UndoRestart, SystemctlTimesOut
      <4> QED
        BY <4>2, <4>3, <4>4, <4>5, <4>6, <4>7 DEF Work
    <3>3. CASE CreateBaselineRow(r)
      <4>1. pc' = pc /\ pc \in [Requests -> Places]
        BY <3>3 DEF CreateBaselineRow, TypeOK
      <4>2. pc[r] \in Places \ (Ended \cup {"idle"})
        BY <4>1, <1>1 DEF InFlight
      <4>3. Goto(r, pc[r])
        BY <4>1 DEF Goto
      <4>4. request' = [request EXCEPT ![r].held = FALSE]
        BY <3>3 DEF CreateBaselineRow
      <4> QED
        BY <1>1, <3>1, <4>2, <4>3, <4>4, SafeMove
    <3> QED
      BY <1>1, <3>1, <3>2, <3>3, SafeMove
  <2>2. file' \in Texts \cup {None} /\ running' \in Contents \cup {None}
    BY <1>2, LoadedType
    DEF Work, Validate, BackUp, WriteConfigFile, CreateBaselineRow, RecordApplied,
         RecordTimesOut, Reload, Restart, CheckHealth, CommitVersion, CommitFails,
         UndoBegin, UndoFile, UndoReload, UndoRestart, SystemctlTimesOut, TypeOK, Texts,
         store
  <2>3. DOMAIN backup' \subseteq Nat
    <3>1. request[r].number - 1 \in Nat
      BY <1>2
    <3>2. DOMAIN backup' \subseteq DOMAIN backup \cup {request[r].number - 1}
      <4>1. CASE BackUp(r)
        BY <4>1 DEF BackUp
      <4>2. CASE backup' = backup
        BY <4>2
      <4>3. BackUp(r) \/ backup' = backup
        BY DEF Work, Validate, WriteConfigFile, CreateBaselineRow, RecordApplied,
           RecordTimesOut, Reload, Restart, CheckHealth, CommitVersion, CommitFails,
           UndoBegin, UndoFile, UndoReload, UndoRestart, SystemctlTimesOut, store
      <4> QED
        BY <4>1, <4>2, <4>3
    <3> QED
      BY <3>1, <3>2 DEF TypeOK
  <2>4. baseline' \in [recorded : Contents \cup {None},
                       status : {"none", "unknown", "ok", "missing", "modified"}]
    <3>1. baseline' \in {baseline, NewRow, Trusted(request[r].text)}
      BY DEF Work, Validate, BackUp, WriteConfigFile, CreateBaselineRow, RecordApplied,
         RecordTimesOut, Reload, Restart, CheckHealth, CommitVersion, CommitFails,
         UndoBegin, UndoFile, UndoReload, UndoRestart, SystemctlTimesOut, store
    <3> QED
      BY <3>1, <1>2, BaselineRows DEF TypeOK
  <2>5. gate' \in Requests \cup {None} /\ alone' \in [Requests -> BOOLEAN] /\ calm' \in BOOLEAN
    BY DEF Work, Validate, BackUp, WriteConfigFile, CreateBaselineRow, RecordApplied,
         RecordTimesOut, Reload, Restart, CheckHealth, CommitVersion, CommitFails,
         UndoBegin, UndoFile, UndoReload, UndoRestart, SystemctlTimesOut, TypeOK,
         DropGate, history
  <2>6. TypeOK'
    BY <1>3, <2>1, <2>2, <2>3, <2>4, <2>5 DEF TypeOK
  <2> QED
    BY <1>3, <2>1, <2>6 DEF Dense
<1>4. CASE CommitVersion(r)
  <2>1. PICK k \in Nat : DOMAIN version = 1 .. k
    BY DEF Dense
  <2> DEFINE n == request[r].number
  <2>2. n \in Nat \ {0} /\ n \notin 1 .. k /\ 1 .. (n - 1) \subseteq 1 .. k
    BY <1>2, <1>4, <2>1 DEF CommitVersion
  <2>3. n = k + 1
    <3>1. n > k
      BY <2>2
    <3>2. n - 1 <= k
      <4>1. CASE n = 1
        BY <4>1
      <4>2. CASE n # 1
        <5>1. n - 1 \in 1 .. (n - 1)
          BY <2>2, <4>2
        <5> QED
          BY <5>1, <2>2
      <4> QED
        BY <4>1, <4>2
    <3> QED
      BY <2>2, <3>1, <3>2
  <2>4. /\ DOMAIN version' = 1 .. (k + 1)
        /\ version' = [m \in DOMAIN version' |-> version'[m]]
        /\ \A m \in DOMAIN version' : version'[m] \in Contents
    <3>1. version' = [m \in DOMAIN version \cup {n} |->
                        IF m = n THEN request[r].text ELSE version[m]]
      BY <1>4 DEF CommitVersion
    <3>2. DOMAIN version \cup {n} = 1 .. (k + 1)
      BY <2>1, <2>3
    <3> HIDE DEF n
    <3> QED
      BY <1>2, <2>1, <3>1, <3>2 DEF TypeOK
  <2>5. End(r, "applied") /\ "applied" \in Ended
    BY <1>4 DEF CommitVersion, Ended
  <2>6. DOMAIN version \subseteq DOMAIN version'
    BY <2>1, <2>4
  <2>7. Moved
    BY <1>1, <2>5, <2>6, SafeMove
  <2>8. TypeOK'
    <3>1. UNCHANGED <<file, running, backup, baseline, gate, alone>> /\ calm' = (calm \/ alone[r])
      BY <1>4 DEF CommitVersion
    <3>2. calm' \in BOOLEAN
      BY <3>1 DEF TypeOK
    <3>3. DOMAIN version' \subseteq Nat \ {0}
      BY <2>4
    <3> QED
      BY <2>4, <2>7, <3>1, <3>2, <3>3 DEF TypeOK
  <2> QED
    BY <2>1, <2>4, <2>7, <2>8 DEF Dense
<1>5. UNCHANGED version \/ CommitVersion(r)
  BY DEF Work, Validate, BackUp, WriteConfigFile, CreateBaselineRow, RecordApplied,
         RecordTimesOut, Reload, Restart, CheckHealth, CommitFails,
         UndoBegin, UndoFile, UndoReload, UndoRestart, SystemctlTimesOut, store
<1> QED
  BY <1>3, <1>4, <1>5

\* What happens around the requests.
LEMMA SafeAround ==
  ASSUME Safe,
         CheckIntegrity \/ EditOutside \/ DaemonStops \/ DaemonStarts \/ Die \/ UNCHANGED vars
  PROVE  Safe'
<1> USE DEF Safe
<1>1. version' = version /\ DOMAIN backup' = DOMAIN backup
  BY DEF CheckIntegrity, EditOutside, DaemonStops, DaemonStarts, Die, vars, store
<1>2. CASE Die
  <2>1. InFlight' = {}
    BY <1>2 DEF Die, InFlight, TypeOK, Ended
  <2>2. pc' \in [Requests -> Places] /\ request' \in [Requests -> Locals]
    BY <1>2 DEF Die, TypeOK, Places, Ended, Locals, NoLocals
  <2>3. TypeOK'
    BY <1>1, <1>2, <2>2 DEF Die, TypeOK, store
  <2> QED
    BY <1>1, <2>1, <2>3 DEF Dense, LocalsAreSet
<1>3. CASE CheckIntegrity
  <2>1. baseline' \in [recorded : Contents \cup {None},
                       status : {"none", "unknown", "ok", "missing", "modified"}]
    <3>1. baseline \in [recorded : Contents \cup {None},
                        status : {"none", "unknown", "ok", "missing", "modified"}]
      BY DEF TypeOK
    <3>2. CASE baseline.recorded # None /\ file = baseline.recorded
      <4>1. baseline' = Trusted(file) \/ baseline' = [baseline EXCEPT !.status = "missing"]
        BY <1>3, <3>2 DEF CheckIntegrity
      <4> QED
        BY <3>1, <3>2, <4>1, BaselineRows
    <3>3. CASE ~(baseline.recorded # None /\ file = baseline.recorded)
      <4>1. baseline' \in {NewRow, [baseline EXCEPT !.status = "missing"],
                           [baseline EXCEPT !.status = "modified"]}
        BY <1>3, <3>3 DEF CheckIntegrity
      <4> QED
        BY <3>1, <4>1, BaselineRows
    <3> QED
      BY <3>2, <3>3
  <2> QED
    BY <1>1, <1>3, <2>1 DEF CheckIntegrity, TypeOK, Dense, LocalsAreSet, InFlight
<1>4. CASE EditOutside \/ DaemonStops \/ DaemonStarts \/ UNCHANGED vars
  <2>1. /\ UNCHANGED <<pc, request, gate, baseline>>
        /\ file' \in Texts \cup {None} /\ running' \in Contents \cup {None}
    BY <1>4, LoadedType, ApplyAssumption
    DEF EditOutside, DaemonStops, DaemonStarts, vars, TypeOK, Texts
  <2>2. alone' \in [Requests -> BOOLEAN] /\ calm' \in BOOLEAN
    BY <1>4 DEF EditOutside, DaemonStops, DaemonStarts, Disturb, vars, TypeOK
  <2> QED
    BY <1>1, <2>1, <2>2 DEF TypeOK, Dense, LocalsAreSet, InFlight
<1> QED
  BY <1>2, <1>3, <1>4

LEMMA SafeStep == Safe /\ [Next]_vars => Safe'
<1> SUFFICES ASSUME Safe, [Next]_vars PROVE Safe'
  OBVIOUS
<1>1. ASSUME NEW r \in Requests, ApplyConfig(r) \/ RestoreVersion(r) \/ ApplyImport(r)
      PROVE  Safe'
  <2>1. \A n \in DOMAIN version : version[n] \in Contents
    BY DEF Safe, TypeOK
  <2>2. PICK text \in Contents : Begin(r, text)
    BY <1>1, <2>1 DEF ApplyConfig, RestoreVersion, ApplyImport
  <2> QED
    BY <2>2, SafeBegin
<1>2. ASSUME NEW r \in Requests, Work(r) PROVE Safe'
  BY <1>2, SafeWork
<1>3. CASE CheckIntegrity \/ EditOutside \/ DaemonStops \/ DaemonStarts \/ Die
           \/ UNCHANGED vars
  BY <1>3, SafeAround
<1> QED
  BY <1>1, <1>2, <1>3 DEF Next

\* The invariant holds in every state.
THEOREM Safety == Spec => []Safe
BY SafeInit, SafeStep, PTL DEF Spec

-----------------------------------------------------------------------------
(* The properties *)

\* Every row and every local of a request keeps its type.
THEOREM TypeCorrect == Spec => []TypeOK
<1>1. Safe => TypeOK
  BY DEF Safe
<1> QED
  BY <1>1, Safety, PTL

\* The numbers of config_versions have no gap, although two requests may read
\* the same next number and fail, roll back or die after it.
THEOREM NumbersDense == Spec => []HistoryIsDense
<1>1. Safe => HistoryIsDense
  BY DEF Safe, Dense, HistoryIsDense
<1> QED
  BY <1>1, Safety, PTL

\* No apply, restore, import or rollback changes or removes a recorded version.
THEOREM HistoryAppends == Spec => HistoryIsAppendOnly
<1> DEFINE Appends ==
      \A n \in DOMAIN version : n \in DOMAIN version' /\ version'[n] = version[n]
<1>1. ASSUME NEW r \in Requests, CommitVersion(r)
      PROVE  Appends
  BY <1>1 DEF CommitVersion
<1>2. [Next]_vars => Appends
  <2> SUFFICES ASSUME [Next]_vars PROVE Appends
    OBVIOUS
  <2>1. CASE \E r \in Requests : CommitVersion(r)
    BY <1>1, <2>1
  <2>2. CASE ~ \E r \in Requests : CommitVersion(r)
    <3>1. version' = version
      BY <2>2
      DEF Next, ApplyConfig, RestoreVersion, ApplyImport, Begin, Work, Validate, BackUp,
          WriteConfigFile, CreateBaselineRow, RecordApplied, RecordTimesOut, Reload, Restart,
          CheckHealth, CommitFails, UndoBegin, UndoFile, UndoReload, UndoRestart,
          SystemctlTimesOut, CheckIntegrity, EditOutside, DaemonStops, DaemonStarts, Die,
          store, vars
    <3> QED
      BY <3>1
  <2> QED
    BY <2>1, <2>2
<1>3. [Next]_vars => [Appends]_vars
  BY <1>2
<1> QED
  BY <1>3, PTL DEF Spec, HistoryIsAppendOnly

-----------------------------------------------------------------------------
(* The watch *)

BeforeReload == {"check", "write", "fill", "record"}
Rewriting    == {"fill", "record"}

\* The gate is held from the first read at most to the recorded baseline, and by a
\* request whose check was conclusive all that time.
GateFollowsPlace ==
  /\ gate # None => pc[gate] \in BeforeReload
  /\ \A r \in Requests :
       /\ pc[r] = "check" => gate = r /\ ~request[r].held
       /\ request[r].held /\ pc[r] \in BeforeReload => gate = r

\* The file differs from the baseline for a cause, or while it is being rewritten ...
DifferenceHasCause ==
  causes = {} /\ baseline.recorded \notin {None, file} => \E q \in Requests : pc[q] \in Rewriting

\* ... and somebody else has rewritten it if a request that kept the gate does not
\* find its own text any more.
OverwrittenHasCause ==
  \A r \in Requests :
    pc[r] = "record" /\ request[r].held /\ file # request[r].text /\ causes = {}
      => \E q \in Requests \ {r} : pc[q] \in Rewriting

Watched ==
  /\ GateFollowsPlace
  /\ DifferenceHasCause
  /\ OverwrittenHasCause
  /\ AlarmHasCause

-----------------------------------------------------------------------------
(* Requests that nobody disturbs *)

\* A request that was not disturbed is the only one; when all is calm, each is.
Company ==
  /\ \A r \in Requests : pc[r] = "idle" => alone[r]
  /\ \A r \in InFlight : alone[r] => InFlight = {r}
  /\ calm => \A r \in InFlight : alone[r]

Reading == {"check", "write"}
Written == {"record", "reload", "restart", "health", "commit", "undo"}
Trusting == {"reload", "restart", "health", "commit"}

\* What such a request finds where it is.
Undisturbed(r) ==
  /\ request[r].number = NextVersionNumber
  /\ pc[r] \in Reading => request[r].previous = ActiveText
  /\ pc[r] \notin Reading /\ request[r].previous # Empty =>
       backup[request[r].number - 1] = request[r].previous
  /\ pc[r] \in Written => file = request[r].text
  /\ pc[r] \in Trusting => baseline = Trusted(request[r].text)
  /\ pc[r] = "health" => running \in {request[r].text, None}
  /\ pc[r] = "commit" => running = request[r].text
  /\ pc[r] \in {"undo reload", "undo restart"} => file = request[r].previous

AllUndisturbed == \A r \in InFlight : alone[r] => Undisturbed(r)

\* The latest version, or what an installation without one may have.
IsLatest(text) ==
  IF DOMAIN version = {} THEN text \in {None, Empty, Factory}
  ELSE text = version[NextVersionNumber - 1]

\* Where it goes back to, should it fail, when all was calm before it.
Calm(r) ==
  /\ pc[r] \in Reading => IsLatest(file) /\ running \in {file, None}
  /\ pc[r] \notin Reading => IsLatest(request[r].previous)
  /\ pc[r] \notin Reading \cup {"health", "commit"} => running \in {request[r].previous, None}

CalmIsLatest ==
  /\ QuietFileIsLatest
  /\ calm => \A r \in InFlight : Calm(r)

Trustworthy == Safe /\ Watched /\ Company /\ AllUndisturbed /\ CalmIsLatest

-----------------------------------------------------------------------------
(* What a step of a request leaves alone *)

\* It moves itself, and nobody else.
LEMMA WorkEffect ==
  ASSUME TypeOK, NEW r \in Requests, Work(r)
  PROVE  /\ r \in InFlight /\ pc'[r] # "idle"
         /\ \A s \in Requests \ {r} : pc'[s] = pc[s] /\ request'[s] = request[s]
         /\ InFlight' = InFlight \/ InFlight' = InFlight \ {r}
         /\ UNCHANGED alone
<1>type. pc \in [Requests -> Places] /\ request \in [Requests -> Locals]
  BY DEF TypeOK
<1>1. r \in InFlight /\ UNCHANGED alone
  BY DEF Work, Validate, BackUp, WriteConfigFile, CreateBaselineRow, RecordApplied,
         RecordTimesOut, Reload, Restart, CheckHealth, CommitVersion, CommitFails,
         UndoBegin, UndoFile, UndoReload, UndoRestart, SystemctlTimesOut, InFlight, Ended,
         history
<1>2. pc' = pc \/ \E place : pc' = [pc EXCEPT ![r] = place] /\ place # "idle"
  BY DEF Work, Validate, BackUp, WriteConfigFile, CreateBaselineRow, RecordApplied,
         RecordTimesOut, Reload, Restart, CheckHealth, CommitVersion, CommitFails,
         UndoBegin, UndoFile, UndoReload, UndoRestart, SystemctlTimesOut, Goto, End
<1>3. request' = request \/ \E l : request' = [request EXCEPT ![r] = l]
  BY DEF Work, Validate, BackUp, WriteConfigFile, CreateBaselineRow, RecordApplied,
         RecordTimesOut, Reload, Restart, CheckHealth, CommitVersion, CommitFails,
         UndoBegin, UndoFile, UndoReload, UndoRestart, SystemctlTimesOut, End
<1>4. pc'[r] # "idle" /\ \A s \in Requests \ {r} : pc'[s] = pc[s]
  BY <1>type, <1>1, <1>2 DEF InFlight
<1>5. \A s \in Requests \ {r} : request'[s] = request[s]
  BY <1>type, <1>3
<1>6. InFlight' = InFlight \/ InFlight' = InFlight \ {r}
  BY <1>1, <1>4 DEF InFlight
<1> QED
  BY <1>1, <1>4, <1>5, <1>6

-----------------------------------------------------------------------------
(* The watch, step by step *)

\* The gate, when a request moves on.
LEMMA GateWork ==
  ASSUME TypeOK, GateFollowsPlace, NEW r \in Requests, Work(r)
  PROVE  GateFollowsPlace'
<1>type. /\ pc \in [Requests -> Places] /\ request \in [Requests -> Locals]
         /\ gate \in Requests \cup {None} /\ None \notin Requests
  BY ApplyAssumption DEF TypeOK
<1>others. \A s \in Requests \ {r} : pc'[s] = pc[s] /\ request'[s] = request[s]
  BY WorkEffect
\* It is enough to look at the request itself.
<1>self. ASSUME \/ /\ gate' = r
                   /\ gate \in {None, r}
                   /\ pc'[r] \in BeforeReload
                   /\ pc'[r] = "check" => ~request'[r].held
                \/ /\ gate' = None /\ gate = r
                   /\ pc'[r] # "check"
                   /\ request'[r].held => pc'[r] \notin BeforeReload
                \/ /\ gate' = gate /\ gate # r
                   /\ pc'[r] # "check"
                   /\ request'[r].held => pc'[r] \notin BeforeReload
         PROVE  GateFollowsPlace'
  <2>1. gate' # None => pc'[gate'] \in BeforeReload
    BY <1>self, <1>type, <1>others DEF GateFollowsPlace
  <2>2. ASSUME NEW s \in Requests
        PROVE  /\ pc'[s] = "check" => gate' = s /\ ~request'[s].held
               /\ request'[s].held /\ pc'[s] \in BeforeReload => gate' = s
    <3>1. CASE s = r
      BY <3>1, <1>self
    <3>2. CASE s # r
      BY <3>2, <1>self, <1>type, <1>others DEF GateFollowsPlace
    <3> QED
      BY <3>1, <3>2
  <2> QED
    BY <2>1, <2>2 DEF GateFollowsPlace
<1>1. CASE Validate(r)
  <2>1. gate = r /\ ~request[r].held
    BY <1>1 DEF Validate, GateFollowsPlace
  <2>2. \/ pc'[r] = "rejected" /\ gate' = None
        \/ pc'[r] = "write" /\ gate' = None /\ ~request'[r].held
        \/ pc'[r] = "write" /\ gate' = r
    BY <1>1, <1>type, <2>1 DEF Validate, End, Goto, DropGate
  <2> QED
    BY <2>1, <2>2, <1>self DEF BeforeReload
<1>2. CASE BackUp(r) \/ WriteConfigFile(r)
  <2>1. /\ UNCHANGED <<gate, request>> /\ pc[r] \in BeforeReload
        /\ pc'[r] \in {"fill", "record"}
    BY <1>2, <1>type DEF BackUp, WriteConfigFile, Goto, BeforeReload
  <2>2. request[r].held => gate = r
    BY <2>1 DEF GateFollowsPlace
  <2> QED
    BY <2>1, <2>2, <1>self DEF BeforeReload
<1>3. CASE CreateBaselineRow(r)
  <2>1. /\ gate \in {None, r} /\ gate' = None
        /\ pc'[r] = "record" /\ ~request'[r].held
    BY <1>3, <1>type DEF CreateBaselineRow, MayTakeGate, DropGate, Locals
  <2> QED
    BY <2>1, <1>type, <1>self
<1>4. CASE RecordApplied(r)
  <2>1. gate \in {None, r} /\ gate' = None /\ pc'[r] = "reload"
    BY <1>4, <1>type DEF RecordApplied, MayTakeGate, DropGate, Goto
  <2> QED
    BY <2>1, <1>type, <1>self DEF BeforeReload
<1>5. CASE RecordTimesOut(r)
  <2>1. gate # r /\ gate' = gate /\ pc'[r] = "reload"
    BY <1>5, <1>type DEF RecordTimesOut, MayTakeGate, Goto
  <2> QED
    BY <2>1, <1>self DEF BeforeReload
<1>6. CASE \/ Reload(r) \/ Restart(r) \/ CheckHealth(r) \/ CommitVersion(r) \/ CommitFails(r)
           \/ UndoBegin(r) \/ UndoFile(r) \/ UndoReload(r) \/ UndoRestart(r)
           \/ SystemctlTimesOut(r)
  <2>1. gate' = gate /\ pc[r] \notin BeforeReload
    BY <1>6 DEF Reload, Restart, CheckHealth, CommitVersion, CommitFails, UndoBegin, UndoFile,
                UndoReload, UndoRestart, SystemctlTimesOut, BeforeReload
  <2>2. pc'[r] \notin BeforeReload
    BY <1>6, <1>type
    DEF Reload, Restart, CheckHealth, CommitVersion, CommitFails, UndoBegin, UndoFile,
        UndoReload, UndoRestart, SystemctlTimesOut, BeforeReload, Goto, End
  <2>3. gate # r
    BY <2>1, <1>type DEF GateFollowsPlace
  <2> QED
    BY <2>1, <2>2, <2>3, <1>self DEF BeforeReload
<1> QED
  BY <1>1, <1>2, <1>3, <1>4, <1>5, <1>6 DEF Work

\* Steps that leave file and baseline alone, and let nobody out of a write.
LEMMA QuietSteps ==
  ASSUME DifferenceHasCause, OverwrittenHasCause, AlarmHasCause,
         UNCHANGED <<file, baseline>>, causes \subseteq causes',
         \A q \in Requests :
           /\ pc[q] \in Rewriting => pc'[q] \in Rewriting
           /\ pc'[q] = "record" => pc[q] = "record" /\ request'[q] = request[q]
  PROVE  DifferenceHasCause' /\ OverwrittenHasCause' /\ AlarmHasCause'
<1>1. DifferenceHasCause'
  BY DEF DifferenceHasCause
<1>2. OverwrittenHasCause'
  BY DEF OverwrittenHasCause
<1>3. AlarmHasCause'
  BY DEF AlarmHasCause
<1> QED
  BY <1>1, <1>2, <1>3

\* Steps that are a cause themselves.
LEMMA CausingSteps ==
  ASSUME causes' # {} PROVE DifferenceHasCause' /\ OverwrittenHasCause' /\ AlarmHasCause'
BY DEF DifferenceHasCause, OverwrittenHasCause, AlarmHasCause

\* One step of a request.
LEMMA WatchedWork ==
  ASSUME TypeOK, Watched, NEW r \in Requests, Work(r)
  PROVE  Watched'
<1> SUFFICES DifferenceHasCause' /\ OverwrittenHasCause' /\ AlarmHasCause'
  BY GateWork DEF Watched
<1>type. /\ pc \in [Requests -> Places] /\ request \in [Requests -> Locals]
         /\ gate \in Requests \cup {None} /\ None \notin Requests
  BY ApplyAssumption DEF TypeOK
<1>others. \A s \in Requests \ {r} : pc'[s] = pc[s] /\ request'[s] = request[s]
  BY WorkEffect
<1>w. DifferenceHasCause /\ OverwrittenHasCause /\ AlarmHasCause
  BY DEF Watched
<1>1. CASE \/ Validate(r) \/ Reload(r) \/ Restart(r) \/ CheckHealth(r) \/ CommitVersion(r)
           \/ CommitFails(r) \/ UndoReload(r) \/ UndoRestart(r) \/ SystemctlTimesOut(r)
  <2>1. UNCHANGED <<file, baseline, causes>> /\ pc[r] \notin Rewriting
    BY <1>1
    DEF Validate, Reload, Restart, CheckHealth, CommitVersion, CommitFails, UndoReload,
        UndoRestart, SystemctlTimesOut, Rewriting, store, history
  <2>2. pc'[r] # "record"
    BY <1>1, <1>type
    DEF Validate, Reload, Restart, CheckHealth, CommitVersion, CommitFails, UndoReload,
        UndoRestart, SystemctlTimesOut, Goto, End
  <2>3. \A q \in Requests :
           /\ pc[q] \in Rewriting => pc'[q] \in Rewriting
           /\ pc'[q] = "record" => pc[q] = "record" /\ request'[q] = request[q]
    BY <1>others, <2>1, <2>2
  <2> QED
    BY <1>w, <2>1, <2>3, QuietSteps
<1>2. CASE RecordTimesOut(r) \/ UndoBegin(r) \/ UndoFile(r)
  <2>1. causes' # {}
    BY <1>2 DEF RecordTimesOut, UndoBegin, UndoFile
  <2> QED
    BY <2>1, CausingSteps
<1>3. CASE BackUp(r)
  <2>1. pc'[r] = "fill" /\ UNCHANGED <<baseline, causes>>
    BY <1>3, <1>type DEF BackUp, Goto, history
  <2>2. DifferenceHasCause'
    BY <2>1 DEF DifferenceHasCause, Rewriting
  <2>3. OverwrittenHasCause'
    BY <2>1 DEF OverwrittenHasCause, Rewriting
  <2> QED
    BY <2>1, <2>2, <2>3, <1>w DEF AlarmHasCause
<1>4. CASE WriteConfigFile(r)
  <2>1. /\ pc'[r] = "record" /\ UNCHANGED <<baseline, causes, request>>
        /\ file' = request[r].text
    BY <1>4, <1>type DEF WriteConfigFile, Goto, history
  <2>2. DifferenceHasCause'
    BY <2>1 DEF DifferenceHasCause, Rewriting
  <2>3. OverwrittenHasCause'
    BY <2>1 DEF OverwrittenHasCause, Rewriting
  <2> QED
    BY <2>1, <2>2, <2>3, <1>w DEF AlarmHasCause
<1>5. CASE CreateBaselineRow(r)
  <2>1. /\ pc' = pc /\ pc[r] = "record" /\ UNCHANGED <<file, causes>>
        /\ baseline' = NewRow /\ ~request'[r].held
    BY <1>5, <1>type DEF CreateBaselineRow, history, Locals
  <2>2. DifferenceHasCause' /\ AlarmHasCause'
    BY <2>1 DEF DifferenceHasCause, AlarmHasCause, NewRow
  <2>3. OverwrittenHasCause'
    BY <2>1, <1>w, <1>others DEF OverwrittenHasCause
  <2> QED
    BY <2>2, <2>3
<1>6. CASE RecordApplied(r)
  <2>1. /\ pc[r] = "record" /\ pc'[r] = "reload" /\ gate \in {None, r}
        /\ UNCHANGED <<file, request>> /\ baseline' = Trusted(request[r].text)
    BY <1>6, <1>type DEF RecordApplied, Goto, MayTakeGate
  <2>2. AlarmHasCause'
    BY <2>1 DEF AlarmHasCause, Trusted
  \* Who kept the gate to here does not see it taken away.
  <2>3. ASSUME NEW s \in Requests, pc'[s] = "record", request'[s].held PROVE FALSE
    <3>1. s # r /\ pc[s] = "record" /\ request[s].held
      BY <2>1, <2>3, <1>others
    <3>2. gate = s
      BY <3>1 DEF Watched, GateFollowsPlace, BeforeReload
    <3> QED
      BY <3>1, <3>2, <2>1, <1>type
  <2>4. OverwrittenHasCause'
    BY <2>3 DEF OverwrittenHasCause
  <2>5. DifferenceHasCause'
    <3>1. CASE file = request[r].text
      BY <3>1, <2>1 DEF DifferenceHasCause, Trusted
    <3>2. CASE file # request[r].text /\ ~request[r].held
      <4>1. causes' # {}
        BY <3>2, <1>6 DEF RecordApplied
      <4> QED
        BY <4>1, CausingSteps
    <3>3. CASE file # request[r].text /\ request[r].held
      <4>1. causes' = causes
        BY <3>3, <1>6 DEF RecordApplied
      <4>2. CASE causes = {}
        <5>1. PICK q \in Requests \ {r} : pc[q] \in Rewriting
          BY <3>3, <4>2, <2>1, <1>w DEF OverwrittenHasCause
        <5>2. pc'[q] \in Rewriting
          BY <5>1, <1>others
        <5> QED
          BY <5>2 DEF DifferenceHasCause
      <4>3. CASE causes # {}
        BY <4>1, <4>3, CausingSteps
      <4> QED
        BY <4>2, <4>3
    <3> QED
      BY <3>1, <3>2, <3>3
  <2> QED
    BY <2>2, <2>4, <2>5
<1> QED
  BY <1>1, <1>2, <1>3, <1>4, <1>5, <1>6 DEF Work

\* A request begins.
LEMMA WatchedBegin ==
  ASSUME TypeOK, Watched, NEW r \in Requests, NEW text, Begin(r, text)
  PROVE  Watched'
<1>type. pc \in [Requests -> Places] /\ request \in [Requests -> Locals]
  BY DEF TypeOK
<1>1. /\ gate = None /\ gate' = r /\ pc[r] = "idle" /\ pc'[r] = "check"
      /\ request'[r].held = FALSE
      /\ \A s \in Requests \ {r} : pc'[s] = pc[s] /\ request'[s] = request[s]
      /\ UNCHANGED <<file, baseline, causes>>
  BY <1>type DEF Begin, Goto, store
<1>2. None \notin Requests
  BY ApplyAssumption
<1>3. GateFollowsPlace'
  <2>1. gate' # None => pc'[gate'] \in BeforeReload
    BY <1>1 DEF BeforeReload
  <2>2. ASSUME NEW s \in Requests
        PROVE  /\ pc'[s] = "check" => gate' = s /\ ~request'[s].held
               /\ request'[s].held /\ pc'[s] \in BeforeReload => gate' = s
    BY <1>1, <1>2 DEF Watched, GateFollowsPlace
  <2> QED
    BY <2>1, <2>2 DEF GateFollowsPlace
<1>4. \A q \in Requests :
         /\ pc[q] \in Rewriting => pc'[q] \in Rewriting
         /\ pc'[q] = "record" => pc[q] = "record" /\ request'[q] = request[q]
  BY <1>1 DEF Rewriting
<1> QED
  BY <1>1, <1>3, <1>4, QuietSteps DEF Watched

\* What happens around the requests.
LEMMA WatchedAround ==
  ASSUME TypeOK, Watched,
         CheckIntegrity \/ EditOutside \/ DaemonStops \/ DaemonStarts \/ Die \/ UNCHANGED vars
  PROVE  Watched'
<1>w. DifferenceHasCause /\ OverwrittenHasCause /\ AlarmHasCause /\ GateFollowsPlace
  BY DEF Watched
<1>1. CASE Die
  <2>1. causes' # {} /\ gate' = None
    BY <1>1 DEF Die
  <2>2. \A s \in Requests : pc'[s] \notin BeforeReload
    BY <1>1 DEF Die, InFlight, BeforeReload, Ended
  <2>3. GateFollowsPlace'
    BY <2>1, <2>2 DEF GateFollowsPlace, BeforeReload
  <2> QED
    BY <2>1, <2>3, CausingSteps DEF Watched
<1>2. CASE EditOutside
  <2>1. causes' # {} /\ UNCHANGED <<gate, pc, request>>
    BY <1>2 DEF EditOutside
  <2> QED
    BY <2>1, <1>w, CausingSteps DEF Watched, GateFollowsPlace
<1>3. CASE DaemonStops \/ DaemonStarts \/ UNCHANGED vars
  <2>1. UNCHANGED <<file, baseline, causes, gate, pc, request>>
    BY <1>3 DEF DaemonStops, DaemonStarts, vars
  <2> QED
    BY <2>1, <1>w, QuietSteps DEF Watched, GateFollowsPlace
<1>4. CASE CheckIntegrity
  <2>1. /\ UNCHANGED <<file, gate, pc, request>> /\ causes \subseteq causes'
        /\ (\E r \in Requests : pc[r] \in Rewriting) => causes' # {}
    BY <1>4 DEF CheckIntegrity, Rewriting
  <2>2. \/ baseline.recorded = None /\ baseline' = NewRow
        \/ baseline.recorded # None /\ file = None
           /\ baseline' = [baseline EXCEPT !.status = "missing"]
        \/ baseline.recorded = file /\ baseline' = Trusted(file)
        \/ baseline.recorded \notin {None, file}
           /\ baseline' = [baseline EXCEPT !.status = "modified"]
    BY <1>4 DEF CheckIntegrity
  <2>type. baseline \in [recorded : Contents \cup {None},
                         status : {"none", "unknown", "ok", "missing", "modified"}]
    BY DEF TypeOK
  <2>3. /\ baseline'.recorded = baseline.recorded
        /\ baseline'.status = "modified" => baseline.recorded \notin {None, file}
    BY <2>2, <2>type DEF NewRow, Trusted
  <2>4. AlarmHasCause'
    BY <2>1, <2>3, <1>w DEF AlarmHasCause, DifferenceHasCause
  <2>5. DifferenceHasCause'
    BY <2>1, <2>3, <1>w DEF DifferenceHasCause
  <2>6. OverwrittenHasCause'
    BY <2>1, <1>w DEF OverwrittenHasCause
  <2>7. GateFollowsPlace'
    BY <2>1, <1>w DEF GateFollowsPlace
  <2> QED
    BY <2>4, <2>5, <2>6, <2>7 DEF Watched
<1> QED
  BY <1>1, <1>2, <1>3, <1>4

-----------------------------------------------------------------------------
(* Company *)

\* A request begins beside others or alone; what happens around it disturbs it.
LEMMA CompanyStep ==
  ASSUME TypeOK, Company, [Next]_vars
  PROVE  Company'
<1>type. /\ pc \in [Requests -> Places] /\ alone \in [Requests -> BOOLEAN]
  BY DEF TypeOK
<1>1. ASSUME NEW r \in Requests, NEW text, Begin(r, text) PROVE Company'
  <2>1. /\ InFlight' = InFlight \cup {r} /\ pc[r] = "idle"
        /\ \A s \in Requests : pc'[s] = "idle" => pc[s] = "idle" /\ s # r
    BY <1>1, <1>type DEF Begin, Goto, InFlight, Ended
  <2>2. CASE InFlight = {} /\ UNCHANGED <<alone, calm>>
    BY <2>1, <2>2 DEF Company
  <2>3. CASE /\ InFlight # {} /\ calm' = FALSE
             /\ alone' = [s \in Requests |-> alone[s] /\ s \notin InFlight \cup {r}]
    <3>1. \A s \in InFlight' : ~alone'[s]
      BY <2>1, <2>3, <1>type DEF InFlight
    <3>2. \A s \in Requests : pc'[s] = "idle" => alone'[s]
      BY <2>1, <2>3, <1>type DEF Company, InFlight
    <3> QED
      BY <2>3, <3>1, <3>2 DEF Company
  <2> QED
    BY <1>1, <2>2, <2>3 DEF Begin
<1>2. ASSUME NEW r \in Requests, Work(r) PROVE Company'
  <2>1. /\ r \in InFlight /\ UNCHANGED alone
        /\ InFlight' = InFlight \/ InFlight' = InFlight \ {r}
        /\ \A s \in Requests : pc'[s] = "idle" => pc[s] = "idle"
    BY <1>2, WorkEffect
  <2>2. \/ calm' => calm
        \/ alone[r] /\ InFlight' = InFlight \ {r}
    <3>1. CASE CommitVersion(r)
      <4>1. calm' = (calm \/ alone[r]) /\ InFlight' = InFlight \ {r}
        BY <3>1, <1>type DEF CommitVersion, End, Goto, InFlight, Ended
      <4> QED
        BY <4>1
    <3>2. CASE ~CommitVersion(r)
      BY <1>2, <3>2
      DEF Work, Validate, BackUp, WriteConfigFile, CreateBaselineRow, RecordApplied,
          RecordTimesOut, Reload, Restart, CheckHealth, CommitFails, UndoBegin, UndoFile,
          UndoReload, UndoRestart, SystemctlTimesOut, history
    <3> QED
      BY <3>1, <3>2
  <2>3. \A s \in InFlight' : alone'[s] => InFlight' = {s}
    BY <2>1 DEF Company
  <2>4. calm' => \A s \in InFlight' : alone'[s]
    BY <2>1, <2>2 DEF Company
  <2> QED
    BY <2>1, <2>3, <2>4 DEF Company
<1>3. CASE Die
  <2>1. InFlight' = {} /\ UNCHANGED alone /\ \A s \in Requests : pc'[s] = "idle" => pc[s] = "idle"
    BY <1>3, <1>type DEF Die, InFlight, Ended
  <2> QED
    BY <2>1 DEF Company
<1>4. CASE EditOutside \/ DaemonStops \/ DaemonStarts
  <2>1. /\ UNCHANGED pc /\ InFlight' = InFlight
        /\ alone' = [s \in Requests |-> alone[s] /\ s \notin InFlight]
        /\ calm' => InFlight = {}
    BY <1>4 DEF EditOutside, DaemonStops, DaemonStarts, Disturb, InFlight
  <2>2. \A s \in Requests : alone'[s] <=> alone[s] /\ s \notin InFlight
    BY <2>1
  <2> QED
    BY <2>1, <2>2 DEF Company, InFlight
<1>5. CASE CheckIntegrity \/ UNCHANGED vars
  <2>1. UNCHANGED <<pc, alone, calm>> /\ InFlight' = InFlight
    BY <1>5 DEF CheckIntegrity, vars, InFlight
  <2> QED
    BY <2>1 DEF Company
<1> QED
  BY <1>1, <1>2, <1>3, <1>4, <1>5 DEF Next, ApplyConfig, RestoreVersion, ApplyImport

-----------------------------------------------------------------------------
(* The undisturbed request *)

\* Nobody keeps the gate from it.
LEMMA GateIsFree ==
  ASSUME Safe, Watched, Company, NEW r \in InFlight, alone[r]
  PROVE  MayTakeGate(r)
<1>1. gate # None => gate \in Requests /\ pc[gate] \in BeforeReload
  BY DEF Safe, TypeOK, Watched, GateFollowsPlace
<1>2. gate # None => gate \in InFlight
  BY <1>1 DEF InFlight, BeforeReload, Ended
<1> QED
  BY <1>2 DEF Company, MayTakeGate

\* It finds at its next place what it needs there.
LEMMA UndisturbedWork ==
  ASSUME Safe, Watched, Company, NEW r \in Requests, Work(r), alone[r], Undisturbed(r),
         r \in InFlight'
  PROVE  Undisturbed(r)'
<1>type. /\ pc \in [Requests -> Places] /\ request \in [Requests -> Locals]
  BY DEF Safe, TypeOK
<1>0. r \in InFlight /\ request[r].text \in Contents /\ request[r].number \in Nat
  BY WorkEffect DEF Safe, LocalsAreSet
<1>u. UNCHANGED version => NextVersionNumber' = NextVersionNumber
  BY DEF NextVersionNumber
<1>1. CASE Validate(r)
  <2>1. /\ pc[r] = "check" /\ pc'[r] = "write" /\ UNCHANGED store
        /\ request'[r].text = request[r].text /\ request'[r].previous = request[r].previous
        /\ request'[r].number = request[r].number
    BY <1>1, <1>type DEF Validate, End, Goto, InFlight, Ended, Locals
  <2>2. UNCHANGED <<version, file>>
    BY <2>1 DEF store
  <2> QED
    BY <2>1, <2>2, <1>u
    DEF Undisturbed, ActiveText, Reading, Written, Trusting
<1>2. CASE BackUp(r)
  <2>1. /\ pc[r] = "write" /\ pc'[r] = "fill" /\ UNCHANGED <<version, request>>
    BY <1>2, <1>type DEF BackUp, Goto
  <2>2. request[r].previous # Empty => file # None /\ request[r].previous = file
    BY <2>1 DEF Undisturbed, Reading, ActiveText
  <2>3. request[r].previous # Empty => backup'[request[r].number - 1] = request[r].previous
    BY <1>2, <2>2 DEF BackUp
  <2> QED
    BY <2>1, <2>3, <1>u DEF Undisturbed, Reading, Written, Trusting
<1>3. CASE WriteConfigFile(r)
  <2>1. /\ pc[r] = "fill" /\ pc'[r] = "record" /\ UNCHANGED <<version, request, backup>>
        /\ file' = request[r].text
    BY <1>3, <1>type DEF WriteConfigFile, Goto
  <2> QED
    BY <2>1, <1>u DEF Undisturbed, Reading, Written, Trusting
<1>4. CASE CreateBaselineRow(r)
  <2>1. /\ pc[r] = "record" /\ pc' = pc /\ UNCHANGED <<file, version, backup>>
        /\ request'[r].text = request[r].text /\ request'[r].previous = request[r].previous
        /\ request'[r].number = request[r].number
    BY <1>4, <1>type DEF CreateBaselineRow, Locals
  <2> QED
    BY <2>1, <1>u DEF Undisturbed, Reading, Written, Trusting
<1>5. CASE RecordApplied(r)
  <2>1. /\ pc[r] = "record" /\ pc'[r] = "reload" /\ UNCHANGED <<file, version, backup, request>>
        /\ baseline' = Trusted(request[r].text)
    BY <1>5, <1>type DEF RecordApplied, Goto
  <2> QED
    BY <2>1, <1>u DEF Undisturbed, Reading, Written, Trusting
<1>6. CASE RecordTimesOut(r)
  BY <1>0, <1>6, GateIsFree DEF RecordTimesOut
<1>7. CASE Reload(r) \/ Restart(r)
  <2>1. /\ pc[r] \in {"reload", "restart"} /\ UNCHANGED <<file, version, backup, baseline, request>>
        /\ \/ pc'[r] = "health" /\ running' = Loaded
           \/ pc'[r] \in {"restart", "undo"}
    BY <1>7, <1>type DEF Reload, Restart, Goto
  <2>2. file = request[r].text /\ baseline = Trusted(request[r].text)
    BY <2>1 DEF Undisturbed, Written, Trusting
  <2>3. Loaded \in {request[r].text, None}
    BY <2>2 DEF Loaded
  <2> QED
    BY <2>1, <2>2, <2>3, <1>u DEF Undisturbed, Reading, Written, Trusting
<1>8. CASE CheckHealth(r)
  <2>1. /\ pc[r] = "health" /\ UNCHANGED store /\ UNCHANGED request
        /\ pc'[r] = IF running = None THEN "undo" ELSE "commit"
    BY <1>8, <1>type DEF CheckHealth, Goto
  <2>2. UNCHANGED <<file, running, version, backup, baseline>>
    BY <2>1 DEF store
  <2> QED
    BY <2>1, <2>2, <1>u DEF Undisturbed, Reading, Written, Trusting
<1>9. CASE UndoBegin(r) \/ UndoFile(r)
  <2>1. /\ UNCHANGED <<version, backup, request>>
        /\ \/ pc[r] = "undo" /\ pc'[r] = "undo fill"
           \/ /\ pc[r] = "undo fill" /\ pc'[r] = "undo reload"
              /\ file' = request[r].previous
    BY <1>9, <1>type DEF UndoBegin, UndoFile, Goto
  <2> QED
    BY <2>1, <1>u DEF Undisturbed, Reading, Written, Trusting
<1>10. CASE UndoReload(r)
  <2>1. /\ pc[r] = "undo reload" /\ pc'[r] = "undo restart"
        /\ UNCHANGED <<file, version, backup, request>>
    BY <1>10, <1>type DEF UndoReload, End, Goto, InFlight, Ended
  <2> QED
    BY <2>1, <1>u DEF Undisturbed, Reading, Written, Trusting
<1>11. CASE CommitVersion(r) \/ CommitFails(r) \/ UndoRestart(r) \/ SystemctlTimesOut(r)
  <2>1. pc'[r] \in Ended
    BY <1>11, <1>type DEF CommitVersion, CommitFails, UndoRestart, SystemctlTimesOut, End, Goto,
                          Ended
  <2> QED
    BY <2>1 DEF InFlight
<1> QED
  BY <1>1, <1>2, <1>3, <1>4, <1>5, <1>6, <1>7, <1>8, <1>9, <1>10, <1>11 DEF Work

\* Whoever else moves disturbs it, except the watch.
LEMMA UndisturbedStep ==
  ASSUME Safe, Watched, Company, AllUndisturbed, [Next]_vars
  PROVE  AllUndisturbed'
<1> SUFFICES ASSUME NEW r \in InFlight', alone'[r] PROVE Undisturbed(r)'
  BY DEF AllUndisturbed
<1>type. /\ pc \in [Requests -> Places] /\ request \in [Requests -> Locals]
         /\ alone \in [Requests -> BOOLEAN] /\ r \in Requests
  BY DEF Safe, TypeOK, InFlight
<1>u. UNCHANGED version => NextVersionNumber' = NextVersionNumber
  BY DEF NextVersionNumber
<1>1. ASSUME NEW q \in Requests, NEW text, Begin(q, text) PROVE Undisturbed(r)'
  <2>1. InFlight = {} /\ r = q
    <3>1. pc[q] = "idle" /\ InFlight' = InFlight \cup {q}
      BY <1>1, <1>type DEF Begin, Goto, InFlight, Ended
    <3>2. CASE InFlight = {}
      BY <3>1, <3>2
    <3>3. CASE InFlight # {}
      <4>1. alone' = [s \in Requests |-> alone[s] /\ s \notin InFlight \cup {q}]
        BY <1>1, <3>3 DEF Begin
      <4> QED
        BY <3>1, <4>1, <1>type
    <3> QED
      BY <3>2, <3>3
  <2>2. /\ pc'[r] = "check" /\ UNCHANGED <<file, version>>
        /\ request'[r].previous = ActiveText /\ request'[r].number = NextVersionNumber
    BY <1>1, <2>1, <1>type DEF Begin, Goto, store
  <2> QED
    BY <2>2, <1>u DEF Undisturbed, Reading, Written, Trusting, ActiveText
<1>2. ASSUME NEW q \in Requests, Work(q) PROVE Undisturbed(r)'
  <2>1. /\ q \in InFlight /\ r \in InFlight /\ alone[r]
    BY <1>2, <1>type, WorkEffect DEF Safe
  <2>2. q = r /\ Undisturbed(r)
    BY <2>1 DEF Company, AllUndisturbed
  <2> QED
    BY <1>2, <2>1, <2>2, <1>type, UndisturbedWork
<1>3. CASE Die
  BY <1>3, <1>type DEF Die, InFlight, Ended
<1>4. CASE EditOutside \/ DaemonStops \/ DaemonStarts
  <2>1. alone' = [s \in Requests |-> alone[s] /\ s \notin InFlight] /\ InFlight' = InFlight
    BY <1>4 DEF EditOutside, DaemonStops, DaemonStarts, Disturb, InFlight
  <2> QED
    BY <2>1, <1>type
<1>5. CASE CheckIntegrity
  <2>1. /\ UNCHANGED <<file, running, version, backup, pc, request>>
        /\ r \in InFlight /\ alone[r]
    BY <1>5 DEF CheckIntegrity, InFlight
  <2>2. Undisturbed(r) /\ request[r].text \in Contents
    BY <2>1 DEF AllUndisturbed, Safe, LocalsAreSet
  <2>3. pc[r] \in Trusting => baseline' = Trusted(request[r].text)
    <3>1. CASE pc[r] \in Trusting
      <4>0. file = request[r].text /\ baseline = Trusted(request[r].text)
        BY <3>1, <2>2 DEF Undisturbed, Trusting, Written
      <4>1. file # None /\ baseline.recorded = file
        BY <4>0, <2>2, ApplyAssumption DEF Trusted
      <4> QED
        BY <4>0, <4>1, <1>5 DEF CheckIntegrity
    <3> QED
      BY <3>1
  <2> QED
    BY <2>1, <2>2, <2>3, <1>u DEF Undisturbed, ActiveText
<1>6. CASE UNCHANGED vars
  <2>1. /\ UNCHANGED <<file, running, version, backup, baseline, pc, request>>
        /\ r \in InFlight /\ alone[r]
    BY <1>6 DEF vars, InFlight
  <2> QED
    BY <2>1, <1>u DEF AllUndisturbed, Undisturbed, ActiveText
<1> QED
  BY <1>1, <1>2, <1>3, <1>4, <1>5, <1>6 DEF Next, ApplyConfig, RestoreVersion, ApplyImport

-----------------------------------------------------------------------------
(* Calm *)

\* The greatest of the numbers from one.
LEMMA GreatestOfRange ==
  ASSUME NEW k \in Nat \ {0}
  PROVE  (CHOOSE n \in 1 .. k : \A m \in 1 .. k : m <= n) = k
<1> DEFINE IsMax(n) == n \in 1 .. k /\ \A m \in 1 .. k : m <= n
<1>1. IsMax(k)
  OBVIOUS
<1>2. \A n : IsMax(n) => n = k
  BY <1>1
<1> QED
  BY <1>1, <1>2

\* The number after the next one.
LEMMA NumberAfter ==
  ASSUME NEW k \in Nat, DOMAIN version' = 1 .. (k + 1)
  PROVE  NextVersionNumber' = k + 2
<1>1. k + 1 \in Nat \ {0} /\ k + 1 \in 1 .. (k + 1)
  OBVIOUS
<1>2. (CHOOSE n \in 1 .. (k + 1) : \A m \in 1 .. (k + 1) : m <= n) = k + 1
  BY <1>1, GreatestOfRange
<1> QED
  BY <1>1, <1>2 DEF NextVersionNumber

\* What a missing latest version, and a missing file, amount to.
LEMMA LatestIsRead ==
  ASSUME Safe, IsLatest(file) PROVE IsLatest(ActiveText)
<1>1. CASE file # None
  BY <1>1 DEF ActiveText
<1>2. CASE file = None
  <2>1. PICK k \in Nat : DOMAIN version = 1 .. k
    BY DEF Safe, Dense
  <2>2. CASE k = 0
    BY <1>2, <2>1, <2>2 DEF IsLatest, ActiveText
  <2>3. CASE k # 0
    <3>1. NextVersionNumber = k + 1 /\ k \in DOMAIN version
      BY <2>1, <2>3, NextNumber
    <3>2. version[k] \in Contents
      BY <3>1 DEF Safe, TypeOK
    <3>3. file = version[k]
      BY <3>1, <2>1 DEF IsLatest
    <3> QED
      BY <1>2, <3>2, <3>3, ApplyAssumption
  <2> QED
    BY <2>2, <2>3
<1> QED
  BY <1>1, <1>2

\* The reading of the property that the steps use.
LEMMA QuietReads ==
  /\ QuietFileIsLatest <=>
       (calm /\ InFlight = {} => IsLatest(file) /\ running \in {file, None})
  /\ QuietFileIsLatest' <=>
       (calm' /\ InFlight' = {} => IsLatest(file)' /\ running' \in {file', None})
BY DEF QuietFileIsLatest, IsLatest

\* A request that was not disturbed, while all was calm before it, keeps what it would
\* go back to, and leaves the latest version behind.
LEMMA CalmWork ==
  ASSUME Safe, Watched, Company, NEW r \in Requests, Work(r), alone[r], Undisturbed(r),
         calm, Calm(r), calm', ~CommitVersion(r)
  PROVE  /\ r \in InFlight' => Calm(r)'
         /\ r \notin InFlight' => IsLatest(file)' /\ running' \in {file', None}
<1>type. /\ pc \in [Requests -> Places] /\ request \in [Requests -> Locals]
  BY DEF Safe, TypeOK
<1>1. CASE Validate(r)
  <2>1. /\ pc[r] = "check" /\ pc'[r] \in {"write", "rejected"}
        /\ UNCHANGED <<file, running, version>>
    BY <1>1, <1>type DEF Validate, End, Goto, store
  <2>2. IsLatest(file) /\ running \in {file, None}
    BY <2>1 DEF Calm, Reading
  <2>3. IsLatest(file)'
    BY <2>1, <2>2 DEF IsLatest, NextVersionNumber
  <2> QED
    BY <2>1, <2>2, <2>3 DEF Calm, Reading, InFlight, Ended
<1>2. CASE BackUp(r)
  <2>1. /\ pc[r] = "write" /\ pc'[r] = "fill" /\ UNCHANGED <<running, version, request>>
    BY <1>2, <1>type DEF BackUp, Goto
  <2>2. /\ IsLatest(file) /\ running \in {file, None}
        /\ request[r].previous = ActiveText
    BY <2>1 DEF Calm, Undisturbed, Reading
  <2>3. IsLatest(request[r].previous) /\ running \in {request[r].previous, None}
    BY <2>2, LatestIsRead DEF ActiveText
  <2>4. IsLatest(request[r].previous)'
    BY <2>1, <2>3 DEF IsLatest, NextVersionNumber
  <2>5. pc'[r] \notin Reading /\ r \in InFlight'
    BY <2>1 DEF Reading, InFlight, Ended
  <2> QED
    BY <2>1, <2>3, <2>4, <2>5 DEF Calm
\* From here on what it goes back to does not change.
<1>3. CASE ~Validate(r) /\ ~BackUp(r)
  <2>1. pc[r] \notin Reading
    BY <1>3
    DEF Work, WriteConfigFile, CreateBaselineRow, RecordApplied, RecordTimesOut, Reload,
        Restart, CheckHealth, CommitVersion, CommitFails, UndoBegin, UndoFile, UndoReload,
        UndoRestart, SystemctlTimesOut, Reading
  <2>2. IsLatest(request[r].previous) /\ UNCHANGED version
    BY <1>3, <2>1
    DEF Calm, Work, WriteConfigFile, CreateBaselineRow, RecordApplied, RecordTimesOut, Reload,
        Restart, CheckHealth, CommitFails, UndoBegin, UndoFile, UndoReload,
        UndoRestart, SystemctlTimesOut, store
  <2>4. CASE WriteConfigFile(r) \/ CreateBaselineRow(r) \/ RecordApplied(r)
    <3>1. /\ request'[r].previous = request[r].previous /\ UNCHANGED running
          /\ pc'[r] \in {"record", "reload"} /\ pc[r] \in {"fill", "record"}
      BY <2>4, <1>type DEF WriteConfigFile, CreateBaselineRow, RecordApplied, Goto, Locals
    <3>2. IsLatest(request[r].previous)'
      BY <2>2, <3>1 DEF IsLatest, NextVersionNumber
    <3> QED
      BY <2>1, <3>1, <3>2, WorkEffect DEF Calm, Reading, InFlight, Ended, Safe
  <2>5. CASE RecordTimesOut(r)
    BY <2>5, WorkEffect, GateIsFree DEF RecordTimesOut, Safe
  <2>6. CASE Reload(r) \/ Restart(r) \/ CheckHealth(r) \/ UndoBegin(r) \/ UndoFile(r)
    <3>1. /\ UNCHANGED request
          /\ \/ pc'[r] \in {"health", "commit"}
             \/ /\ pc'[r] \in {"restart", "undo", "undo fill", "undo reload"}
                /\ \/ running' = None
                   \/ /\ running' = running
                      /\ pc[r] \in {"reload", "restart", "undo", "undo fill"}
      BY <2>6, <1>type DEF Reload, Restart, CheckHealth, UndoBegin, UndoFile, Goto, store
    <3>2. running' \in {request[r].previous, None} \/ pc'[r] \in {"health", "commit"}
      BY <3>1 DEF Calm, Reading
    <3>3. IsLatest(request[r].previous)'
      BY <2>2, <3>1 DEF IsLatest, NextVersionNumber
    <3> QED
      BY <3>1, <3>2, <3>3, <1>type DEF Calm, Reading, InFlight, Ended
  <2>7. CASE UndoReload(r) \/ UndoRestart(r)
    <3>1. /\ file = request[r].previous /\ running \in {file, None} /\ file' = file
      BY <2>7 DEF UndoReload, UndoRestart, Calm, Undisturbed, Reading
    <3>2. /\ running' \in {file, None}
          /\ \/ pc'[r] = "failed"
             \/ pc'[r] = "undo restart" /\ UNCHANGED request
      BY <2>7, <3>1, <1>type DEF UndoReload, UndoRestart, Goto, End, Loaded
    <3>3. IsLatest(file)'
      BY <2>2, <3>1 DEF IsLatest, NextVersionNumber
    <3> QED
      BY <3>1, <3>2, <3>3, <1>type DEF Calm, Reading, InFlight, Ended
  <2>8. CASE CommitFails(r) \/ SystemctlTimesOut(r)
    BY <2>8 DEF CommitFails, SystemctlTimesOut
  <2> QED
    BY <1>3, <2>4, <2>5, <2>6, <2>7, <2>8 DEF Work
<1> QED
  BY <1>1, <1>2, <1>3

\* Its version becomes the latest.
LEMMA CalmCommit ==
  ASSUME Safe, NEW r \in Requests, r \in InFlight, CommitVersion(r), Undisturbed(r)
  PROVE  IsLatest(file)' /\ running' \in {file', None}
<1>1. PICK k \in Nat : DOMAIN version = 1 .. k
  BY DEF Safe, Dense
<1>2. NextVersionNumber = k + 1 /\ request[r].number = k + 1
  BY <1>1, NextNumber DEF Undisturbed
<1>3. /\ pc[r] = "commit" /\ file = request[r].text /\ running = request[r].text
      /\ UNCHANGED <<file, running>>
  BY DEF CommitVersion, Undisturbed, Written
<1>4. version' = [n \in DOMAIN version \cup {k + 1} |->
                    IF n = k + 1 THEN request[r].text ELSE version[n]]
  BY <1>2 DEF CommitVersion
<1>5. DOMAIN version' = 1 .. (k + 1) /\ version'[k + 1] = request[r].text
  <2>1. (1 .. k) \cup {k + 1} = 1 .. (k + 1)
    OBVIOUS
  <2> QED
    BY <1>1, <1>4, <2>1
<1>6. NextVersionNumber' - 1 = k + 1 /\ DOMAIN version' # {}
  BY <1>5, NumberAfter
<1> QED
  BY <1>3, <1>5, <1>6 DEF IsLatest

\* Calm lasts as long as one undisturbed request follows the other.
LEMMA CalmStep ==
  ASSUME Safe, Watched, Company, AllUndisturbed, CalmIsLatest, [Next]_vars
  PROVE  CalmIsLatest'
<1>type. /\ pc \in [Requests -> Places] /\ request \in [Requests -> Locals]
  BY DEF Safe, TypeOK
<1> SUFFICES ASSUME calm'
             PROVE  /\ InFlight' = {} => IsLatest(file)' /\ running' \in {file', None}
                    /\ \A r \in InFlight' : Calm(r)'
  BY QuietReads DEF CalmIsLatest
<1>1. ASSUME NEW r \in Requests, NEW text, Begin(r, text)
      PROVE  /\ InFlight' # {}
             /\ \A s \in InFlight' : Calm(s)'
  <2>1. InFlight = {} /\ calm
    BY <1>1 DEF Begin
  <2>2. IsLatest(file) /\ running \in {file, None}
    BY <2>1, QuietReads DEF CalmIsLatest
  <2>3. pc' = [pc EXCEPT ![r] = "check"] /\ UNCHANGED <<file, running, version>>
    BY <1>1 DEF Begin, Goto, store
  <2>4. InFlight' = {r}
    BY <2>1, <2>3, <1>type DEF InFlight, Ended
  <2>5. IsLatest(file)'
    BY <2>2, <2>3 DEF IsLatest, NextVersionNumber
  <2> QED
    BY <2>2, <2>3, <2>4, <2>5, <1>type DEF Calm, Reading
<1>2. ASSUME NEW r \in Requests, Work(r)
      PROVE  /\ InFlight' = {} => IsLatest(file)' /\ running' \in {file', None}
             /\ \A s \in InFlight' : Calm(s)'
  <2>1. r \in InFlight /\ (InFlight' = InFlight \/ InFlight' = InFlight \ {r})
    BY <1>2, WorkEffect DEF Safe
  <2>2. alone[r]
    <3>1. CASE CommitVersion(r)
      BY <3>1, <2>1 DEF CommitVersion, Company
    <3>2. CASE ~CommitVersion(r)
      <4>1. calm
        BY <1>2, <3>2
        DEF Work, Validate, BackUp, WriteConfigFile, CreateBaselineRow, RecordApplied,
            RecordTimesOut, Reload, Restart, CheckHealth, CommitFails, UndoBegin, UndoFile,
            UndoReload, UndoRestart, SystemctlTimesOut, history
      <4> QED
        BY <4>1, <2>1 DEF Company
    <3> QED
      BY <3>1, <3>2
  <2>3. InFlight = {r} /\ Undisturbed(r)
    BY <2>1, <2>2 DEF Company, AllUndisturbed
  <2>4. CASE CommitVersion(r)
    <3>1. InFlight' = {}
      BY <2>1, <2>3, <2>4, <1>type DEF CommitVersion, End, Goto, InFlight, Ended
    <3> QED
      BY <3>1, <2>1, <2>3, <2>4, CalmCommit
  <2>5. CASE ~CommitVersion(r)
    <3>1. calm
      BY <1>2, <2>5
      DEF Work, Validate, BackUp, WriteConfigFile, CreateBaselineRow, RecordApplied,
          RecordTimesOut, Reload, Restart, CheckHealth, CommitFails, UndoBegin, UndoFile,
          UndoReload, UndoRestart, SystemctlTimesOut, history
    <3>2. Calm(r)
      BY <3>1, <2>1 DEF CalmIsLatest
    <3>3. /\ r \in InFlight' => Calm(r)'
          /\ r \notin InFlight' => IsLatest(file)' /\ running' \in {file', None}
      BY <1>2, <2>2, <2>3, <2>5, <3>1, <3>2, CalmWork
    <3> QED
      BY <2>1, <2>3, <3>3
  <2> QED
    BY <2>4, <2>5
<1>3. CASE EditOutside \/ Die
  BY <1>3 DEF EditOutside, Die
<1>4. CASE DaemonStops \/ DaemonStarts
  <2>1. calm /\ InFlight = {} /\ UNCHANGED <<file, version, pc>> /\ running' \in {Loaded, None}
    BY <1>4 DEF DaemonStops, DaemonStarts, Disturb
  <2>2. InFlight' = {}
    BY <2>1 DEF InFlight
  <2>3. IsLatest(file) /\ running' \in {file, None}
    BY <2>1, QuietReads DEF CalmIsLatest, Loaded
  <2>4. IsLatest(file)'
    BY <2>1, <2>3 DEF IsLatest, NextVersionNumber
  <2> QED
    BY <2>1, <2>2, <2>3, <2>4
<1>5. CASE CheckIntegrity \/ UNCHANGED vars
  <2>1. UNCHANGED <<file, running, version, pc, request, calm>>
    BY <1>5 DEF CheckIntegrity, vars
  <2>2. InFlight' = InFlight
    BY <2>1 DEF InFlight
  <2>3. \A x : IsLatest(x)' <=> IsLatest(x)
    BY <2>1 DEF IsLatest, NextVersionNumber
  <2>4. InFlight = {} => IsLatest(file) /\ running \in {file, None}
    BY <2>1, QuietReads DEF CalmIsLatest
  <2>5. IsLatest(file)' <=> IsLatest(file)
    BY <2>1 DEF IsLatest, NextVersionNumber
  <2>6. ASSUME NEW r \in InFlight PROVE Calm(r)'
    BY <2>1, <2>6 DEF CalmIsLatest, Calm, IsLatest, NextVersionNumber
  <2> QED
    BY <2>1, <2>2, <2>4, <2>5, <2>6
<1> QED
  BY <1>1, <1>2, <1>3, <1>4, <1>5 DEF Next, ApplyConfig, RestoreVersion, ApplyImport

-----------------------------------------------------------------------------
(* The theorems *)

\* A new installation, with the installer's file or none.
LEMMA TrustInit == Init => Trustworthy
<1> SUFFICES ASSUME Init PROVE Trustworthy
  OBVIOUS
<1>1. InFlight = {}
  BY DEF Init, InFlight
<1>2. Watched
  BY DEF Init, Watched, GateFollowsPlace, DifferenceHasCause, OverwrittenHasCause,
         AlarmHasCause, NoRow, NoLocals
<1>3. Company /\ AllUndisturbed
  BY <1>1 DEF Init, Company, AllUndisturbed
<1>4. CalmIsLatest
  <2>1. IsLatest(file) /\ running \in {file, None}
    BY DEF Init, IsLatest
  <2> QED
    BY <1>1, <2>1, QuietReads DEF CalmIsLatest
<1> QED
  BY <1>2, <1>3, <1>4, SafeInit DEF Trustworthy

\* The parts together are inductive.
LEMMA TrustStep == Trustworthy /\ [Next]_vars => Trustworthy'
<1> SUFFICES ASSUME Trustworthy, [Next]_vars PROVE Trustworthy'
  OBVIOUS
<1> USE DEF Trustworthy
<1>1. TypeOK
  BY DEF Safe
<1>2. Watched'
  <2>1. ASSUME NEW r \in Requests, ApplyConfig(r) \/ RestoreVersion(r) \/ ApplyImport(r)
        PROVE  Watched'
    BY <1>1, <2>1, WatchedBegin DEF ApplyConfig, RestoreVersion, ApplyImport
  <2> QED
    BY <1>1, <2>1, WatchedWork, WatchedAround DEF Next
<1>3. Company'
  BY <1>1, CompanyStep
<1> QED
  BY <1>2, <1>3, SafeStep, UndisturbedStep, CalmStep

\* Hence they hold in every state.
LEMMA TrustAlways == Spec => []Trustworthy
BY TrustInit, TrustStep, PTL DEF Spec

\* The file of a quiet installation is its latest version, and the watch reports a
\* modified file only for a reason, for any number of requests that run beside each
\* other, fail, are edited around or die.
THEOREM FileIsTrusted == Spec => []FileCanBeTrusted
<1>1. Trustworthy => FileCanBeTrusted
  BY DEF Trustworthy, FileCanBeTrusted, CalmIsLatest, Watched
<1> QED
  BY <1>1, TrustAlways, PTL

\* What an undisturbed request answers is true of the file, the daemon, the baseline
\* and the backup.
THEOREM AnswersTrue == Spec => AnswersAreTrue
<1> DEFINE Answer(r) ==
      alone[r] /\ pc'[r] # pc[r] =>
        /\ pc'[r] = "applied" =>
             /\ request[r].text = file /\ file = running
             /\ baseline = Trusted(file)
             /\ request[r].previous # Empty =>
                  backup[request[r].number - 1] = request[r].previous
        /\ pc'[r] = "failed" =>
             /\ file = request[r].previous
             /\ calm => running' \in {file, None}
<1>1. ASSUME Trustworthy, [Next]_vars, NEW r \in Requests PROVE Answer(r)
  <2>type. pc \in [Requests -> Places]
    BY <1>1 DEF Trustworthy, Safe, TypeOK
  <2> SUFFICES ASSUME alone[r], pc'[r] # pc[r], pc'[r] \in {"applied", "failed"}
               PROVE  /\ pc'[r] = "applied" =>
                           /\ request[r].text = file /\ file = running
                           /\ baseline = Trusted(file)
                           /\ request[r].previous # Empty =>
                                backup[request[r].number - 1] = request[r].previous
                      /\ pc'[r] = "failed" =>
                           /\ file = request[r].previous
                           /\ calm => running' \in {file, None}
    OBVIOUS
  <2>1. Work(r)
    <3>1. ASSUME NEW q \in Requests, NEW text, Begin(q, text) PROVE FALSE
      BY <3>1, <2>type DEF Begin, Goto
    <3>2. ASSUME NEW q \in Requests, Work(q) PROVE q = r
      BY <1>1, <3>2, WorkEffect DEF Trustworthy, Safe
    <3>3. pc' # pc
      OBVIOUS
    <3>4. ~(CheckIntegrity \/ EditOutside \/ DaemonStops \/ DaemonStarts \/ UNCHANGED vars)
      BY <3>3 DEF CheckIntegrity, EditOutside, DaemonStops, DaemonStarts, vars
    <3>5. ~Die
      BY <2>type DEF Die
    <3> QED
      BY <1>1, <3>1, <3>2, <3>4, <3>5 DEF Next, ApplyConfig, RestoreVersion, ApplyImport
  <2>2. r \in InFlight /\ Undisturbed(r) /\ (calm => Calm(r))
    BY <1>1, <2>1, WorkEffect DEF Trustworthy, Safe, AllUndisturbed, CalmIsLatest
  <2>3. CASE pc'[r] = "applied"
    <3>1. pc[r] = "commit"
      BY <2>1, <2>3, <2>type
      DEF Work, Validate, BackUp, WriteConfigFile, CreateBaselineRow, RecordApplied,
          RecordTimesOut, Reload, Restart, CheckHealth, CommitVersion, CommitFails, UndoBegin,
          UndoFile, UndoReload, UndoRestart, SystemctlTimesOut, Goto, End
    <3> QED
      BY <2>2, <2>3, <3>1 DEF Undisturbed, Reading, Written, Trusting
  <2>4. CASE pc'[r] = "failed"
    <3>1. UndoReload(r) \/ UndoRestart(r)
      BY <2>1, <2>4, <2>type
      DEF Work, Validate, BackUp, WriteConfigFile, CreateBaselineRow, RecordApplied,
          RecordTimesOut, Reload, Restart, CheckHealth, CommitVersion, CommitFails, UndoBegin,
          UndoFile, SystemctlTimesOut, Goto, End
    <3>2. file = request[r].previous
      BY <2>2, <3>1 DEF UndoReload, UndoRestart, Undisturbed
    <3>3. calm => running \in {file, None}
      BY <2>2, <3>1, <3>2 DEF UndoReload, UndoRestart, Calm, Reading
    <3>4. calm => running' \in {file, None}
      BY <3>1, <3>3 DEF UndoReload, UndoRestart, Loaded
    <3> QED
      BY <2>4, <3>2, <3>4
  <2> QED
    BY <2>3, <2>4
<1>2. Trustworthy /\ [Next]_vars => [\A r \in Requests : Answer(r)]_vars
  BY <1>1
<1> QED
  BY <1>2, TrustAlways, PTL DEF Spec, AnswersAreTrue
=============================================================================
