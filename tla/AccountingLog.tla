---------------------------- MODULE AccountingLog ----------------------------
(***************************************************************************)
(* What the pages say of the daemon's logs: services/accounting_log.py and *)
(* api/routes_accounting.py, over what devices make the daemon write.      *)
(*                                                                         *)
(* A page reads the last lines of a log and keeps those it can parse.  A   *)
(* session is put together from the accounting lines of one device and     *)
(* port, in their order.  The lines carry no session identifier, a device  *)
(* that restarts writes no stop, and a command is accounted with a stop of *)
(* its own.  Filters by text, paging and the masking of credentials are    *)
(* left out.                                                               *)
(***************************************************************************)
EXTENDS Shared, Integers, FiniteSets, Functions, Sequences

CONSTANTS
  Lines,      \* pairs of a device and a port a user may log in on
  Users,
  Commands,
  Decisions,  \* what the daemon writes of a decision; "" when it writes nothing
  Permits,    \* those that start with "permit"
  Splitting,  \* the commands with the field separator "::" in them, as in an IPv6 address
  TailLimit,  \* lines a page reads
  Hour,       \* clock ticks of an hour
  Hours,      \* hours of the dashboard's window
  EventLimit  \* bound: events at the devices

ASSUME LogAssumption ==
  /\ TailLimit \in Nat /\ Hours \in Nat /\ Hour \in Nat \ {0}
  /\ None \notin Lines \cup Commands \cup Nat
  /\ None \notin [user : Users, run : Seq(Commands), start : Nat]
  /\ None \notin [user : Users, run : Seq(Commands), start : Nat, events : Nat]

ASSUME PermitAssumption ==
  Permits \subseteq Decisions \ {""} /\ ("permit" \in Decisions => "permit" \in Permits)

VARIABLES
  access,     \* tac_plus-ng-access.log
  auth,       \* tac_plus-ng-authorization.log
  accounting, \* tac_plus-ng-accounting.log
  live,       \* who is really logged in on a line, and the commands run there, less the splitting
  silent,     \* history: lines whose last session ended without a stop
  clock,
  events      \* events so far

logVars == <<access, auth, accounting, live, silent, clock, events>>

-----------------------------------------------------------------------------
(* What the daemon writes *)

Line(l, user, kind, result, cmd) ==
  [parsed |-> TRUE, at |-> clock, line |-> l, user |-> user, kind |-> kind,
   result |-> result, cmd |-> cmd]
\* A line of another shape, with or without a timestamp at its start.
Odd(at) ==
  [parsed |-> FALSE, at |-> at, line |-> None, user |-> None, kind |-> "", result |-> "", cmd |-> None]
\* _parse_line finds a field too many and takes the last eight for the eight it knows: the user
\* stands for the device, the remote address for the port, the result for the kind.
Shifted(cmd) ==
  [parsed |-> TRUE, at |-> clock, line |-> None, user |-> None, kind |-> "", result |-> "", cmd |-> cmd]

InitLogs ==
  /\ access = <<>> /\ auth = <<>> /\ accounting = <<>>
  /\ live = [l \in Lines |-> None]
  /\ silent = {} /\ clock = 0 /\ events = 0

\* A wrong password reaches the access log alone.
RefusedLogin(l, user) ==
  /\ live[l] = None
  /\ access' = Append(access, Line(l, user, "", "failed", None))
  /\ UNCHANGED <<auth, accounting, live, silent, clock>>

\* A right one is followed by the decision on the shell, and by a start if it is permitted.
\* A line whose stop was lost is free for the next user.
LogIn(l, user, result) ==
  /\ live[l] = None
  /\ access' = Append(access, Line(l, user, "", "succeeded", None))
  /\ auth' = Append(auth, Line(l, user, "", result, None))
  /\ IF result \in Permits
     THEN /\ accounting' = Append(accounting, Line(l, user, "start", "", None))
          /\ live' = [live EXCEPT ![l] = [user |-> user, run |-> <<>>, start |-> Len(accounting) + 1]]
          /\ silent' = silent \ {l}
     ELSE UNCHANGED <<accounting, live, silent>>
  /\ UNCHANGED clock

\* A command is authorized, and accounted if it ran.  Only the accounting log separates its fields
\* by what a command may hold.
Authorize(l, cmd, result) ==
  /\ live[l] # None
  /\ auth' = Append(auth, Line(l, live[l].user, "", result, cmd))
  /\ UNCHANGED <<access, silent, clock>>

Run(l, cmd, result) ==
  /\ cmd \notin Splitting \/ result \notin Permits
  /\ Authorize(l, cmd, result)
  /\ IF result \in Permits
     THEN /\ accounting' = Append(accounting, Line(l, live[l].user, "stop", "", cmd))
          /\ live' = [live EXCEPT ![l].run = Append(@, cmd)]
     ELSE UNCHANGED <<accounting, live>>

RunSplitting(l, cmd, result) ==
  /\ cmd \in Splitting /\ result \in Permits
  /\ Authorize(l, cmd, result)
  /\ accounting' = Append(accounting, Shifted(cmd))
  /\ UNCHANGED live

Logout(l) ==
  /\ live[l] # None
  /\ accounting' = Append(accounting, Line(l, live[l].user, "stop", "", None))
  /\ live' = [live EXCEPT ![l] = None]
  /\ UNCHANGED <<access, auth, silent, clock>>

\* The device restarts, or its stop is lost on the way.
Vanish(l) ==
  /\ live[l] # None
  /\ live' = [live EXCEPT ![l] = None]
  /\ silent' = silent \cup {l}
  /\ UNCHANGED <<access, auth, accounting, clock>>

WriteOdd ==
  /\ \E at \in {clock, None} :
       \/ auth' = Append(auth, Odd(at)) /\ UNCHANGED accounting
       \/ accounting' = Append(accounting, Odd(at)) /\ UNCHANGED auth
  /\ UNCHANGED <<access, live, silent, clock>>

PassTime ==
  /\ clock' = clock + 1
  /\ UNCHANGED <<access, auth, accounting, live, silent>>

NextLogs ==
  /\ events < EventLimit /\ events' = events + 1
  /\ \/ \E l \in Lines, user \in Users : RefusedLogin(l, user)
     \/ \E l \in Lines, user \in Users, result \in Decisions : LogIn(l, user, result)
     \/ \E l \in Lines, cmd \in Commands, result \in Decisions :
          Run(l, cmd, result) \/ RunSplitting(l, cmd, result)
     \/ \E l \in Lines : Logout(l) \/ Vanish(l)
     \/ WriteOdd
     \/ PassTime

SpecLogs == InitLogs /\ [][NextLogs]_logVars

-----------------------------------------------------------------------------
(* Sessions; a record is named by its place in its log *)

FirstRead(log) == Len(log) - TailLimit + 1
Latest(log)    == {i \in DOMAIN log : i >= FirstRead(log)}
ParsedIn(log)  == {i \in Latest(log) : log[i].parsed}

NoSession == [open |-> None, closed |-> <<>>]
Begin(r) == [user |-> r.user, run |-> <<>>, start |-> r.at, events |-> 1]
Close(session, stop) == [session |-> session, stop |-> stop]

\* Variant with a fault: any stop ends the session, a command's too.
AnyStopEnds(s, r) ==
  IF r.kind = "start"
  THEN [open |-> Begin(r),
        closed |-> IF s.open = None THEN s.closed ELSE Append(s.closed, Close(s.open, None))]
  ELSE IF s.open = None THEN s
  ELSE IF r.kind = "stop"
  THEN [open |-> None, closed |-> Append(s.closed, Close(s.open, r.at))]
  ELSE [s EXCEPT !.open.run = Append(@, r.cmd)]

\* One record of a line: a start opens a session and flushes one left open; a
\* record with a command is part of it; a stop without one closes it.
Absorb(s, r) ==
  IF r.kind = "start"
  THEN [open |-> Begin(r),
        closed |-> IF s.open = None THEN s.closed ELSE Append(s.closed, Close(s.open, None))]
  ELSE IF s.open = None THEN s
  ELSE LET more == [s.open EXCEPT !.events = @ + 1,
                                  !.run = IF r.cmd = None THEN @ ELSE Append(@, r.cmd)]
       IN  IF r.kind = "stop" /\ r.cmd = None
           THEN [open |-> None, closed |-> Append(s.closed, Close(more, r.at))]
           ELSE [s EXCEPT !.open = more]

\* group_into_sessions over the records of list_sessions, oldest first: what has become of line l
\* after each record, when the first one read is `first`.
SessionsFrom(log, l, first) ==
  LET after[i \in 0..Len(log)] ==
        IF i = 0 \/ i < first THEN NoSession
        ELSE IF log[i].parsed /\ log[i].line = l THEN Absorb(after[i - 1], log[i])
        ELSE after[i - 1]
  IN  after
SessionsOn(l) == SessionsFrom(accounting, l, FirstRead(accounting))[Len(accounting)]

-----------------------------------------------------------------------------
(* Dashboard and events *)

\* read_auth_records, without the logins.
CommandRecords == {i \in Latest(auth) : auth[i].cmd # None}

WindowStart == clock - Hours * Hour

\* activity_window: what has a timestamp within the last hours.
ActivityWindow(records) ==
  {i \in records : /\ auth[i].parsed /\ auth[i].at # None
                   /\ WindowStart <= auth[i].at /\ auth[i].at <= clock}

\* compute_hourly_activity: one bucket for every hour the window touches.
HourOf(at) == at - (at % Hour)
Buckets == {h \in HourOf(WindowStart)..HourOf(clock) : HourOf(h) = h}
HourlyActivity(records) ==
  [b \in Buckets |-> Cardinality({i \in records : HourOf(auth[i].at) = b})]

\* compute_health_and_failure_stats: no result is no signal, and a permit is the word alone.
FailureStats(records) ==
  [total     |-> Cardinality(records),
   permit    |-> Cardinality({i \in records : auth[i].result = "permit"}),
   nonPermit |-> Cardinality({i \in records : auth[i].result \notin {"", "permit"}})]

Health ==
  LET selected == ActivityWindow(CommandRecords)
  IN  [stats |-> FailureStats(selected), hourly |-> HourlyActivity(selected)]

\* login_outcome: a permit is whatever starts with the word.
LoginOutcome(r) ==
  IF r.result = "" THEN "unknown" ELSE IF r.result \in Permits THEN "success" ELSE "failure"

\* list_access_events(kind, since): counted before the filter on the outcome.
Events(kind, since) ==
  {i \in ParsedIn(auth) : /\ (kind = "login") => auth[i].cmd = None
                          /\ (kind = "command") => auth[i].cmd # None
                          /\ auth[i].at # None /\ auth[i].at >= since}
Counts(records) ==
  [o \in {"success", "failure", "unknown"} |->
     Cardinality({i \in records : LoginOutcome(auth[i]) = o})]

\* _authentication_events over the access log, AccessRecord.outcome.
Authentications ==
  [success |-> Cardinality({i \in ParsedIn(access) : access[i].result = "succeeded"}),
   failure |-> Cardinality({i \in ParsedIn(access) : access[i].result = "failed"})]

\* recent_activity: devices' users with an accounting event since the cutoff, the latest of each.
RecentActivity(cutoff) ==
  {<<accounting[i].line, accounting[i].user>> :
     i \in {j \in ParsedIn(accounting) : accounting[j].at >= cutoff}}

-----------------------------------------------------------------------------
(* Properties *)

\* A login that is really open, and whose start is among the lines read, is shown
\* active with its user and every command it ran, in order; none is shown active on a line
\* that nobody uses, unless the last session there ended without a stop.  The exception is
\* a command with "::" in it (Splitting), whose record leaves the session: _parse_line
\* (accounting_log.py:188) files it under a device that is really the user's name.
SessionsFollowTheLog ==
  \A l \in Lines :
    LET shown == SessionsOn(l).open
        read  == live[l] # None /\ live[l].start > Len(accounting) - TailLimit
    IN  /\ read => shown # None /\ shown.user = live[l].user /\ shown.run = live[l].run
        /\ live[l] = None /\ l \notin silent => shown = None
        /\ shown # None /\ live[l] # None => <<l, live[l].user>> \in RecentActivity(shown.start)

\* The decisions the two pages take differently: a permit that is more than the word.
Qualified(records) == {i \in records : auth[i].result \in Permits \ {"permit"}}

\* The dashboard's numbers are those of the list of events over the same window: in total, summed
\* over the hours, and by outcome, where the two pages part over exactly the Qualified permits: a
\* success to login_outcome (accounting_log.py:395), no permit to the statistics (:662).  A shell
\* decision is never recorded without an authentication that went through.
DashboardAgreesWithEvents ==
  LET listed == Events("command", WindowStart)
      health == Health
      parted == Cardinality(Qualified(listed))
  IN  /\ health.stats.total = Cardinality(listed)
      /\ health.stats.permit + parted = Counts(listed)["success"]
      /\ health.stats.nonPermit = Counts(listed)["failure"] + parted
      /\ SumFunction(health.hourly) = Cardinality(listed)
      /\ Len(access) <= TailLimit =>
           Cardinality(Events("login", 0)) <= Authentications.success

\* The pages over the logs agree with what happened and with each other, but for what the two
\* parts name.
PagesFollowTheLogs == SessionsFollowTheLog /\ DashboardAgreesWithEvents
=============================================================================
