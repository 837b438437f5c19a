----------------------------- MODULE ClientWatch -----------------------------
(***************************************************************************)
(* Clients that contact the platform and are not in the inventory:         *)
(* services/tacacs_watch.py, a process of its own that watches packets and *)
(* publishes a file, and services/unknown_devices.py, which reads the file *)
(* and the daemon's three logs.                                            *)
(*                                                                         *)
(* A line of a log is what the search sees of it: the client's address if  *)
(* the parser finds it in its field, and every address in the text, which  *)
(* includes that of the user's workstation.  Addresses are IPv4 ones: the  *)
(* search sees no others.                                                  *)
(***************************************************************************)
EXTENDS Shared, Integers, FiniteSets, Functions, SequencesExt

CONSTANTS
  Clients,    \* addresses of devices
  Stations,   \* addresses of the users' workstations
  Protocols,  \* ports watched: TACACS+ and RADIUS
  Logs,       \* the daemon's logs
  SearchLimit, \* lines of each log the search reads
  MaxTracked, \* observations the watcher keeps
  WatchLimit  \* bound: packets, lines and inventory changes

ASSUME WatchAssumption ==
  /\ IsFiniteSet(Logs) /\ SearchLimit \in Nat /\ MaxTracked \in Nat \ {0}
  /\ None \notin Clients

VARIABLES
  inventoried, \* addresses the inventory covers, by an entry or by a network
  written,    \* lines of each log
  seen,       \* the watcher's observations, the oldest first: [ip, protocol, count]
  published,  \* observed-clients.json, the latest first
  last,       \* history: the client of the latest packet this watcher has published
  moves       \* packets, lines and changes so far

watchVars == <<inventoried, written, seen, published, last, moves>>

-----------------------------------------------------------------------------
(* The watcher *)

InitWatch ==
  /\ inventoried \in SUBSET Clients
  /\ written = [l \in Logs |-> <<>>]
  /\ seen = <<>> /\ published = <<>> /\ last = None /\ moves = 0

\* _parse_ipv4_packet has found the first packet of a connection, or a RADIUS request.
Observe(ip, protocol) ==
  /\ \/ \E i \in DOMAIN seen :
          /\ seen[i].ip = ip /\ seen[i].protocol = protocol
          /\ seen' = Append(RemoveAt(seen, i), [seen[i] EXCEPT !.count = @ + 1])
     \/ /\ \A i \in DOMAIN seen : <<seen[i].ip, seen[i].protocol>> # <<ip, protocol>>
        /\ seen' = Append(seen, [ip |-> ip, protocol |-> protocol, count |-> 1])
  /\ UNCHANGED <<inventoried, written, published, last>>

\* _prune: the oldest are not seen for seven days, then the latest MAX_TRACKED stay.
Prune(stale) ==
  LET kept == SubSeq(seen, stale + 1, Len(seen))
  IN  IF Len(kept) > MaxTracked
      THEN SubSeq(kept, Len(kept) - MaxTracked + 1, Len(kept)) ELSE kept

\* Every five seconds, and at once after a start; the file may fail to be written.
Publish(stale) ==
  /\ seen' = Prune(stale)
  /\ \/ /\ published' = Reverse(seen')
        /\ last' = IF stale = Len(seen) THEN None ELSE Last(seen).ip
     \/ UNCHANGED <<published, last>>
  /\ UNCHANGED <<inventoried, written, moves>>

\* The watcher's unit restarts: it starts from nothing, and its file stays until it publishes.
RestartWatcher ==
  /\ seen' = <<>> /\ last' = None
  /\ UNCHANGED <<inventoried, written, published>>

\* The file is written to the side and moved into place: a reader finds none, or a whole one.
ReadObserved == published

-----------------------------------------------------------------------------
(* The logs and the inventory *)

\* The daemon writes of a client, in the layout the parser knows or another.
Write(l, ip, station, parsed) ==
  /\ written' = [written EXCEPT ![l] =
                   Append(@, [nas |-> IF parsed THEN ip ELSE None, text |-> {ip, station}])]
  /\ UNCHANGED <<inventoried, seen, published, last>>

\* A device is added, adopted from the list included, or deleted.
EditInventory(ip) ==
  /\ inventoried' = IF ip \in inventoried THEN inventoried \ {ip} ELSE inventoried \cup {ip}
  /\ UNCHANGED <<written, seen, published, last>>

NextWatch ==
  \/ /\ moves < WatchLimit /\ moves' = moves + 1
     /\ \/ \E ip \in Clients, protocol \in Protocols : Observe(ip, protocol)
        \/ \E l \in Logs, ip \in Clients, station \in Stations, parsed \in BOOLEAN :
             Write(l, ip, station, parsed)
        \/ \E ip \in Clients : EditInventory(ip)
        \/ RestartWatcher
  \/ \E stale \in 0..Len(seen) : Publish(stale)

SpecWatch == InitWatch /\ [][NextWatch]_watchVars

-----------------------------------------------------------------------------
(* find_unknown *)

\* The places of the last lines.
LatestLines(l) == {i \in DOMAIN written[l] : i > Len(written[l]) - SearchLimit}

\* _is_known, of IPv4 addresses: neither a device's ipv6_address nor an IPv6 address in a
\* line is looked at.
IsKnown(ip) == ip \in inventoried

\* Lines that name an address in the client's field, and lines that name it anywhere.
FieldHits(l, ip) == Cardinality({i \in LatestLines(l) : written[l][i].nas = ip})
TextHits(l, ip)  == Cardinality({i \in LatestLines(l) : ip \in written[l][i].text})

\* The watcher counts attempts; they are added to the sightings in the logs.
Entries(ip)  == {i \in DOMAIN ReadObserved : ReadObserved[i].ip = ip}
Attempts(ip) == SumFunction([i \in Entries(ip) |-> ReadObserved[i].count])

\* Variant with a fault: only lines the parser understands.
StructuredSightings(ip) == SumFunction([l \in Logs |-> FieldHits(l, ip)])

\* A line the parser understands is counted by both readers.
LogSightings(ip) == SumFunction([l \in Logs |-> FieldHits(l, ip) + TextHits(l, ip)])

SeenIn(ip) ==
  {l \in Logs : TextHits(l, ip) > 0} \cup {ReadObserved[i].protocol : i \in Entries(ip)}

FindUnknown ==
  {[ip |-> ip, attempts |-> LogSightings(ip) + Attempts(ip), seen_in |-> SeenIn(ip)] :
     ip \in {a \in Clients \cup Stations : ~IsKnown(a) /\ LogSightings(a) + Attempts(a) > 0}}

-----------------------------------------------------------------------------
(* Properties *)

\* A client with an IPv4 address outside the inventory is offered while a line that names it
\* is among those read, whatever its layout, and as long as the running watcher's latest
\* publication holds its packet, which the cap never drops for an older one; each source that
\* met it is named and no attempt is left uncounted.  What the inventory covers by its IPv4
\* addresses is not offered.
StrangersAreOffered ==
  /\ \A ip \in Clients \ inventoried :
       LET lines == {l \in Logs : \E i \in LatestLines(l) : ip \in written[l][i].text}
       IN  lines # {} \/ last = ip =>
             \E d \in FindUnknown :
               /\ d.ip = ip /\ lines \subseteq d.seen_in
               /\ last = ip => d.attempts > Cardinality(lines)
  /\ \A d \in FindUnknown : d.ip \notin inventoried
=============================================================================
