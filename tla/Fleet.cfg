\* Inventory: two background activities and two edits; a job of one or two workers; a day and a half.
\* Slots: no device, two audits, three edits of the schedule, two days.  Accounts: two and
\* three edits.  Pages: five events, three lines read, at most two of them out of the ordinary.
\* Clients: two, the watcher keeps one observation, two lines of each log searched.
CONSTANTS
  d1 = d1
  d2 = d2
  d3 = d3
  d4 = d4
  h1 = h1
  h2 = h2
  h3 = h3
  h4 = h4
  n1 = n1
  n2 = n2
  n3 = n3
  n4 = n4
  s1 = s1
  s2 = s2
  g1 = g1
  g2 = g2
  p1 = p1
  p2 = p2
  t1 = t1
  t2 = t2
  x1 = x1
  x2 = x2
  j1 = j1
  None = None
  Devices = {d1, d2, d3, d4}
  Hosts = {h1, h2, h3, h4}
  Names = {n1, n2, n3, n4}
  Secrets = {s1, s2}
  Groups = {g1, g2}
  MonitorGroups = {g2}
  InitialGroups = {g1}
  Policies = {p1, p2}
  Tasks = {t1, t2}
  Audits = {x1, x2}
  Jobs = {j1}
  TypedSecrets = {None, s2}
  Concurrency = 2
  CommunityLimit = 3
  LicensedLimit = 4
  MaxTime = 3
  Mixes <- MCMixes
  Addresses <- MCAddresses
  Hostname <- MCHostname
  Renamed <- MCRenamed
  Scans <- MCScans
  TypedRows <- MCTypedRows
  InitialDevice <- MCInitialDevice
  InitialPolicy <- MCInitialPolicy
  o1 = o1
  m1 = m1
  y1 = y1
  Admins = {m1, m2}
  Usernames = {y1, y2}
  AllowLists <- MCAllowLists
  Roles = {r1, r2}
  Templates = {r1}
  Permissions = {"policies:write"}
  Sources = {o1, o2}
  AdminLimit = 2
  AccountLimit = 3
  Lines = {t1, t2}
  Users = {x1, x2}
  Commands = {"show", "ping"}
  Splitting = {"ping"}
  Decisions = {"permit", "deny", "permitted"}
  Permits = {"permit", "permitted"}
  TailLimit = 3
  SearchLimit = 2
  Hour = 2
  Hours = 1
  EventLimit = 5
  Clients = {t1, t2}
  Stations = {w1}
  Protocols = {"tacacs", "radius"}
  Logs = {"authentication", "authorization"}
  MaxTracked = 1
  WatchLimit = 4
SYMMETRY Symmetry
SPECIFICATION SpecTopics
CHECK_DEADLOCK FALSE
INVARIANTS
  SummariesAgreeWithRows
  SecretsAgree
  NobodyIsLockedOut
  PagesFollowTheLogs
  StrangersAreOffered
PROPERTIES
  ChecksAreOutrunByRacesOnly
  RemovedPoliciesWereReviewed
  DeletionKeepsScopes
  LiveWorkKeepsDevice
  SlotClaimedOnce
