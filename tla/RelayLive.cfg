CONSTANTS
  Others = {}
  a = a
  b = b
  h1 = h1
  h2 = h2
  NoAddr = NoAddr
  Absent = Absent
  NoSession = NoSession
  NoConn = NoConn
  Run = Run
  Ping = Ping
  Other = Other
  Peers <- MCPeers
  IPs = {h1}
  PrivateIPs = {}
  Ports = {1}
  Callers = {c1, Run}
  Clients <- OnlyA
  Frames = {a, b, Ping, Other}
  Stallers = {c1}
  Statuses <- MCStatuses
  Conns = {c1}
  Sessions = {s1}
  InboxCap = 1
SPECIFICATION FairSpec
INVARIANTS
  TypeOK
PROPERTIES
  DeadClientIsCleared
CHECK_DEADLOCK FALSE
