CONSTANTS
  Others = {}
  a = a
  b = b
  h1 = h1
  h2 = h2
  NoAddr = NoAddr
  Absent = Absent
  NoSession = NoSession
  NoConn = NoConn
  Run = Run
  Ping = Ping
  Other = Other
  Peers <- MCPeers
  IPs = {h1}
  PrivateIPs = {}
  Ports = {1}
  Callers = {c1, c2}
  Clients <- OnlyA
  Frames = {b}
  Stallers = {}
  Statuses <- MCStatuses
  Conns = {c1, c2}
  Sessions = {s1, s2}
  InboxCap = 1
SYMMETRY Sym
VIEW WithoutHistory
SPECIFICATION Spec
INVARIANTS
  SessionsHaveHandler
  NoSocketLeak
CHECK_DEADLOCK FALSE
