CONSTANTS
  Others = {c3}
  a = a
  b = b
  h1 = h1
  h2 = h2
  NoAddr = NoAddr
  Absent = Absent
  NoSession = NoSession
  NoConn = NoConn
  Run = Run
  Ping = Ping
  Other = Other
  Peers <- MCPeers
  IPs = {h1}
  PrivateIPs = {}
  Ports = {1}
  Callers = {c1, c2, c3}
  Clients <- Reconnects
  Frames = {a}
  Stallers = {}
  Statuses <- TcpOnly
  Conns = {c1, c2, c3}
  Sessions = {}
  InboxCap = 1
SYMMETRY Sym
SPECIFICATION Spec
INVARIANTS
  RegisteredIsServing
PROPERTIES
  ServiceSpec
CHECK_DEADLOCK FALSE
