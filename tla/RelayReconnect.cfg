CONSTANTS
  Others = {}
  a = a
  b = b
  h1 = h1
  h2 = h2
  NoAddr = NoAddr
  Absent = Absent
  NoSession = NoSession
  NoConn = NoConn
  Run = Run
  Ping = Ping
  Other = Other
  Peers <- MCPeers
  IPs = {h1}
  PrivateIPs = {}
  Ports = {1}
  Callers = {c1, c2}
  Clients <- Either
  Frames = {a}
  Stallers = {}
  Statuses <- TcpOnly
  Conns = {c1, c2}
  Sessions = {}
  InboxCap = 1
SPECIFICATION Spec
INVARIANTS
  ConnectedIsRegistered
CHECK_DEADLOCK FALSE
