\* One peer, two concurrent callers (a handler and another handler or Run).
CONSTANTS
  h1 = h1
  h2 = h2
  lan = lan
  NoAddr = NoAddr
  Absent = Absent
  Peers = {p1}
  IPs = {h1, h2, lan}
  PrivateIPs = {lan}
  Ports = {1}
  Callers = {g1, g2}
  Statuses <- MCStatuses
SPECIFICATION AloneSpec
INVARIANT ResolvedWasReported
