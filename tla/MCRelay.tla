------------------------------- MODULE MCRelay -------------------------------
(* Relay with a client `a` that may connect more than once and a peer `b`   *)
(* that is reachable over UDP, or connects too.                             *)
EXTENDS Relay, TLC

CONSTANTS a, b, h1, h2, Others

A(ip) == [ip |-> ip, port |-> 1]
Direct(ip) == [cur |-> A(ip), relayed |-> FALSE, addrs |-> <<>>]

Sym == Permutations(Conns \ Others) \cup Permutations(Sessions)

WithoutHistory == <<epVars, stVars, hVars>>

Reconnects == [c \in Conns |-> IF c \in Others THEN {b} ELSE {a}]
Either == [c \in Conns |-> {a, b}]
OnlyA == [c \in Conns |-> {a}]

MCPeers == {a, b}
MCStatuses  == [p \in MCPeers |-> IF p = b THEN {Direct(h1)} ELSE {Absent}]
MCRoaming == [p \in MCPeers |-> IF p = b THEN {Direct(h1), Direct(h2)} ELSE {Absent}]
TcpOnly == [p \in MCPeers |-> {Absent}]
MCVanishing == [p \in MCPeers |-> IF p = b THEN {Direct(h1), Absent} ELSE {Absent}]
=============================================================================
