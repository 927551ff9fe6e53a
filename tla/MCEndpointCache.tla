--------------------------- MODULE MCEndpointCache ---------------------------
(* EndpointCache with two peers, one lookup goroutine per handler and the   *)
(* ticker: a direct peer that roams between two hosts, and peers that are   *)
(* relayed, with a private candidate alone or before a public one.          *)
EXTENDS EndpointCacheAlone

CONSTANTS h1, h2, lan

A(ip) == [ip |-> ip, port |-> 1]

MCStatuses == [p \in Peers |->
  { Absent,
    [cur |-> A(h1), relayed |-> FALSE, addrs |-> <<>>],
    [cur |-> NoAddr, relayed |-> TRUE, addrs |-> <<A(lan), A(h2)>>],
    [cur |-> NoAddr, relayed |-> TRUE, addrs |-> <<A(lan)>>] }]
=============================================================================
