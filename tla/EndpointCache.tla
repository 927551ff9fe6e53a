---------------------------- MODULE EndpointCache ----------------------------
(***************************************************************************)
(* relay-vpn5/endpoint.go: the cache of what the Tailscale sidecar says of *)
(* every peer, filled by a periodic refresh and by any lookup that misses. *)
(*                                                                         *)
(* Every caller (a connection handler, or the ticker goroutine Run) is a   *)
(* process of its own.  The RPC to the sidecar runs without the lock, so a *)
(* refresh is three steps: the request, the sidecar's answer, the install  *)
(* of that answer.  Relay composes this module with its handlers.          *)
(***************************************************************************)
EXTENDS Naturals, Sequences

CONSTANTS
  Peers,        \* public keys of the tailnet's nodes
  IPs,          \* addresses of hosts
  PrivateIPs,   \* those that are loopback, private or unspecified
  Ports,
  Statuses,     \* what the sidecar may say of each peer, Absent included
  Callers,      \* goroutines that use the cache
  NoAddr,       \* CurAddr == "" (or unparsable); also the zero AddrPort
  Absent        \* no entry for a peer

Addr == [ip : IPs, port : Ports]
PeerStatus == [cur : Addr \cup {NoAddr}, relayed : BOOLEAN, addrs : Seq(Addr)]
Entry == PeerStatus \cup {Absent}

ASSUME EndpointAssumption ==
  /\ PrivateIPs \subseteq IPs
  /\ DOMAIN Statuses = Peers
  /\ \A p \in Peers : Statuses[p] # {} /\ Statuses[p] \subseteq Entry
  /\ NoAddr \notin Addr
  /\ Absent \notin PeerStatus \cup Peers

VARIABLES
  status,    \* external: what the sidecar would answer for each peer
  peers,     \* c.peers
  fresh,     \* time.Since(c.updated) < c.ttl
  call       \* each caller's place in getPeer / refresh

epVars == <<status, peers, fresh, call>>

Report == {r \in [Peers -> UNION {Statuses[p] : p \in Peers}] :
             \A p \in Peers : r[p] \in Statuses[p]}

(* "idle", then "ask" (RPC in flight), "install" (answer at hand, lock not *)
(* taken), "reread" (second look at the map), "done" (Resolve returned)    *)
CallState ==
  [at : {"idle", "ask", "install", "reread", "done"},
   peer : Peers \cup {Absent},        \* Absent: the caller is Run, not a lookup
   answer : [Peers -> Entry],
   entry : Entry]                     \* what getPeer returned

Idle == [at |-> "idle", peer |-> Absent,
         answer |-> [p \in Peers |-> Absent], entry |-> Absent]

EPTypeOK ==
  /\ status \in [Peers -> Entry]
  /\ peers \in [Peers -> Entry]
  /\ fresh \in BOOLEAN
  /\ call \in [Callers -> CallState]

----------------------------------------------------------------------------
IsPublic(a) == a.ip \notin PrivateIPs

(* mutant: the private candidates are not skipped *)
FirstOfList(addrs) == IF addrs = <<>> THEN NoAddr ELSE addrs[1]

(* The first public candidate of the list, if it has one. *)
FirstPublic(addrs) ==
  IF \E i \in DOMAIN addrs : IsPublic(addrs[i])
  THEN addrs[CHOOSE i \in DOMAIN addrs :
               IsPublic(addrs[i]) /\ \A j \in 1..(i-1) : ~IsPublic(addrs[j])]
  ELSE NoAddr

(* Resolve after getPeer: the active direct path, else a candidate. *)
BestAddr(e) ==
  IF e = Absent THEN NoAddr
  ELSE IF e.cur # NoAddr /\ ~e.relayed THEN e.cur
  ELSE FirstPublic(e.addrs)

(* What Resolve returned to caller c. *)
Resolved(c) == BestAddr(call[c].entry)

----------------------------------------------------------------------------
EPInit ==
  /\ status \in Report
  /\ peers = [p \in Peers |-> Absent]
  /\ fresh = FALSE
  /\ call = [c \in Callers |-> Idle]

(* getPeer, first look: a fresh hit answers at once, anything else refreshes. *)
Lookup(c, p) ==
  /\ call[c].at = "idle"
  /\ \/ /\ fresh /\ peers[p] # Absent
        /\ call' = [call EXCEPT ![c] =
             [Idle EXCEPT !.at = "done", !.peer = p, !.entry = peers[p]]]
     \/ /\ ~(fresh /\ peers[p] # Absent)
        /\ call' = [call EXCEPT ![c] = [Idle EXCEPT !.at = "ask", !.peer = p]]
  /\ UNCHANGED <<status, peers, fresh>>

(* Run: the first fetch and every tick of the ticker. *)
Tick(c) ==
  /\ call[c].at = "idle"
  /\ call' = [call EXCEPT ![c] = [Idle EXCEPT !.at = "ask"]]
  /\ UNCHANGED <<status, peers, fresh>>

(* refresh: the sidecar answers the RPC (the cache lock is not held). *)
StatusAnswered(c) ==
  /\ call[c].at = "ask"
  /\ call' = [call EXCEPT ![c].at = "install", ![c].answer = status]
  /\ UNCHANGED <<status, peers, fresh>>

(* refresh: the RPC fails; the old map and its age are left alone. *)
StatusFailed(c) ==
  /\ call[c].at = "ask"
  /\ call' = [call EXCEPT ![c] =
       IF @.peer = Absent THEN Idle ELSE [@ EXCEPT !.at = "reread"]]
  /\ UNCHANGED <<status, peers, fresh>>

(* refresh: the answer replaces the whole map. *)
Install(c) ==
  /\ call[c].at = "install"
  /\ peers' = call[c].answer
  /\ fresh' = TRUE
  /\ call' = [call EXCEPT ![c] =
       IF @.peer = Absent THEN Idle
       ELSE [Idle EXCEPT !.at = "reread", !.peer = call[c].peer]]
  /\ UNCHANGED <<status>>

(* getPeer, second look, and the rest of Resolve. *)
Reread(c) ==
  /\ call[c].at = "reread"
  /\ call' = [call EXCEPT ![c] = [@ EXCEPT !.at = "done",
                                           !.entry = peers[call[c].peer]]]
  /\ UNCHANGED <<status, peers, fresh>>

(* Resolve's frame is gone once its caller has taken the result. *)
Consume(c) ==
  /\ call[c].at = "done"
  /\ call' = [call EXCEPT ![c] = Idle]
  /\ UNCHANGED <<status, peers, fresh>>

Invalidate(p) ==
  /\ peers' = [peers EXCEPT ![p] = Absent]
  /\ UNCHANGED <<status, fresh, call>>

(* time passes: the map grows older than the ttl. *)
Expire ==
  /\ fresh /\ fresh' = FALSE
  /\ UNCHANGED <<status, peers, call>>

(* the tailnet changes under the sidecar. *)
SidecarChange ==
  /\ \E p \in Peers : \E e \in Statuses[p] :
       status[p] # e /\ status' = [status EXCEPT ![p] = e]
  /\ UNCHANGED <<peers, fresh, call>>

----------------------------------------------------------------------------
Progress(c) == StatusAnswered(c) \/ StatusFailed(c) \/ Install(c) \/ Reread(c)
=============================================================================
