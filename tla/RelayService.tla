----------------------------- MODULE RelayService -----------------------------
(***************************************************************************)
(* What the hybrid relay promises about packets, with no tables, sessions, *)
(* sockets or caches: a connection belongs to one key for ever, and the    *)
(* only packets written to it are from peers that addressed its key or     *)
(* that its key has addressed.  Delivery is best effort.                   *)
(***************************************************************************)
CONSTANTS Peers, Conns, Absent

VARIABLES owner, asked, delivered

Init ==
  /\ owner = [c \in Conns |-> Absent]
  /\ asked = {} /\ delivered = {}

Prove(c, k) ==
  /\ owner[c] = Absent /\ owner' = [owner EXCEPT ![c] = k]
  /\ UNCHANGED <<asked, delivered>>

Ask(c, k) ==
  /\ owner[c] # Absent /\ asked' = asked \cup {<<owner[c], k>>}
  /\ UNCHANGED <<owner, delivered>>

Deliver(p, c) ==
  /\ {<<p, owner[c]>>, <<owner[c], p>>} \cap asked # {}
  /\ delivered' = delivered \cup {<<p, c>>}
  /\ UNCHANGED <<owner, asked>>

Next == \E c \in Conns, k \in Peers : Prove(c, k) \/ Ask(c, k) \/ Deliver(k, c)

Spec == Init /\ [][Next]_<<owner, asked, delivered>>
=============================================================================
