------------------------- MODULE EndpointCacheAlone -------------------------
(***************************************************************************)
(* The endpoint cache on its own: any goroutine looks up any peer or runs  *)
(* the ticker, and any peer may be invalidated at any time, as the handler *)
(* of a failed send does.  A history variable records what the sidecar has *)
(* said.                                                                   *)
(***************************************************************************)
EXTENDS EndpointCache

VARIABLE
  known      \* addresses that some answer of the sidecar made usable for a peer

aloneVars == <<epVars, known>>

(* The addresses a report makes usable for UDP, picked or not. *)
Usable(e) ==
  IF e = Absent THEN {}
  ELSE {a \in {e.cur} : a # NoAddr /\ ~e.relayed}
         \cup {e.addrs[i] : i \in {j \in DOMAIN e.addrs : e.addrs[j].ip \notin PrivateIPs}}

AloneInit ==
  /\ EPInit
  /\ known = [p \in Peers |-> {}]

Answer(c) ==
  /\ StatusAnswered(c)
  /\ known' = [p \in Peers |-> known[p] \cup Usable(status[p])]

Fail(p) ==
  /\ peers[p] # Absent /\ Invalidate(p)
  /\ UNCHANGED known

Proceed(c) ==
  \/ Answer(c)
  \/ (StatusFailed(c) \/ Install(c) \/ Reread(c)) /\ UNCHANGED known

Start ==
  /\ \/ \E c \in Callers : Tick(c) \/ Consume(c) \/ \E p \in Peers : Lookup(c, p)
     \/ Expire
     \/ SidecarChange
  /\ UNCHANGED known

AloneNext ==
  \/ \E c \in Callers : Proceed(c)
  \/ \E p \in Peers : Fail(p)
  \/ Start

AloneSpec == AloneInit /\ [][AloneNext]_aloneVars

----------------------------------------------------------------------------
(* An address handed to route for a peer is one that some answer of the    *)
(* sidecar made usable for that very peer: an active path that is not      *)
(* relayed or a public candidate, whatever refreshes and invalidations ran *)
(* in between (endpoint.go:46-76, 109-149).                                *)
ResolvedWasReported ==
  \A c \in Callers :
    call[c].at = "done" /\ Resolved(c) # NoAddr
      => Resolved(c) \in known[call[c].peer]
=============================================================================
