----------------------------- MODULE SessionTable -----------------------------
(***************************************************************************)
(* relay-vpn5/session.go: one ephemeral UDP socket per (src, dst) pair, a  *)
(* goroutine readLoop on each, and the table that finds them.  The table's *)
(* mutex makes each table operation one step; starting readLoop, sending   *)
(* on a socket and closing it happen outside the mutex.  The operators     *)
(* here are steps of Relay's handlers, which say who calls them and when.  *)
(***************************************************************************)
EXTENDS EndpointCache

CONSTANTS
  Sessions,    \* identities of Session objects, each with its own socket
  Conns,       \* connection handlers (server.go), one per accepted connection
  NoSession,
  NoConn

ASSUME SessionAssumption ==
  /\ NoSession \notin Sessions
  /\ NoConn \notin Conns

VARIABLES
  sessions,  \* t.sessions
  sess       \* the Session objects and their readLoop goroutines

stVars == <<sessions, sess>>

(* loop: "none" (no such object yet), "starting" (go readLoop issued),      *)
(* "reading" (in ReadFromUDP), "replying" (in onReply), "ended".            *)
(* conn is the connection onReply and ctx were captured from; ip is dstIP.  *)
SessionState ==
  [src : Peers \cup {Absent}, dst : Peers \cup {Absent},
   addr : Addr \cup {NoAddr}, open : BOOLEAN, conn : Conns \cup {NoConn},
   loop : {"none", "starting", "reading", "replying", "ended"},
   ip : IPs \cup {NoAddr}]

NotMade == [src |-> Absent, dst |-> Absent, addr |-> NoAddr, open |-> FALSE,
            conn |-> NoConn, loop |-> "none", ip |-> NoAddr]

STTypeOK ==
  /\ sessions \in [Peers \X Peers -> Sessions \cup {NoSession}]
  /\ sess \in [Sessions -> SessionState]

STInit ==
  /\ sessions = [k \in Peers \X Peers |-> NoSession]
  /\ sess = [s \in Sessions |-> NotMade]

----------------------------------------------------------------------------
(* GetOrCreate, hit: the session is kept, socket, reader and onReply as    *)
(* they were; only dstAddr follows the endpoint.                           *)
Reuse(src, dst, addr) ==
  /\ sessions[<<src, dst>>] # NoSession
  /\ sess' = [sess EXCEPT ![sessions[<<src, dst>>]].addr = addr]
  /\ UNCHANGED sessions

(* GetOrCreate, miss: ListenUDP succeeded, s is the new object. *)
Create(s, src, dst, addr, c) ==
  /\ sessions[<<src, dst>>] = NoSession
  /\ sess[s].loop = "none"
  /\ sessions' = [sessions EXCEPT ![<<src, dst>>] = s]
  /\ sess' = [sess EXCEPT ![s] =
       [src |-> src, dst |-> dst, addr |-> addr, open |-> TRUE,
        conn |-> c, loop |-> "starting", ip |-> NoAddr]]

(* Remove and RemoveAll, under the mutex: the pairs leave the table.       *)
Drop(pairs) ==
  /\ sessions' = [k \in Peers \X Peers |->
                    IF k \in pairs THEN NoSession ELSE sessions[k]]
  /\ UNCHANGED sess

(* mutant: a missing entry is closed too *)
ListedOrNil(pairs) == {sessions[k] : k \in pairs}

Listed(pairs) == {sessions[k] : k \in pairs} \ {NoSession}

(* Remove and RemoveAll, after the mutex: one socket is closed.            *)
Close(s) ==
  /\ sess' = [sess EXCEPT ![s].open = FALSE]
  /\ UNCHANGED sessions

----------------------------------------------------------------------------
(* readLoop.  It reads dstAddr once, when the goroutine gets to run.       *)
LoopStart(s) ==
  /\ sess[s].loop = "starting"
  /\ sess' = [sess EXCEPT ![s].loop = "reading", ![s].ip = sess[s].addr.ip]
  /\ UNCHANGED sessions

(* A UDP packet: only one from dstIP is handed to onReply. *)
LoopAccept(s, from) ==
  /\ sess[s].loop = "reading" /\ sess[s].open
  /\ from = sess[s].ip
  /\ sess' = [sess EXCEPT ![s].loop = "replying"]
  /\ UNCHANGED sessions

(* onReply returned; the loop goes on unless ctx has been cancelled.       *)
LoopReplied(s, cancelled) ==
  /\ sess[s].loop = "replying"
  /\ sess' = [sess EXCEPT ![s].loop = IF cancelled THEN "ended" ELSE "reading"]
  /\ UNCHANGED sessions

(* mutant: the error is taken for a bad packet and the loop continues *)
LoopFailsContinues(s) == sess[s].loop = "reading" /\ UNCHANGED stVars

(* ReadFromUDP returned an error: the socket was closed, or the network's. *)
LoopFails(s) ==
  /\ sess[s].loop = "reading"
  /\ sess' = [sess EXCEPT ![s].loop = "ended"]
  /\ UNCHANGED sessions
=============================================================================
