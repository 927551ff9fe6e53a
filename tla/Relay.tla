-------------------------------- MODULE Relay --------------------------------
(***************************************************************************)
(* relay-vpn5/server.go: the hybrid DERP relay.  Each accepted connection  *)
(* has a handler goroutine; handlers share the clients map, the session    *)
(* table and the endpoint cache.  A handler is a sequence of steps, cut    *)
(* where the code takes or drops a lock, calls the sidecar, or writes to a *)
(* TCP connection, so steps of several handlers interleave as they can in  *)
(* the program.  Clients may connect again while the handler of their old  *)
(* connection has not yet noticed that it is dead.                         *)
(***************************************************************************)
EXTENDS SessionTable

CONSTANTS
  Run,          \* the cache's ticker goroutine, a caller of EndpointCache
  Ping, Other,  \* frames that are not SendPacket; Other covers the ignored types
  Clients,      \* of a connection, the keys that may connect over it
  Frames,       \* the frames they send: a destination key, Ping or Other
  Stallers,     \* the connections whose client may stop reading
  InboxCap      \* frames read and not yet dispatched (frameCh and the socket)

ASSUME RelayAssumption ==
  /\ Conns \subseteq Callers /\ Callers \subseteq Conns \cup {Run} /\ Run \notin Conns
  /\ {Ping, Other} \cap Peers = {}
  /\ Clients \in [Conns -> SUBSET Peers] /\ Frames \subseteq Peers \cup {Ping, Other}
  /\ Stallers \subseteq Conns
  /\ InboxCap \in Nat \ {0}

VARIABLES
  pc,        \* where each handler is
  ckey,      \* clientKey, once the handshake has proved it
  up,        \* the TCP connection is open at both ends
  stalled,   \* external: the client does not read, writes to it block
  inbox,     \* frames of the client not yet dispatched
  clients,   \* s.clients
  loc,       \* route's locals: destKey, destCC, udpAddr, sess
  toClose,   \* sessions taken out of the table, sockets still to be closed
  asked,     \* history: <<src, dst>> of every packet a client handed in
  delivered  \* history: <<src, conn>> of every RecvPacket written

hVars == <<pc, ckey, up, stalled, inbox, clients, loc, toClose>>
vars == <<epVars, stVars, hVars, asked, delivered>>

(* The phases of a handler.  From "loop" on, it has registered its client. *)
Handshake == {"free", "hello", "info", "register"}
Routing   == {"route", "local", "pong", "keepalive", "lookup", "create",
              "send", "invalidate", "remove", "close"}
Leaving   == {"removeall", "closeall"}
Phases    == Handshake \cup {"loop"} \cup Routing \cup {"deregister"}
               \cup Leaving \cup {"done"}
Serving   == {"loop"} \cup Routing \cup {"deregister"}   \* defer not yet run

Locals == [dest : Peers \cup {Absent}, dcc : Conns \cup {NoConn},
           addr : Addr \cup {NoAddr}, cur : Sessions \cup {NoSession}]
NoLocals == [dest |-> Absent, dcc |-> NoConn, addr |-> NoAddr, cur |-> NoSession]

TypeOK ==
  /\ EPTypeOK /\ STTypeOK
  /\ pc \in [Conns -> Phases]
  /\ ckey \in [Conns -> Peers \cup {Absent}]
  /\ up \in [Conns -> BOOLEAN]
  /\ stalled \in [Conns -> BOOLEAN]
  /\ inbox \in [Conns -> Seq(Frames)]
  /\ clients \in [Peers -> Conns \cup {NoConn}]
  /\ loc \in [Conns -> Locals]
  /\ toClose \in [Conns -> SUBSET Sessions]
  /\ asked \in SUBSET (Peers \X Peers)
  /\ delivered \in SUBSET (Peers \X Conns)

Init ==
  /\ EPInit /\ STInit
  /\ pc = [c \in Conns |-> "free"]
  /\ ckey = [c \in Conns |-> Absent]
  /\ up = [c \in Conns |-> FALSE]
  /\ stalled = [c \in Conns |-> FALSE]
  /\ inbox = [c \in Conns |-> <<>>]
  /\ clients = [p \in Peers |-> NoConn]
  /\ loc = [c \in Conns |-> NoLocals]
  /\ toClose = [c \in Conns |-> {}]
  /\ asked = {} /\ delivered = {}

Goto(c, from, to) == pc[c] = from /\ pc' = [pc EXCEPT ![c] = to]
Return(c, from) == Goto(c, from, "loop") /\ loc' = [loc EXCEPT ![c] = NoLocals]

(* A write to connection d returns when the client reads, or when either   *)
(* end has closed; there is no write deadline.                             *)
CanWrite(d) == ~stalled[d]

----------------------------------------------------------------------------
(* The clients and the network.                                            *)
Env == UNCHANGED <<epVars, stVars, clients, loc, toClose, asked, delivered>>

Connect(c) ==
  /\ Goto(c, "free", "hello")
  /\ up' = [up EXCEPT ![c] = TRUE]
  /\ Env /\ UNCHANGED <<ckey, stalled, inbox>>

ClientSends(c, f) ==
  /\ up[c] /\ ckey[c] # Absent /\ Len(inbox[c]) < InboxCap
  /\ inbox' = [inbox EXCEPT ![c] = Append(@, f)]
  /\ Env /\ UNCHANGED <<pc, ckey, up, stalled>>

(* The client goes away; frames it had sent may be lost with it. *)
ClientDies(c) ==
  /\ up[c]
  /\ up' = [up EXCEPT ![c] = FALSE]
  /\ stalled' = [stalled EXCEPT ![c] = FALSE]
  /\ \E n \in 0..Len(inbox[c]) :
       inbox' = [inbox EXCEPT ![c] = SubSeq(@, 1, n)]
  /\ Env /\ UNCHANGED <<pc, ckey>>

ClientStalls(c) ==
  /\ c \in Stallers /\ up[c] /\ ~stalled[c] /\ stalled' = [stalled EXCEPT ![c] = TRUE]
  /\ Env /\ UNCHANGED <<pc, ckey, up, inbox>>

ClientReads(c) ==
  /\ up[c] /\ stalled[c] /\ stalled' = [stalled EXCEPT ![c] = FALSE]
  /\ Env /\ UNCHANGED <<pc, ckey, up, inbox>>

----------------------------------------------------------------------------
(* handleConn: handshake and registration.                                 *)
Quiet == UNCHANGED <<epVars, stVars, up, stalled, inbox, loc, toClose,
                     asked, delivered>>

(* conn.Close, deferred; what was read and not dispatched is garbage.      *)
Hangup(c) ==
  /\ up' = [up EXCEPT ![c] = FALSE]
  /\ stalled' = [stalled EXCEPT ![c] = FALSE]
  /\ inbox' = [inbox EXCEPT ![c] = <<>>]

(* FrameClientInfo arrived within 10 s and its box opens with key k.       *)
ClientInfo(c, k) ==
  /\ up[c] /\ Goto(c, "hello", "info")
  /\ ckey' = [ckey EXCEPT ![c] = k]
  /\ Quiet /\ UNCHANGED clients

(* A failed write, the deadline, a wrong frame or a box that does not open: *)
(* return before the registration, with conn.Close deferred.                *)
HandshakeFails(c) ==
  /\ Goto(c, "hello", "done") \/ (~up[c] /\ Goto(c, "info", "done"))
  /\ Hangup(c)
  /\ UNCHANGED <<epVars, stVars, ckey, clients, loc, toClose, asked, delivered>>

ServerInfo(c) ==
  /\ CanWrite(c) /\ Goto(c, "info", "register")
  /\ Quiet /\ UNCHANGED <<ckey, clients>>

Register(c) ==
  /\ Goto(c, "register", "loop")
  /\ clients' = [clients EXCEPT ![ckey[c]] = c]
  /\ Quiet /\ UNCHANGED ckey

(* Main loop.  select takes a queued frame, the reader's error, or a tick. *)
Dispatch(c) ==
  /\ pc[c] = "loop" /\ inbox[c] # <<>>
  /\ inbox' = [inbox EXCEPT ![c] = Tail(@)]
  /\ LET f == Head(inbox[c]) IN
       \/ /\ f \in Peers                                 \* FrameSendPacket
          /\ Goto(c, "loop", "route")
          /\ loc' = [loc EXCEPT ![c].dest = f]
          /\ asked' = asked \cup {<<ckey[c], f>>}
       \/ /\ f = Ping /\ Goto(c, "loop", "pong")
          /\ UNCHANGED <<loc, asked>>
       \/ /\ f = Other /\ UNCHANGED <<pc, loc, asked>>
  /\ UNCHANGED <<epVars, stVars, ckey, up, stalled, clients, toClose, delivered>>

ReadError(c) ==
  /\ ~up[c] /\ inbox[c] = <<>> /\ Goto(c, "loop", "deregister")
  /\ Quiet /\ UNCHANGED <<ckey, clients>>

(* the 60 s ticker *)
KeepAliveTick(c) ==
  /\ Goto(c, "loop", "keepalive")
  /\ Quiet /\ UNCHANGED <<ckey, clients>>

KeepAliveSent(c) ==
  /\ CanWrite(c)
  /\ \/ Goto(c, "keepalive", "loop")
     \/ ~up[c] /\ Goto(c, "keepalive", "deregister")
  /\ Quiet /\ UNCHANGED <<ckey, clients>>

Pong(c) ==
  /\ CanWrite(c) /\ Goto(c, "pong", "loop")      \* sendFrame's error is ignored
  /\ Quiet /\ UNCHANGED <<ckey, clients>>

----------------------------------------------------------------------------
(* route.                                                                  *)
Route == UNCHANGED <<ckey, up, stalled, inbox, clients, asked>>
Dest(c) == loc[c].dest
Pair(c) == <<ckey[c], Dest(c)>>

(* destCC is looked up under the read lock and used after it is released.  *)
RouteLookup(c) ==
  /\ pc[c] = "route"
  /\ \/ /\ clients[Dest(c)] # NoConn /\ Goto(c, "route", "local")
        /\ loc' = [loc EXCEPT ![c].dcc = clients[Dest(c)]]
        /\ UNCHANGED epVars
     \/ /\ clients[Dest(c)] = NoConn /\ Goto(c, "route", "lookup")
        /\ Lookup(c, Dest(c))                            \* Resolve begins
        /\ UNCHANGED loc
  /\ Route /\ UNCHANGED <<stVars, toClose, delivered>>

Deliver(from, d) ==
  delivered' = IF up[d] THEN delivered \cup {<<from, d>>} ELSE delivered

(* mutant: the frame is written to the sender *)
LocalSendToSelf(c) ==
  /\ pc[c] = "local" /\ CanWrite(c) /\ Return(c, "local") /\ Deliver(ckey[c], c)
  /\ Route /\ UNCHANGED <<epVars, stVars, toClose>>

(* Option 1: one write to the destination; an error is only logged.        *)
LocalSend(c) ==
  /\ pc[c] = "local" /\ CanWrite(loc[c].dcc) /\ Return(c, "local")
  /\ Deliver(ckey[c], loc[c].dcc)
  /\ Route /\ UNCHANGED <<epVars, stVars, toClose>>

(* Resolve's own steps, while the handler waits in it.                     *)
Resolving(c) ==
  /\ pc[c] = "lookup" /\ Progress(c)
  /\ Route /\ UNCHANGED <<stVars, pc, loc, toClose, delivered>>

(* Resolve returned: an address, or no path and the packet is dropped.     *)
ResolveDone(c) ==
  /\ Consume(c)
  /\ \/ Resolved(c) = NoAddr /\ Return(c, "lookup")
     \/ /\ Resolved(c) # NoAddr /\ Goto(c, "lookup", "create")
        /\ loc' = [loc EXCEPT ![c].addr = Resolved(c)]
  /\ Route /\ UNCHANGED <<stVars, toClose, delivered>>

(* Option 2: the session, then one datagram on its socket.                 *)
GetOrCreate(c) ==
  /\ pc[c] = "create"
  /\ \/ /\ Goto(c, "create", "send")
        /\ \/ Reuse(ckey[c], Dest(c), loc[c].addr)
           \/ \E s \in Sessions : Create(s, ckey[c], Dest(c), loc[c].addr, c)
        /\ loc' = [loc EXCEPT ![c].cur = sessions'[Pair(c)]]
     \/ /\ sessions[Pair(c)] = NoSession                 \* ListenUDP failed
        /\ Return(c, "create") /\ UNCHANGED stVars
  /\ Route /\ UNCHANGED <<epVars, toClose, delivered>>

SendUDP(c) ==
  /\ pc[c] = "send"
  /\ \/ sess[loc[c].cur].open /\ Return(c, "send")
     \/ Goto(c, "send", "invalidate") /\ UNCHANGED loc    \* closed, or unreachable
  /\ Route /\ UNCHANGED <<epVars, stVars, toClose, delivered>>

InvalidateDest(c) ==
  /\ Goto(c, "invalidate", "remove") /\ Invalidate(Dest(c))
  /\ Route /\ UNCHANGED <<stVars, loc, toClose, delivered>>

(* mutant: the entry is deleted and its socket is left open *)
RemoveSessionOnly(c) ==
  /\ Goto(c, "remove", "close") /\ Drop({Pair(c)}) /\ UNCHANGED toClose
  /\ Route /\ UNCHANGED <<epVars, loc, delivered>>

(* Remove: whatever session the pair has now, not the one that failed.     *)
RemoveSession(c) ==
  /\ Goto(c, "remove", "close") /\ Drop({Pair(c)})
  /\ toClose' = [toClose EXCEPT ![c] = Listed({Pair(c)})]
  /\ Route /\ UNCHANGED <<epVars, loc, delivered>>

CloseOne(c) ==
  /\ pc[c] \in {"close", "closeall"}
  /\ \E s \in toClose[c] :
       /\ Close(s) /\ toClose' = [toClose EXCEPT ![c] = @ \ {s}]
  /\ Route /\ UNCHANGED <<epVars, pc, loc, delivered>>

RemoveReturns(c) ==
  /\ toClose[c] = {} /\ Return(c, "close")
  /\ Route /\ UNCHANGED <<epVars, stVars, toClose, delivered>>

----------------------------------------------------------------------------
(* mutants: the entry is not deleted; sessions to, not from, the client go *)
DeregisterNothing(c) ==
  /\ Goto(c, "deregister", "removeall") /\ Quiet /\ UNCHANGED <<clients, ckey>>
RemoveAllByDst(c) ==
  LET mine == {k \in Peers \X Peers : k[2] = ckey[c]} IN
  /\ Goto(c, "removeall", "closeall") /\ Drop(mine)
  /\ toClose' = [toClose EXCEPT ![c] = Listed(mine)]
  /\ Route /\ UNCHANGED <<epVars, loc, delivered>>

(* The deferred function of handleConn, then conn.Close and the end of ctx. *)
Deregister(c) ==
  /\ Goto(c, "deregister", "removeall")
  /\ clients' = [clients EXCEPT ![ckey[c]] = NoConn]
  /\ Quiet /\ UNCHANGED ckey

RemoveAll(c) ==
  LET mine == {k \in Peers \X Peers : k[1] = ckey[c]} IN
  /\ Goto(c, "removeall", "closeall") /\ Drop(mine)
  /\ toClose' = [toClose EXCEPT ![c] = Listed(mine)]
  /\ Route /\ UNCHANGED <<epVars, loc, delivered>>

Finish(c) ==
  /\ toClose[c] = {} /\ Goto(c, "closeall", "done")
  /\ Hangup(c)
  /\ UNCHANGED <<epVars, stVars, ckey, clients, loc, toClose, asked, delivered>>

----------------------------------------------------------------------------
(* The goroutines beside the handlers.                                     *)
Beside == UNCHANGED hVars /\ UNCHANGED <<epVars, asked>>

SessionLoop(s) ==
  \/ LoopStart(s) /\ Beside /\ UNCHANGED delivered
  \/ (\E ip \in IPs : LoopAccept(s, ip)) /\ Beside /\ UNCHANGED delivered
  \/ LoopFails(s) /\ Beside /\ UNCHANGED delivered
  \/ LET d == sess[s].conn IN                       \* onReply
       /\ sess[s].loop = "replying" /\ CanWrite(d)
       /\ LoopReplied(s, pc[d] = "done") /\ Deliver(sess[s].dst, d)
       /\ Beside

Ticker ==
  /\ Run \in Callers
  /\ Tick(Run) \/ Progress(Run)
  /\ UNCHANGED <<stVars, hVars, asked, delivered>>

Network ==
  /\ Expire \/ SidecarChange
  /\ UNCHANGED <<stVars, hVars, asked, delivered>>

Handler(c) ==
  \/ HandshakeFails(c) \/ ServerInfo(c) \/ Register(c)
  \/ Dispatch(c) \/ ReadError(c) \/ KeepAliveSent(c) \/ Pong(c)
  \/ RouteLookup(c) \/ LocalSend(c) \/ Resolving(c) \/ ResolveDone(c)
  \/ GetOrCreate(c) \/ SendUDP(c) \/ InvalidateDest(c) \/ RemoveSession(c)
  \/ CloseOne(c) \/ RemoveReturns(c)
  \/ Deregister(c) \/ RemoveAll(c) \/ Finish(c)

Client(c) ==
  \/ Connect(c) \/ ClientDies(c) \/ ClientStalls(c) \/ ClientReads(c)
  \/ \E k \in Clients[c] : ClientInfo(c, k)
  \/ \E f \in Frames : ClientSends(c, f)

Next ==
  \/ \E c \in Conns : Client(c) \/ Handler(c) \/ KeepAliveTick(c)
  \/ \E s \in Sessions : SessionLoop(s)
  \/ Ticker
  \/ Network

Spec == Init /\ [][Next]_vars

(* The Go scheduler runs every goroutine that can run, and wakes a blocked *)
(* write when its client reads, though the client may soon stop again;     *)
(* select picks among ready cases at random, so a frame or a read error is *)
(* not passed over for ticks for ever.  Two assumptions are not the code's: *)
(* the sidecar answers or fails every request (Status has no deadline),    *)
(* and a client that stopped reading reads again or goes away (writes have *)
(* no deadline).                                                           *)
Fairness ==
  /\ \A c \in Conns : /\ SF_vars(Handler(c))
                     /\ SF_vars(Dispatch(c) \/ ReadError(c))
                     /\ WF_vars(stalled[c] /\ (ClientReads(c) \/ ClientDies(c)))
  /\ \A s \in Sessions : SF_vars(SessionLoop(s))

FairSpec == Spec /\ Fairness

----------------------------------------------------------------------------
(* A key in the clients map always leads to a handler that serves that key *)
(* and has not begun to leave, however connections of one key overlap      *)
(* (server.go:169-180).                                                    *)
RegisteredIsServing ==
  \A k \in Peers : clients[k] # NoConn =>
    ckey[clients[k]] = k /\ pc[clients[k]] \in Serving

(* A session in the table belongs to its pair, and the handler whose ctx    *)
(* and onReply it uses has not yet run RemoveAll: no session outlives the   *)
(* handler that made it (server.go:174-180, session.go:57-105).             *)
SessionsHaveHandler ==
  \A k \in Peers \X Peers : sessions[k] # NoSession =>
    LET s == sess[sessions[k]] IN
      /\ <<s.src, s.dst>> = k
      /\ s.conn # NoConn /\ ckey[s.conn] = s.src
      /\ pc[s.conn] \in Serving \cup {"removeall"}

(* No socket is lost: every open one is in the table, or is about to be    *)
(* closed by a handler that took it out (session.go:143-174).              *)
NoSocketLeak ==
  \A s \in Sessions : sess[s].open =>
    \/ sessions[<<sess[s].src, sess[s].dst>>] = s
    \/ \E c \in Conns : s \in toClose[c]

(* A dead client's handler ends, and with it every socket it opened and    *)
(* the goroutine that reads it (server.go:174-219, session.go:107-140).    *)
DeadClientIsCleared ==
  \A c \in Conns : (pc[c] # "free" /\ ~up[c]) ~>
    /\ pc[c] = "done"
    /\ \A s \in Sessions : sess[s].conn = c =>
         ~sess[s].open /\ sess[s].loop = "ended"

(* What the relay promises of packets, whatever route they take. *)
Service == INSTANCE RelayService WITH owner <- ckey
ServiceSpec == Service!Spec

----------------------------------------------------------------------------
(* server.go:252-253 "destKey is connected here via TCP DERP -> write      *)
(* FrameRecvPacket directly on their TCP conn": the only handler that      *)
(* serves a key is the one the clients map gives for it.                   *)
ConnectedIsRegistered ==
  \A c \in Conns :
    /\ pc[c] \in Serving /\ up[c]
    /\ \A d \in Conns : ckey[d] = ckey[c] /\ pc[d] \in Serving \cup {"register"} => d = c
    => clients[ckey[c]] = c

(* session.go:126 "Only accept packets from the expected destination IP":   *)
(* a session that sends to a peer listens to that peer, roamed or not.      *)
RoamedIsHeard ==
  \A s \in Sessions : sess[s].open /\ sess[s].loop = "reading" => sess[s].ip = sess[s].addr.ip

(* session.go:44-45 "a goroutine reads UDP replies and delivers them back   *)
(* to the src client": a reply is written to the connection its client is   *)
(* registered with, if it is.                                              *)
ReplyReachesClient ==
  \A s \in Sessions : sess[s].loop = "replying" =>
    clients[sess[s].src] \in {NoConn, sess[s].conn}
=============================================================================
