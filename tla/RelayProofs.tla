----------------------------- MODULE RelayProofs -----------------------------
(***************************************************************************)
(* Proofs about Relay, for any number of connections, keys, sessions and   *)
(* peers: its safety properties, and that it implements RelayService.      *)
(*                                                                         *)
(* First the endpoint cache: the types its steps keep, and what Resolve    *)
(* answers when the cache runs on its own (EndpointCacheAlone).            *)
(*                                                                         *)
(* Then the clients map, which two steps of a handler write: all others    *)
(* move the handler inside the phases it is registered in, or outside of   *)
(* them.  Then what a handler remembers in route, the sessions and their   *)
(* sockets, and the types; and last the refinement.                        *)
(***************************************************************************)
EXTENDS Relay, EndpointCacheAlone, WellFoundedInduction, TLAPS

(* Every non-empty set of naturals has a least element. *)
LEMMA LeastExists ==
  ASSUME NEW S \in SUBSET Nat, S # {}
  PROVE  \E i \in S : \A j \in S : i <= j
<1> DEFINE Less == {p \in Nat \X Nat : p[1] < p[2]}
<1>1. IsWellFoundedOn(Less, Nat)
  BY NatLessThanWellFounded DEF OpToRel
<1>2. ASSUME NEW i \in Nat, NEW j \in Nat, <<i, j>> \notin Less
      PROVE  j <= i
  BY <1>2
<1> HIDE DEF Less
<1>3. PICK x \in S : \A y \in S : <<y, x>> \notin Less
  BY <1>1, WFMin, Zenon
<1>4. ASSUME NEW y \in S
      PROVE  x <= y
  <2>1. x \in Nat /\ y \in Nat /\ <<y, x>> \notin Less
    BY <1>3
  <2> QED BY <2>1, <1>2
<1> QED BY <1>4

(* The scan of the candidates finds nothing, or a public one of the list. *)
LEMMA FirstPublicIsListed ==
  ASSUME NEW addrs \in Seq(Addr)
  PROVE  \/ FirstPublic(addrs) = NoAddr
         \/ \E i \in DOMAIN addrs : IsPublic(addrs[i]) /\ FirstPublic(addrs) = addrs[i]
<1> DEFINE public == {i \in DOMAIN addrs : IsPublic(addrs[i])}
           Pick(i) == IsPublic(addrs[i]) /\ \A j \in 1..(i-1) : ~IsPublic(addrs[j])
<1>1. CASE public = {}
  BY <1>1 DEF FirstPublic
<1>2. CASE public # {}
  <2>1. public \subseteq Nat
    OBVIOUS
  <2>2. PICK i \in public : \A j \in public : i <= j
    BY <1>2, <2>1, LeastExists
  <2>3. i \in DOMAIN addrs /\ IsPublic(addrs[i])
    OBVIOUS
  <2>4. ASSUME NEW j \in 1..(i-1) PROVE ~IsPublic(addrs[j])
    BY <2>2, <2>3
  <2>5. \E n \in DOMAIN addrs : Pick(n)
    BY <2>3, <2>4
  <2>6. FirstPublic(addrs) = addrs[CHOOSE n \in DOMAIN addrs : Pick(n)]
    BY <1>2 DEF FirstPublic
  <2> HIDE DEF Pick
  <2>7. Pick(CHOOSE n \in DOMAIN addrs : Pick(n)) /\ (CHOOSE n \in DOMAIN addrs : Pick(n)) \in DOMAIN addrs
    BY <2>5
  <2> QED BY <2>6, <2>7 DEF Pick
<1> QED BY <1>1, <1>2

(* Resolve answers with no address or a usable one of the entry. *)
LEMMA BestIsUsable ==
  ASSUME NEW e \in Entry
  PROVE  BestAddr(e) \in Usable(e) \cup {NoAddr} /\ Usable(e) \subseteq Addr
<1>1. CASE e = Absent
  BY <1>1 DEF BestAddr, Usable
<1>2. CASE e # Absent
  <2>1. e.cur \in Addr \cup {NoAddr} /\ e.relayed \in BOOLEAN /\ e.addrs \in Seq(Addr)
    BY <1>2 DEF Entry, PeerStatus
  <2>2. Usable(e) \subseteq Addr
    BY <1>2, <2>1 DEF Usable
  <2>3. CASE e.cur # NoAddr /\ ~e.relayed
    BY <1>2, <2>1, <2>2, <2>3 DEF BestAddr, Usable
  <2>4. CASE ~(e.cur # NoAddr /\ ~e.relayed)
    <3>1. BestAddr(e) = FirstPublic(e.addrs)
      BY <1>2, <2>4 DEF BestAddr
    <3> QED BY <1>2, <2>1, <2>2, <3>1, FirstPublicIsListed DEF Usable, IsPublic
  <2> QED BY <2>3, <2>4
<1> QED BY <1>1, <1>2
----------------------------------------------------------------------------
(* A lookup that takes its second look, or has returned, is of a peer: Run *)
(* stops at the install.                                                   *)
Place == {st \in CallState : st.at \in {"reread", "done"} => st.peer \in Peers}

EPInv == EPTypeOK /\ \A c \in Callers : call[c] \in Place

(* A caller's place may be replaced by any other. *)
LEMMA CallReplaced ==
  ASSUME EPInv, NEW c \in Callers, NEW st \in Place,
         call' = [call EXCEPT ![c] = st], UNCHANGED <<status, peers, fresh>>
  PROVE  EPInv'
BY DEF EPInv, EPTypeOK, Place

LEMMA IdleType == Idle \in Place
BY DEF Idle, Place, CallState, Entry

LEMMA IdleHolds ==
  Idle.at = "idle" /\ Idle.peer = Absent /\ Idle.entry = Absent /\ \A p \in Peers : Idle.answer[p] = Absent
BY DEF Idle

LEMMA EPInitTypes == EPInit => EPInv
<1> SUFFICES ASSUME EPInit PROVE EPInv
  OBVIOUS
<1>1. status \in [Peers -> Entry]
  BY EndpointAssumption DEF EPInit, Report
<1> QED BY <1>1, IdleType DEF EPInit, EPInv, EPTypeOK, Entry, Place

(* The steps a caller takes in the cache, and those that are no caller's. *)
CallerStep(c) == Tick(c) \/ Progress(c) \/ Consume(c) \/ \E p \in Peers : Lookup(c, p)

EPStep ==
  \/ \E c \in Callers : CallerStep(c)
  \/ \E p \in Peers : Invalidate(p)
  \/ Expire \/ SidecarChange

LEMMA CallerStepTypes ==
  ASSUME EPInv, NEW c \in Callers, CallerStep(c)
  PROVE  EPInv'
<1> DEFINE Became(st) == call' = [call EXCEPT ![c] = st] /\ UNCHANGED <<status, peers, fresh>>
<1>0. call[c] \in Place /\ call[c].peer \in Peers \cup {Absent}
      /\ call[c].answer \in [Peers -> Entry]
  BY DEF EPInv, Place, CallState
<1>1. ASSUME NEW p \in Peers, Lookup(c, p) PROVE EPInv'
  <2>1. \/ Became([Idle EXCEPT !.at = "done", !.peer = p, !.entry = peers[p]])
        \/ Became([Idle EXCEPT !.at = "ask", !.peer = p])
    BY <1>1 DEF Lookup
  <2>2. [Idle EXCEPT !.at = "done", !.peer = p, !.entry = peers[p]] \in Place
    BY IdleType DEF EPInv, EPTypeOK, Place, CallState
  <2>3. [Idle EXCEPT !.at = "ask", !.peer = p] \in Place
    BY IdleType DEF Place, CallState
  <2> QED BY <2>1, <2>2, <2>3, CallReplaced
<1>2. CASE Tick(c)
  <2>1. [Idle EXCEPT !.at = "ask"] \in Place
    BY IdleType DEF Place, CallState
  <2> QED BY <1>2, <2>1, CallReplaced DEF Tick
<1>3. CASE StatusAnswered(c)
  <2>1. [call[c] EXCEPT !.at = "install", !.answer = status] \in Place
    BY <1>0 DEF EPInv, EPTypeOK, Place, CallState
  <2>2. call' = [call EXCEPT ![c] = [call[c] EXCEPT !.at = "install", !.answer = status]]
    BY <1>3 DEF StatusAnswered, EPInv, EPTypeOK, CallState
  <2> QED BY <1>3, <2>1, <2>2, CallReplaced DEF StatusAnswered
<1>4. CASE StatusFailed(c)
  <2>1. call[c].peer # Absent => [call[c] EXCEPT !.at = "reread"] \in Place
    BY <1>0 DEF Place, CallState
  <2> QED BY <1>4, <2>1, IdleType, CallReplaced DEF StatusFailed
<1>5. CASE Install(c)
  <2>1. call[c].peer # Absent => [Idle EXCEPT !.at = "reread", !.peer = call[c].peer] \in Place
    BY <1>0, IdleType DEF Place, CallState
  <2>2. PICK st \in Place : call' = [call EXCEPT ![c] = st]
    BY <1>5, <2>1, IdleType DEF Install
  <2>3. st \in CallState
    BY DEF Place
  <2> QED BY <1>0, <1>5, <2>2, <2>3 DEF Install, EPInv, EPTypeOK
<1>6. CASE Reread(c)
  <2>1. call[c].peer \in Peers
    BY <1>0, <1>6 DEF Reread, Place
  <2>2. [call[c] EXCEPT !.at = "done", !.entry = peers[call[c].peer]] \in Place
    BY <1>0, <2>1 DEF EPInv, EPTypeOK, Place, CallState
  <2> QED BY <1>6, <2>2, CallReplaced DEF Reread
<1>7. CASE Consume(c)
  BY <1>7, IdleType, CallReplaced DEF Consume
<1> QED BY <1>1, <1>2, <1>3, <1>4, <1>5, <1>6, <1>7 DEF CallerStep, Progress

(* Each step of the cache keeps the types of its variables. *)
LEMMA EPStepTypes == EPInv /\ EPStep => EPInv'
<1> SUFFICES ASSUME EPInv, EPStep PROVE EPInv'
  OBVIOUS
<1>1. CASE Expire \/ \E p \in Peers : Invalidate(p)
  BY <1>1 DEF Invalidate, Expire, EPInv, EPTypeOK, Entry
<1>2. CASE SidecarChange
  BY <1>2, EndpointAssumption DEF SidecarChange, EPInv, EPTypeOK
<1> QED BY <1>1, <1>2, CallerStepTypes DEF EPStep

----------------------------------------------------------------------------
(* What the history knows covers all the cache could answer: the map, the  *)
(* answers still to be installed, and the entries handed to lookups.       *)
HeardInv ==
  /\ EPInv
  /\ known \in [Peers -> SUBSET Addr]
  /\ \A p \in Peers : Usable(peers[p]) \subseteq known[p]
  /\ \A c \in Callers : \A p \in Peers : Usable(call[c].answer[p]) \subseteq known[p]
  /\ \A c \in Callers : call[c].at = "done" =>
       Usable(call[c].entry) \subseteq known[call[c].peer]

LEMMA UsableAbsent == Usable(Absent) = {}
BY DEF Usable

(* A step of one caller that learns nothing: what it now holds is known. *)
LEMMA CallerHeard ==
  ASSUME HeardInv, EPInv', NEW c \in Callers, UNCHANGED <<peers, known>>,
         \A d \in Callers \ {c} : call'[d] = call[d],
         \A p \in Peers : Usable(call'[c].answer[p]) \subseteq known[p],
         call'[c].at = "done" => Usable(call'[c].entry) \subseteq known[call'[c].peer]
  PROVE  HeardInv'
<1> USE DEF HeardInv
<1>1. \A d \in Callers : \A p \in Peers : Usable(call'[d].answer[p]) \subseteq known[p]
  OBVIOUS
<1>2. \A d \in Callers : call'[d].at = "done" =>
         Usable(call'[d].entry) \subseteq known[call'[d].peer]
  OBVIOUS
<1> QED BY <1>1, <1>2

LEMMA AnswerHeard ==
  ASSUME HeardInv, EPInv', NEW c \in Callers, Answer(c)
  PROVE  HeardInv'
<1> USE DEF HeardInv
<1>1. status \in [Peers -> Entry] /\ call \in [Callers -> CallState]
  BY DEF EPInv, EPTypeOK
<1>2. /\ call' = [call EXCEPT ![c].at = "install", ![c].answer = status]
      /\ known' = [p \in Peers |-> known[p] \cup Usable(status[p])]
      /\ UNCHANGED peers
  BY DEF Answer, StatusAnswered
<1>3. known' \in [Peers -> SUBSET Addr] /\ \A p \in Peers : known[p] \subseteq known'[p]
  BY <1>1, <1>2, BestIsUsable
<1>4. \A p \in Peers : Usable(call'[c].answer[p]) \subseteq known'[p]
  BY <1>1, <1>2 DEF CallState
<1>5. \A d \in Callers \ {c} : call'[d] = call[d]
  BY <1>1, <1>2
<1>6. call'[c].at = "install"
  BY <1>1, <1>2 DEF CallState
<1>7. \A d \in Callers : call'[d].at = "done" => d # c /\ call[d].peer \in Peers
  BY <1>5, <1>6 DEF EPInv, Place
<1> QED BY <1>2, <1>3, <1>4, <1>5, <1>7

LEMMA HeardStep ==
  ASSUME HeardInv, [AloneNext]_aloneVars
  PROVE  HeardInv'
<1>0. EPInv' /\ call \in [Callers -> CallState]
  <2>1. CASE UNCHANGED aloneVars
    BY <2>1 DEF aloneVars, epVars, HeardInv, EPInv, EPTypeOK
  <2>2. CASE AloneNext
    <3>1. EPStep
      BY <2>2 DEF AloneNext, Proceed, Answer, Progress, Start, Fail, EPStep, CallerStep
    <3> QED BY <3>1, EPStepTypes DEF HeardInv, EPInv, EPTypeOK
  <2> QED BY <2>1, <2>2 DEF HeardInv, EPInv, EPTypeOK
<1>1. CASE UNCHANGED aloneVars
  BY <1>0, <1>1 DEF aloneVars, epVars, HeardInv
<1>2. ASSUME NEW c \in Callers, Start, Tick(c) \/ Consume(c) \/ \E p \in Peers : Lookup(c, p)
      PROVE  HeardInv'
  <2>1. /\ UNCHANGED <<peers, known>>
        /\ \A d \in Callers \ {c} : call'[d] = call[d]
    BY <1>0, <1>2 DEF Start, Tick, Consume, Lookup
  <2>2. \/ call'[c] \in {Idle, [Idle EXCEPT !.at = "ask"]}
        \/ \E p \in Peers : call'[c] \in {[Idle EXCEPT !.at = "ask", !.peer = p],
                 [Idle EXCEPT !.at = "done", !.peer = p, !.entry = peers[p]]}
    BY <1>0, <1>2 DEF Tick, Consume, Lookup
  <2>3. \A p \in Peers : call'[c].answer[p] = Absent
    BY <2>2, IdleType, IdleHolds DEF Place, CallState
  <2>4. call'[c].at = "done" => \E p \in Peers : call'[c].peer = p /\ call'[c].entry = peers[p]
    BY <2>2, IdleType, IdleHolds DEF Place, CallState
  <2> QED BY <1>0, <2>1, <2>3, <2>4, UsableAbsent, CallerHeard DEF HeardInv
<1>3. ASSUME NEW c \in Callers, StatusFailed(c) \/ Reread(c), UNCHANGED known
      PROVE  HeardInv'
  <2>1. /\ UNCHANGED <<peers, known>>
        /\ \A d \in Callers \ {c} : call'[d] = call[d]
    BY <1>0, <1>3 DEF StatusFailed, Reread
  <2>2. call'[c] \in {Idle, [call[c] EXCEPT !.at = "reread"],
                      [call[c] EXCEPT !.at = "done", !.entry = peers[call[c].peer]]}
    BY <1>0, <1>3 DEF StatusFailed, Reread
  <2>3. call[c] \in CallState
    BY <1>0
  <2>4. \A p \in Peers : call'[c].answer[p] \in {call[c].answer[p], Absent}
    BY <2>2, <2>3, IdleType, IdleHolds DEF Place, CallState
  <2>5. call'[c].at = "done" => call'[c].peer = call[c].peer /\ call'[c].entry = peers[call[c].peer]
    BY <2>2, <2>3, IdleType, IdleHolds DEF Place, CallState
  <2>6. call'[c].at = "done" => call'[c].peer \in Peers
    BY <1>0 DEF EPInv, Place
  <2> QED BY <1>0, <2>1, <2>4, <2>5, <2>6, UsableAbsent, CallerHeard DEF HeardInv
<1>4. ASSUME NEW c \in Callers, Install(c), UNCHANGED known
      PROVE  HeardInv'
  <2>1. peers' = call[c].answer /\ \A d \in Callers \ {c} : call'[d] = call[d]
    BY <1>0, <1>4 DEF Install
  <2>2. call'[c].answer = [p \in Peers |-> Absent] /\ call'[c].at # "done"
    BY <1>0, <1>4 DEF Install, Idle
  <2>3. \A p \in Peers : Usable(call[c].answer[p]) \subseteq known[p]
    BY DEF HeardInv
  <2>4. \A p \in Peers : Usable(peers'[p]) \subseteq known[p]
    BY <2>1, <2>3
  <2>5. \A d \in Callers : \A p \in Peers : Usable(call'[d].answer[p]) \subseteq known[p]
    <3> TAKE d \in Callers
    <3>1. CASE d = c
      BY <2>2, <3>1, UsableAbsent
    <3>2. CASE d # c
      BY <2>1, <3>2 DEF HeardInv
    <3> QED BY <3>1, <3>2
  <2>6. \A d \in Callers : call'[d].at = "done" => Usable(call'[d].entry) \subseteq known[call'[d].peer]
    BY <2>1, <2>2 DEF HeardInv
  <2>7. known' = known /\ known \in [Peers -> SUBSET Addr]
    BY <1>4 DEF HeardInv
  <2> QED BY <1>0, <2>4, <2>5, <2>6, <2>7 DEF HeardInv
<1>5. ASSUME NEW p \in Peers, Fail(p) PROVE HeardInv'
  <2>1. peers' = [peers EXCEPT ![p] = Absent] /\ UNCHANGED <<call, known>>
    BY <1>5 DEF Fail, Invalidate
  <2>2. peers \in [Peers -> Entry]
    BY DEF HeardInv, EPInv, EPTypeOK
  <2> QED BY <1>0, <2>1, <2>2, UsableAbsent DEF HeardInv
<1>6. ASSUME NEW c \in Callers, Proceed(c) PROVE HeardInv'
  BY <1>0, <1>3, <1>4, <1>6, AnswerHeard DEF Proceed
<1>7. CASE Start
  <2>1. CASE Expire \/ SidecarChange
    BY <1>0, <1>7, <2>1 DEF HeardInv, Start, Expire, SidecarChange
  <2> QED BY <1>2, <1>7, <2>1 DEF Start
<1> QED BY <1>1, <1>5, <1>6, <1>7 DEF AloneNext

(* An address handed to route for a peer is one that some answer of the    *)
(* sidecar made usable for that very peer, for any number of goroutines    *)
(* refreshing, invalidating and looking up at once (endpoint.go:46-76,     *)
(* 109-149).                                                               *)
THEOREM ResolvesWhatWasReported == AloneSpec => []ResolvedWasReported
<1>1. AloneInit => HeardInv
  <2> SUFFICES ASSUME AloneInit PROVE HeardInv
    OBVIOUS
  <2> QED BY EPInitTypes, UsableAbsent DEF AloneInit, HeardInv, EPInit, Idle
<1>2. HeardInv /\ [AloneNext]_aloneVars => HeardInv'
  BY HeardStep
<1>3. HeardInv => ResolvedWasReported
  <2> SUFFICES ASSUME HeardInv, NEW c \in Callers, call[c].at = "done", Resolved(c) # NoAddr
               PROVE  Resolved(c) \in known[call[c].peer]
    BY DEF ResolvedWasReported
  <2>1. call[c].entry \in Entry
    BY DEF HeardInv, EPInv, EPTypeOK, CallState
  <2> QED BY <2>1, BestIsUsable DEF Resolved, HeardInv
<1> QED BY <1>1, <1>2, <1>3, PTL DEF AloneSpec

----------------------------------------------------------------------------
(* The handlers of the relay. *)

Proved == {"info", "register"} \cup Serving \cup Leaving   \* clientKey is known

HandlerTypes ==
  /\ pc \in [Conns -> Phases]
  /\ ckey \in [Conns -> Peers \cup {Absent}]
  /\ clients \in [Peers -> Conns \cup {NoConn}]

(* A connection has no key until its handshake proves one, then keeps it.  *)
KeyInv ==
  \A c \in Conns :
    /\ pc[c] \in {"free", "hello"} => ckey[c] = Absent
    /\ pc[c] \in Proved => ckey[c] \in Peers

RegInv == HandlerTypes /\ KeyInv /\ RegisteredIsServing

(* A step that neither proves a key nor touches the map, neither enters nor *)
(* ends the serving phases, and enters none for which a key is needed.      *)
Moves(c) ==
  /\ UNCHANGED <<ckey, clients>>
  /\ \/ UNCHANGED pc
     \/ \E to \in Phases :
          /\ pc' = [pc EXCEPT ![c] = to]
          /\ pc[c] \in Serving <=> to \in Serving
          /\ to \in Proved => pc[c] \in Proved
          /\ to \in {"free", "hello"} => pc[c] = "free"

LEMMA MovesKeep ==
  ASSUME NEW c \in Conns, RegInv, Moves(c)
  PROVE  RegInv'
<1> USE DEF RegInv, HandlerTypes
<1>1. CASE UNCHANGED pc
  BY <1>1 DEF Moves, KeyInv, RegisteredIsServing
<1>2. ASSUME NEW to \in Phases, pc' = [pc EXCEPT ![c] = to],
             (pc[c] \in Serving <=> to \in Serving), (to \in Proved => pc[c] \in Proved),
             (to \in {"free", "hello"} => pc[c] = "free")
      PROVE  RegInv'
  <2>1. UNCHANGED <<ckey, clients>>
    BY DEF Moves
  <2>2. HandlerTypes'
    BY <1>2, <2>1
  <2>3. KeyInv'
    BY <1>2, <2>1 DEF KeyInv
  <2>4. RegisteredIsServing'
    <3> SUFFICES ASSUME NEW k \in Peers, clients[k] # NoConn
                 PROVE  ckey[clients[k]] = k /\ pc'[clients[k]] \in Serving
      BY <2>1 DEF RegisteredIsServing
    <3>1. clients[k] \in Conns /\ ckey[clients[k]] = k /\ pc[clients[k]] \in Serving
      BY DEF RegisteredIsServing
    <3> QED BY <1>2, <3>1
  <2> QED BY <2>2, <2>3, <2>4
<1> QED BY <1>1, <1>2 DEF Moves

LEMMA ClientMoves ==
  ASSUME NEW c \in Conns, HandlerTypes, Client(c), (\A k \in Clients[c] : ~ClientInfo(c, k))
  PROVE  Moves(c)
<1> USE DEF Moves, Phases, Handshake, Routing, Leaving, Serving, Proved, Goto, Env
<1>1. CASE Connect(c)
  BY <1>1 DEF Connect
<1>2. CASE ClientDies(c)
  BY <1>2 DEF ClientDies
<1>3. CASE ClientStalls(c) \/ ClientReads(c)
  BY <1>3 DEF ClientStalls, ClientReads
<1>4. CASE \E f \in Frames : ClientSends(c, f)
  BY <1>4 DEF ClientSends
<1> QED BY <1>1, <1>2, <1>3, <1>4 DEF Client

LEMMA HandlerMoves ==
  ASSUME NEW c \in Conns, HandlerTypes, Handler(c) \/ KeepAliveTick(c), ~Register(c), ~Deregister(c)
  PROVE  Moves(c)
<1> USE DEF Moves, Phases, Handshake, Routing, Leaving, Serving, Proved, Goto, Return, Quiet, Route
<1>1. CASE HandshakeFails(c) \/ ServerInfo(c)
  BY <1>1 DEF HandshakeFails, ServerInfo
<1>2. CASE Dispatch(c)
  BY <1>2 DEF Dispatch
<1>3. CASE ReadError(c) \/ KeepAliveTick(c) \/ KeepAliveSent(c) \/ Pong(c)
  BY <1>3 DEF ReadError, KeepAliveTick, KeepAliveSent, Pong
<1>4. CASE RouteLookup(c)
  BY <1>4 DEF RouteLookup
<1>5. CASE LocalSend(c) \/ Resolving(c) \/ ResolveDone(c)
  BY <1>5 DEF LocalSend, Resolving, ResolveDone
<1>6. CASE GetOrCreate(c)
  BY <1>6 DEF GetOrCreate
<1>7. CASE SendUDP(c) \/ InvalidateDest(c)
  BY <1>7 DEF SendUDP, InvalidateDest
<1>8. CASE RemoveSession(c) \/ CloseOne(c) \/ RemoveReturns(c)
  BY <1>8 DEF RemoveSession, CloseOne, RemoveReturns
<1>9. CASE RemoveAll(c) \/ Finish(c)
  BY <1>9 DEF RemoveAll, Finish
<1> QED BY <1>1, <1>2, <1>3, <1>4, <1>5, <1>6, <1>7, <1>8, <1>9 DEF Handler

LEMMA ClientInfoKeeps ==
  ASSUME NEW c \in Conns, NEW k \in Clients[c], RegInv, ClientInfo(c, k)
  PROVE  RegInv'
<1> USE DEF RegInv, HandlerTypes
<1>1. /\ pc[c] = "hello" /\ pc' = [pc EXCEPT ![c] = "info"]
      /\ ckey' = [ckey EXCEPT ![c] = k] /\ clients' = clients
  BY DEF ClientInfo, Goto
<1>2. k \in Peers
  BY RelayAssumption
<1>3. HandlerTypes'
  BY <1>1, <1>2 DEF Phases, Handshake
<1>4. "hello" \notin Serving
  BY DEF Serving, Routing
<1>5. KeyInv'
  BY <1>1, <1>2 DEF KeyInv
<1>6. RegisteredIsServing'
  BY <1>1, <1>4 DEF RegisteredIsServing
<1> QED BY <1>3, <1>5, <1>6

LEMMA RegisterKeeps ==
  ASSUME NEW c \in Conns, RegInv, Register(c)
  PROVE  RegInv'
<1> USE DEF RegInv, HandlerTypes
<1>1. /\ pc[c] = "register" /\ pc' = [pc EXCEPT ![c] = "loop"]
      /\ ckey' = ckey /\ clients' = [clients EXCEPT ![ckey[c]] = c]
  BY DEF Register, Goto
<1>2. ckey[c] \in Peers
  BY <1>1 DEF KeyInv, Proved
<1>3. HandlerTypes'
  BY <1>1, <1>2 DEF Phases
<1>4. KeyInv'
  BY <1>1, <1>2 DEF KeyInv
<1>5. "register" \notin Serving /\ "loop" \in Serving
  BY DEF Serving, Routing
<1>6. RegisteredIsServing'
  BY <1>1, <1>2, <1>5 DEF RegisteredIsServing
<1> QED BY <1>3, <1>4, <1>6

LEMMA DeregisterKeeps ==
  ASSUME NEW c \in Conns, RegInv, Deregister(c)
  PROVE  RegInv'
<1> USE DEF RegInv, HandlerTypes
<1>1. /\ pc[c] = "deregister" /\ pc' = [pc EXCEPT ![c] = "removeall"]
      /\ ckey' = ckey /\ clients' = [clients EXCEPT ![ckey[c]] = NoConn]
  BY DEF Deregister, Goto
<1>2. ckey[c] \in Peers
  BY <1>1 DEF KeyInv, Proved, Serving
<1>3. HandlerTypes'
  BY <1>1 DEF Phases, Leaving
<1>4. KeyInv'
  BY <1>1, <1>2 DEF KeyInv
<1>5. RegisteredIsServing'
  <2> SUFFICES ASSUME NEW k \in Peers, clients'[k] # NoConn
               PROVE  ckey[clients'[k]] = k /\ pc'[clients'[k]] \in Serving
    BY <1>1 DEF RegisteredIsServing
  <2>1. k # ckey[c] /\ clients'[k] = clients[k]
    BY <1>1, <1>2
  <2>2. clients[k] \in Conns /\ ckey[clients[k]] = k /\ pc[clients[k]] \in Serving
    BY <2>1 DEF RegisteredIsServing
  <2>3. clients[k] # c
    BY <2>1, <2>2
  <2> QED BY <1>1, <2>1, <2>2, <2>3
<1> QED BY <1>3, <1>4, <1>5

LEMMA RegKept ==
  ASSUME RegInv, [Next]_vars
  PROVE  RegInv'
<1>1. ASSUME NEW c \in Conns, Client(c) PROVE RegInv'
  BY <1>1, ClientMoves, ClientInfoKeeps, MovesKeep DEF RegInv
<1>2. ASSUME NEW c \in Conns, Handler(c) \/ KeepAliveTick(c) PROVE RegInv'
  BY <1>2, HandlerMoves, RegisterKeeps, DeregisterKeeps, MovesKeep DEF RegInv
<1>3. CASE UNCHANGED <<pc, ckey, clients>>
  BY <1>3 DEF RegInv, HandlerTypes, KeyInv, RegisteredIsServing
<1>4. ASSUME NEW s \in Sessions, SessionLoop(s) PROVE UNCHANGED <<pc, ckey, clients>>
  BY <1>4 DEF SessionLoop, Beside, hVars
<1>5. Ticker \/ Network \/ UNCHANGED vars => UNCHANGED <<pc, ckey, clients>>
  BY DEF Ticker, Network, vars, hVars
<1> QED BY <1>1, <1>2, <1>3, <1>4, <1>5 DEF Next

----------------------------------------------------------------------------
(* The phases from a packet of the client to the end of its route.         *)
InRoute == {"route", "local", "lookup", "create", "send", "invalidate", "remove", "close"}

(* A handler in route has a destination its client asked for; a connection *)
(* it found in the clients map is the destination's; it makes a session    *)
(* for an address, and holds sockets only in the phases that close them.   *)
LocalsHold(c) ==
  /\ pc[c] \in InRoute => loc[c].dest \in Peers /\ <<ckey[c], loc[c].dest>> \in asked
  /\ pc[c] = "local" => loc[c].dcc \in Conns /\ ckey[loc[c].dcc] = loc[c].dest
  /\ pc[c] = "create" => loc[c].addr \in Addr
  /\ toClose[c] # {} => pc[c] \in {"close", "closeall"}

LocalsInv == \A c \in Conns : LocalsHold(c)

(* A session is of a pair its client has asked for, and of a connection of *)
(* that client; only a session that was made is open or in the table.      *)
MadeInv ==
  /\ \A s \in Sessions :
       /\ sess[s].open => sess[s].loop # "none"
       /\ sess[s].loop # "none" =>
            /\ sess[s].src \in Peers /\ sess[s].dst \in Peers /\ sess[s].addr \in Addr
            /\ sess[s].conn \in Conns /\ ckey[sess[s].conn] = sess[s].src
            /\ <<sess[s].src, sess[s].dst>> \in asked
  /\ \A k \in Peers \X Peers : sessions[k] # NoSession => sess[sessions[k]].loop # "none"

RelayInv ==
  /\ TypeOK /\ EPInv
  /\ KeyInv /\ RegisteredIsServing
  /\ LocalsInv /\ MadeInv
  /\ SessionsHaveHandler /\ NoSocketLeak

(* The steps that write the session table, the Session objects, or the     *)
(* handler's list of sockets to close.                                     *)
SessionStep(c) == GetOrCreate(c) \/ RemoveSession(c) \/ CloseOne(c) \/ RemoveAll(c)

LEMMA HandlerTouches ==
  ASSUME NEW c \in Conns, Handler(c) \/ KeepAliveTick(c)
  PROVE  /\ UNCHANGED ckey
         /\ Dispatch(c) \/ UNCHANGED asked
         /\ LocalSend(c) \/ UNCHANGED delivered
         /\ SessionStep(c) \/ UNCHANGED <<sessions, sess, toClose>>
<1> USE DEF SessionStep, Route, Quiet, stVars
<1>1. CASE HandshakeFails(c) \/ ServerInfo(c) \/ Register(c)
  BY <1>1 DEF HandshakeFails, ServerInfo, Register
<1>2. CASE Dispatch(c) \/ ReadError(c) \/ KeepAliveTick(c) \/ KeepAliveSent(c) \/ Pong(c)
  BY <1>2 DEF Dispatch, ReadError, KeepAliveTick, KeepAliveSent, Pong
<1>3. CASE RouteLookup(c) \/ LocalSend(c) \/ Resolving(c) \/ ResolveDone(c)
  BY <1>3 DEF RouteLookup, LocalSend, Resolving, ResolveDone
<1>4. CASE SessionStep(c)
  BY <1>4 DEF GetOrCreate, RemoveSession, CloseOne, RemoveAll
<1>5. CASE SendUDP(c) \/ InvalidateDest(c) \/ RemoveReturns(c) \/ Deregister(c) \/ Finish(c)
  BY <1>5 DEF SendUDP, InvalidateDest, RemoveReturns, Deregister, Finish
<1> QED BY <1>1, <1>2, <1>3, <1>4, <1>5 DEF Handler

LEMMA ClientTouches ==
  ASSUME NEW c \in Conns, Client(c)
  PROVE  /\ UNCHANGED <<epVars, stVars, clients, loc, toClose, asked, delivered>>
         /\ (\E k \in Clients[c] : ClientInfo(c, k)) \/ UNCHANGED ckey
<1>1. CASE Connect(c) \/ ClientDies(c) \/ ClientStalls(c) \/ ClientReads(c)
  BY <1>1 DEF Connect, ClientDies, ClientStalls, ClientReads, Env
<1>2. CASE \E f \in Frames : ClientSends(c, f)
  BY <1>2 DEF ClientSends, Env
<1>3. CASE \E k \in Clients[c] : ClientInfo(c, k)
  BY <1>3 DEF ClientInfo, Quiet
<1> QED BY <1>1, <1>2, <1>3 DEF Client

(* What was proved stays proved and what was asked stays asked. *)
LEMMA HistoryKept ==
  ASSUME RelayInv, [Next]_vars
  PROVE  /\ asked \subseteq asked'
         /\ \A d \in Conns : ckey[d] # Absent => ckey'[d] = ckey[d]
<1> USE DEF RelayInv, TypeOK
<1>1. ASSUME NEW c \in Conns, NEW k \in Clients[c], ClientInfo(c, k)
      PROVE  \A d \in Conns : ckey[d] # Absent => ckey'[d] = ckey[d]
  <2>1. ckey[c] = Absent /\ ckey' = [ckey EXCEPT ![c] = k]
    BY <1>1 DEF ClientInfo, Goto, KeyInv
  <2> QED BY <2>1
<1>2. ASSUME NEW c \in Conns, Dispatch(c) PROVE asked \subseteq asked'
  BY <1>2 DEF Dispatch
<1>3. ASSUME NEW c \in Conns, Client(c) \/ Handler(c) \/ KeepAliveTick(c)
      PROVE  /\ asked \subseteq asked'
             /\ (\E k \in Clients[c] : ClientInfo(c, k)) \/ UNCHANGED ckey
  BY <1>2, <1>3, ClientTouches, HandlerTouches
<1>4. ASSUME NEW s \in Sessions, SessionLoop(s) PROVE UNCHANGED <<ckey, asked>>
  BY <1>4 DEF SessionLoop, Beside, hVars
<1>5. Ticker \/ Network \/ UNCHANGED vars => UNCHANGED <<ckey, asked>>
  BY DEF Ticker, Network, vars, hVars
<1> QED BY <1>1, <1>3, <1>4, <1>5 DEF Next

----------------------------------------------------------------------------
(* The relay uses the endpoint cache by the cache's own steps only. *)
LEMMA CacheSteps ==
  ASSUME RelayInv, [Next]_vars
  PROVE  EPStep \/ UNCHANGED epVars
<1> USE RelayAssumption DEF EPStep, CallerStep
<1>1. ASSUME NEW c \in Conns, Handler(c) \/ KeepAliveTick(c)
      PROVE  EPStep \/ UNCHANGED epVars
  <2> USE DEF Route, Quiet
  <2>1. CASE RouteLookup(c)
    <3>1. Dest(c) \in Peers
      BY <2>1 DEF RouteLookup, RelayInv, LocalsInv, LocalsHold, InRoute, Dest
    <3> QED BY <2>1, <3>1 DEF RouteLookup
  <2>2. CASE InvalidateDest(c)
    <3>1. Dest(c) \in Peers
      BY <2>2 DEF InvalidateDest, Goto, RelayInv, LocalsInv, LocalsHold, InRoute, Dest
    <3> QED BY <2>2, <3>1 DEF InvalidateDest
  <2>3. CASE Resolving(c) \/ ResolveDone(c)
    BY <2>3 DEF Resolving, ResolveDone
  <2>4. CASE HandshakeFails(c) \/ ServerInfo(c) \/ Register(c) \/ Dispatch(c) \/ ReadError(c)
               \/ KeepAliveTick(c) \/ KeepAliveSent(c) \/ Pong(c)
    BY <2>4 DEF HandshakeFails, ServerInfo, Register, Dispatch, ReadError, KeepAliveTick,
                KeepAliveSent, Pong
  <2>5. CASE LocalSend(c) \/ SessionStep(c) \/ SendUDP(c) \/ RemoveReturns(c)
    BY <2>5 DEF LocalSend, SessionStep, GetOrCreate, SendUDP, RemoveSession, CloseOne,
                RemoveReturns, RemoveAll
  <2>6. CASE Deregister(c) \/ Finish(c)
    BY <2>6 DEF Deregister, Finish
  <2> QED BY <1>1, <2>1, <2>2, <2>3, <2>4, <2>5, <2>6 DEF Handler, SessionStep
<1>2. ASSUME NEW c \in Conns, Client(c) PROVE UNCHANGED epVars
  BY <1>2, ClientTouches
<1>3. ASSUME NEW s \in Sessions, SessionLoop(s) PROVE UNCHANGED epVars
  BY <1>3 DEF SessionLoop, Beside
<1>4. Ticker \/ Network => EPStep
  BY DEF Ticker, Network
<1>5. UNCHANGED vars => UNCHANGED epVars
  BY DEF vars
<1> QED BY <1>1, <1>2, <1>3, <1>4, <1>5 DEF Next

(* A handler's own step leaves its locals in order. *)
LEMMA OwnLocals ==
  ASSUME RelayInv, NEW c \in Conns, Handler(c) \/ KeepAliveTick(c)
  PROVE  LocalsHold(c)'
<1> USE DEF Goto, Return, LocalsHold, InRoute
<1>0. /\ pc \in [Conns -> Phases] /\ loc \in [Conns -> Locals] /\ LocalsHold(c)
      /\ toClose \in [Conns -> SUBSET Sessions] /\ UNCHANGED ckey
  BY HandlerTouches DEF RelayInv, TypeOK, LocalsInv
<1> DEFINE Elsewhere == {"hello", "info", "register", "loop", "pong", "keepalive", "deregister",
                          "removeall", "done"}
<1>1. ASSUME NEW to \in Elsewhere, pc' = [pc EXCEPT ![c] = to], UNCHANGED toClose, toClose[c] = {}
      PROVE  LocalsHold(c)'
  BY <1>0, <1>1
<1>2. CASE HandshakeFails(c) \/ ServerInfo(c) \/ Register(c)
  BY <1>0, <1>1, <1>2 DEF HandshakeFails, ServerInfo, Register, Quiet
<1>3. CASE Dispatch(c)
  <2>1. CASE Head(inbox[c]) \in Peers
    BY <1>0, <1>3, <2>1 DEF Dispatch, Locals
  <2> QED BY <1>0, <1>3, <2>1 DEF Dispatch, Locals
<1>4. CASE ReadError(c) \/ KeepAliveTick(c) \/ KeepAliveSent(c) \/ Pong(c)
  BY <1>0, <1>1, <1>4 DEF ReadError, KeepAliveTick, KeepAliveSent, Pong, Quiet
<1>5. CASE RouteLookup(c)
  <2>1. pc[c] = "route" /\ UNCHANGED <<asked, toClose>> /\ Dest(c) = loc[c].dest /\ Dest(c) \in Peers
    BY <1>0, <1>5 DEF RouteLookup, Route, Dest
  <2>2. CASE clients[Dest(c)] = NoConn
    BY <1>0, <1>5, <2>1, <2>2 DEF RouteLookup
  <2>3. CASE clients[Dest(c)] # NoConn
    <3>1. clients[Dest(c)] \in Conns /\ ckey[clients[Dest(c)]] = Dest(c)
      BY <2>1, <2>3 DEF RelayInv, TypeOK, RegisteredIsServing
    <3>2. pc' = [pc EXCEPT ![c] = "local"] /\ loc' = [loc EXCEPT ![c].dcc = clients[Dest(c)]]
      BY <1>5, <2>3 DEF RouteLookup
    <3> QED BY <1>0, <2>1, <3>1, <3>2 DEF Locals
  <2> QED BY <2>2, <2>3
<1>6. CASE LocalSend(c)
  BY <1>0, <1>6 DEF LocalSend, Route
<1>7. CASE Resolving(c)
  BY <1>0, <1>7 DEF Resolving, Route
<1>8. CASE ResolveDone(c)
  <2>1. c \in Callers /\ call[c].entry \in Entry
    BY RelayAssumption DEF RelayInv, EPInv, EPTypeOK, CallState
  <2>2. Resolved(c) \in Addr \cup {NoAddr}
    BY <2>1, BestIsUsable DEF Resolved
  <2> QED BY <1>0, <1>8, <2>2 DEF ResolveDone, Route, Locals
<1>9. CASE GetOrCreate(c)
  BY <1>0, <1>9 DEF GetOrCreate, Route, Locals
<1>10. CASE SendUDP(c) \/ InvalidateDest(c)
  BY <1>0, <1>10 DEF SendUDP, InvalidateDest, Route, Locals
<1>11. CASE RemoveSession(c)
  BY <1>0, <1>11 DEF RemoveSession, Route
<1>12. CASE CloseOne(c)
  BY <1>0, <1>12 DEF CloseOne, Route
<1>13. CASE RemoveReturns(c)
  BY <1>0, <1>13 DEF RemoveReturns, Route
<1>14. CASE Deregister(c) \/ RemoveAll(c) \/ Finish(c)
  BY <1>0, <1>14 DEF Deregister, RemoveAll, Finish, Route, Quiet
<1> QED BY <1>2, <1>3, <1>4, <1>5, <1>6, <1>7, <1>8, <1>9, <1>10, <1>11, <1>12, <1>13, <1>14 DEF Handler

(* A handler's step leaves the place and the locals of the others alone. *)
LEMMA OthersAlone ==
  ASSUME TypeOK, NEW c \in Conns, Client(c) \/ Handler(c) \/ KeepAliveTick(c),
         NEW d \in Conns, d # c
  PROVE  pc'[d] = pc[d] /\ loc'[d] = loc[d] /\ toClose'[d] = toClose[d]
<1> USE DEF Goto, Return, Route, Quiet, Env
<1>0. /\ pc \in [Conns -> Phases] /\ loc \in [Conns -> Locals]
      /\ toClose \in [Conns -> SUBSET Sessions]
  BY DEF TypeOK
<1>1. CASE Client(c)
  BY <1>0, <1>1 DEF Client, Connect, ClientDies, ClientStalls, ClientReads, ClientInfo, ClientSends
<1>2. CASE HandshakeFails(c) \/ ServerInfo(c) \/ Register(c) \/ Dispatch(c) \/ ReadError(c)
  BY <1>0, <1>2 DEF HandshakeFails, ServerInfo, Register, Dispatch, ReadError
<1>3. CASE KeepAliveTick(c) \/ KeepAliveSent(c) \/ Pong(c) \/ RouteLookup(c) \/ LocalSend(c)
  BY <1>0, <1>3 DEF KeepAliveTick, KeepAliveSent, Pong, RouteLookup, LocalSend
<1>4. CASE Resolving(c) \/ ResolveDone(c) \/ GetOrCreate(c) \/ SendUDP(c) \/ InvalidateDest(c)
  BY <1>0, <1>4 DEF Resolving, ResolveDone, GetOrCreate, SendUDP, InvalidateDest
<1>5. CASE RemoveSession(c) \/ CloseOne(c) \/ RemoveReturns(c)
  BY <1>0, <1>5 DEF RemoveSession, CloseOne, RemoveReturns
<1>6. CASE Deregister(c) \/ RemoveAll(c) \/ Finish(c)
  BY <1>0, <1>6 DEF Deregister, RemoveAll, Finish
<1> QED BY <1>1, <1>2, <1>3, <1>4, <1>5, <1>6 DEF Handler

LEMMA LocalsKept ==
  ASSUME RelayInv, [Next]_vars
  PROVE  LocalsInv'
<1> USE DEF RelayInv, LocalsInv
<1>1. ASSUME NEW d \in Conns, pc'[d] = pc[d], loc'[d] = loc[d], toClose'[d] = toClose[d]
      PROVE  LocalsHold(d)'
  <2>1. pc[d] \in InRoute => ckey[d] # Absent
    BY EndpointAssumption DEF KeyInv, Proved, Serving, Routing, InRoute
  <2>2. asked \subseteq asked' /\ (ckey[d] # Absent => ckey'[d] = ckey[d])
    BY HistoryKept
  <2>3. pc[d] = "local" => ckey'[loc[d].dcc] = ckey[loc[d].dcc]
    <3> HAVE pc[d] = "local"
    <3>1. loc[d].dcc \in Conns /\ ckey[loc[d].dcc] = loc[d].dest /\ loc[d].dest \in Peers
      BY DEF LocalsHold, InRoute
    <3> HIDE DEF RelayInv, LocalsInv
    <3> QED BY <3>1, HistoryKept, EndpointAssumption
  <2> QED BY <1>1, <2>1, <2>2, <2>3 DEF LocalsHold, InRoute
<1>2. ASSUME NEW c \in Conns, Client(c)
      PROVE  LocalsHold(c)'
  <2>1. loc' = loc /\ toClose' = toClose /\ pc \in [Conns -> Phases]
    BY <1>2, ClientTouches DEF TypeOK
  <2>2. CASE UNCHANGED pc
    BY <1>1, <2>1, <2>2
  <2>3. CASE ~UNCHANGED pc
    <3>1. Connect(c) \/ \E k \in Clients[c] : ClientInfo(c, k)
      BY <1>2, <2>3 DEF Client, ClientDies, ClientStalls, ClientReads, ClientSends
    <3>2. pc[c] \in {"free", "hello"} /\ pc'[c] \in {"hello", "info"}
      BY <2>1, <3>1 DEF Connect, ClientInfo, Goto
    <3> QED BY <2>1, <3>2 DEF LocalsHold, InRoute
  <2> QED BY <2>2, <2>3
<1>3. ASSUME NEW c \in Conns, Client(c) \/ Handler(c) \/ KeepAliveTick(c)
      PROVE  LocalsInv'
  BY <1>1, <1>2, <1>3, OwnLocals, OthersAlone
<1>4. ASSUME UNCHANGED <<pc, loc, toClose>> PROVE LocalsInv'
  BY <1>1, <1>4
<1>5. ASSUME NEW s \in Sessions, SessionLoop(s) PROVE UNCHANGED <<pc, loc, toClose>>
  BY <1>5 DEF SessionLoop, Beside, hVars
<1>6. Ticker \/ Network \/ UNCHANGED vars => UNCHANGED <<pc, loc, toClose>>
  BY DEF Ticker, Network, vars, hVars
<1> QED BY <1>3, <1>4, <1>5, <1>6 DEF Next

----------------------------------------------------------------------------
SocketsInv == STTypeOK /\ MadeInv /\ SessionsHaveHandler /\ NoSocketLeak

(* Handlers that sessions may belong to stay: no step but RemoveAll ends   *)
(* the phases in which one still owns its client's sessions.               *)
Owning == Serving \cup {"removeall"}

OwnersStay == \A d \in Conns : pc[d] \in Owning => pc'[d] \in Owning

LEMMA OwningHasKey ==
  ASSUME RelayInv, NEW d \in Conns, pc[d] \in Owning
  PROVE  ckey[d] \in Peers /\ ckey[d] # Absent
BY EndpointAssumption DEF RelayInv, KeyInv, Owning, Proved, Leaving

(* The sockets and the table are left alone, and so is who closes what. *)
LEMMA SteadyKeeps ==
  ASSUME RelayInv, [Next]_vars, OwnersStay, UNCHANGED <<sessions, sess, toClose>>
  PROVE  SocketsInv'
<1> USE HistoryKept DEF RelayInv, SocketsInv
<1>1. STTypeOK' /\ NoSocketLeak'
  BY DEF TypeOK, STTypeOK, NoSocketLeak
<1>2. MadeInv'
  BY EndpointAssumption DEF MadeInv
<1>3. SessionsHaveHandler'
  <2> SUFFICES ASSUME NEW k \in Peers \X Peers, sessions[k] # NoSession
               PROVE  LET s == sess[sessions[k]] IN
                        /\ <<s.src, s.dst>> = k /\ s.conn # NoConn /\ ckey'[s.conn] = s.src
                        /\ pc'[s.conn] \in Owning
    BY DEF SessionsHaveHandler, Owning
  <2> DEFINE s == sess[sessions[k]]
  <2>1. /\ <<s.src, s.dst>> = k /\ s.conn # NoConn /\ ckey[s.conn] = s.src
        /\ pc[s.conn] \in Owning
    BY DEF SessionsHaveHandler, Owning
  <2>2. s.conn \in Conns
    BY <2>1 DEF TypeOK, STTypeOK, SessionState
  <2> QED BY <2>1, <2>2, OwningHasKey DEF OwnersStay
<1> QED BY <1>1, <1>2, <1>3

(* One Session object changes, but not whose it is, and is not reopened. *)
LEMMA SessionTouched ==
  ASSUME RelayInv, OwnersStay, UNCHANGED <<sessions, ckey, asked>>,
         NEW s \in Sessions, NEW new \in SessionState, sess' = [sess EXCEPT ![s] = new],
         new.src = sess[s].src, new.dst = sess[s].dst, new.conn = sess[s].conn,
         (new.loop = "none") <=> (sess[s].loop = "none"), new.loop # "none" => new.addr \in Addr,
         new.open => sess[s].open /\ UNCHANGED toClose,
         \A d \in Conns : toClose[d] \ {s} \subseteq toClose'[d]
  PROVE  SocketsInv'
<1> USE DEF RelayInv, SocketsInv
<1>1. sess \in [Sessions -> SessionState]
      /\ sessions \in [Peers \X Peers -> Sessions \cup {NoSession}]
  BY DEF TypeOK, STTypeOK
<1>2. STTypeOK'
  BY <1>1 DEF STTypeOK
<1>3. MadeInv'
  BY <1>1 DEF MadeInv
<1>4. SessionsHaveHandler'
  <2> SUFFICES ASSUME NEW k \in Peers \X Peers, sessions[k] # NoSession
               PROVE  LET t == sess'[sessions[k]] IN
                        /\ <<t.src, t.dst>> = k /\ t.conn # NoConn /\ ckey[t.conn] = t.src
                        /\ pc'[t.conn] \in Owning
    BY DEF SessionsHaveHandler, Owning
  <2> DEFINE old == sess[sessions[k]]
             t == sess'[sessions[k]]
  <2>1. /\ <<old.src, old.dst>> = k /\ old.conn # NoConn /\ ckey[old.conn] = old.src
        /\ pc[old.conn] \in Owning
    BY DEF SessionsHaveHandler, Owning
  <2>2. old.conn \in Conns
    BY <1>1, <2>1 DEF SessionState
  <2>3. t.src = old.src /\ t.dst = old.dst /\ t.conn = old.conn
    BY <1>1
  <2> QED BY <2>1, <2>2, <2>3 DEF OwnersStay
<1>5. NoSocketLeak'
  BY <1>1 DEF NoSocketLeak
<1> QED BY <1>2, <1>3, <1>4, <1>5

(* readLoop changes neither whose a session is nor whether it is open. *)
LEMMA LoopKeeps ==
  ASSUME RelayInv, NEW s \in Sessions, SessionLoop(s)
  PROVE  SocketsInv'
<1>1. UNCHANGED <<sessions, pc, ckey, asked, toClose>>
  BY DEF SessionLoop, LoopStart, LoopAccept, LoopFails, LoopReplied, Beside, hVars
<1>2. sess \in [Sessions -> SessionState] /\ sess[s] \in SessionState
  BY DEF RelayInv, TypeOK, STTypeOK
<1>3. sess[s].loop # "none"
  BY DEF SessionLoop, LoopStart, LoopAccept, LoopFails, LoopReplied
<1>4. sess[s].addr \in Addr /\ sess[s].addr.ip \in IPs
  BY <1>3 DEF RelayInv, MadeInv, Addr
<1>5. PICK l \in {"reading", "replying", "ended"}, ip \in IPs \cup {NoAddr} :
        sess' = [sess EXCEPT ![s] = [sess[s] EXCEPT !.loop = l, !.ip = ip]]
  <2>1. CASE LoopStart(s)
    <3>1. sess' = [sess EXCEPT ![s] = [sess[s] EXCEPT !.loop = "reading", !.ip = sess[s].addr.ip]]
      BY <1>2, <2>1 DEF LoopStart, SessionState
    <3> QED BY <1>4, <3>1
  <2>2. ASSUME NEW l \in {"reading", "replying", "ended"}, sess' = [sess EXCEPT ![s].loop = l]
        PROVE  sess' = [sess EXCEPT ![s] = [sess[s] EXCEPT !.loop = l, !.ip = sess[s].ip]]
    BY <1>2, <2>2 DEF SessionState
  <2>3. sess[s].ip \in IPs \cup {NoAddr}
    BY <1>2 DEF SessionState
  <2> QED BY <2>1, <2>2, <2>3 DEF SessionLoop, LoopAccept, LoopFails, LoopReplied
<1> DEFINE new == [sess[s] EXCEPT !.loop = l, !.ip = ip]
<1>6. /\ new \in SessionState /\ new.loop # "none" /\ new.src = sess[s].src
      /\ new.dst = sess[s].dst /\ new.addr = sess[s].addr /\ new.open = sess[s].open
      /\ new.conn = sess[s].conn
  BY <1>2 DEF SessionState
<1>7. OwnersStay
  BY <1>1 DEF OwnersStay
<1> HIDE DEF new
<1> QED BY <1>1, <1>3, <1>4, <1>5, <1>6, <1>7, SessionTouched DEF new

(* GetOrCreate: a new session is its pair's, and its maker serves; a reused *)
(* one only gets another address.                                           *)
LEMMA GetOrCreateKeeps ==
  ASSUME RelayInv, [Next]_vars, NEW c \in Conns, GetOrCreate(c)
  PROVE  SocketsInv'
<1> DEFINE k == Pair(c)
           addr == loc[c].addr
<1>1. /\ pc[c] = "create" /\ pc[c] \in Owning
      /\ \A d \in Conns : pc[d] \in Owning => pc'[d] \in Owning
      /\ UNCHANGED <<ckey, asked, toClose>>
  BY DEF GetOrCreate, Goto, Return, Route, RelayInv, TypeOK, Owning, Serving, Routing
<1>2. /\ ckey[c] \in Peers /\ Dest(c) \in Peers /\ k = <<ckey[c], Dest(c)>>
      /\ k \in Peers \X Peers /\ k \in asked /\ addr \in Addr
  BY <1>1, OwningHasKey DEF RelayInv, LocalsInv, LocalsHold, InRoute, Pair, Dest
<1>3. /\ sess \in [Sessions -> SessionState]
      /\ sessions \in [Peers \X Peers -> Sessions \cup {NoSession}]
  BY DEF RelayInv, TypeOK, STTypeOK
<1>4. CASE Reuse(ckey[c], Dest(c), addr)
  <2> DEFINE s == sessions[k]
             new == [sess[s] EXCEPT !.addr = addr]
  <2>1. s \in Sessions /\ sess' = [sess EXCEPT ![s].addr = addr] /\ UNCHANGED sessions
    BY <1>2, <1>3, <1>4 DEF Reuse
  <2>2. sess[s] \in SessionState
    BY <1>3, <2>1
  <2>3. sess' = [sess EXCEPT ![s] = new]
    BY <1>3, <2>1, <2>2 DEF SessionState
  <2>4. /\ new \in SessionState /\ new.loop = sess[s].loop /\ new.src = sess[s].src
        /\ new.dst = sess[s].dst /\ new.addr = addr /\ new.open = sess[s].open
        /\ new.conn = sess[s].conn
    BY <1>2, <2>2 DEF SessionState
  <2>5. OwnersStay
    BY <1>1 DEF OwnersStay
  <2> HIDE DEF new, s
  <2>6. /\ UNCHANGED <<sessions, ckey, asked>> /\ new.addr \in Addr
        /\ \A d \in Conns : toClose[d] \ {s} \subseteq toClose'[d]
        /\ new.open => sess[s].open /\ UNCHANGED toClose
    BY <1>1, <1>2, <2>1, <2>4
  <2>7. /\ new.src = sess[s].src /\ new.dst = sess[s].dst /\ new.conn = sess[s].conn
        /\ (new.loop = "none") <=> (sess[s].loop = "none")
        /\ new.loop # "none" => new.addr \in Addr
        /\ new.open => sess[s].open /\ UNCHANGED toClose
    BY <2>4, <2>6
  <2>8. s \in Sessions /\ new \in SessionState
    BY <2>1, <2>4
  <2> HIDE DEF k, addr
  <2> QED BY <2>3, <2>5, <2>6, <2>7, <2>8, SessionTouched
<1>5. ASSUME NEW s \in Sessions, Create(s, ckey[c], Dest(c), addr, c)
      PROVE  SocketsInv'
  <2> DEFINE new == [src |-> ckey[c], dst |-> Dest(c), addr |-> addr, open |-> TRUE,
                     conn |-> c, loop |-> "starting", ip |-> NoAddr]
  <2>1. /\ sessions[k] = NoSession /\ sess[s].loop = "none"
        /\ sessions' = [sessions EXCEPT ![k] = s] /\ sess' = [sess EXCEPT ![s] = new]
    BY <1>2, <1>5 DEF Create
  <2>2. /\ new \in SessionState /\ new.src = k[1] /\ new.dst = k[2] /\ <<new.src, new.dst>> = k
        /\ new.addr \in Addr /\ new.open = TRUE /\ new.conn = c /\ new.loop # "none" /\ ckey[c] = new.src
    BY <1>2 DEF SessionState
  <2> HIDE DEF new
  <2>3. STTypeOK'
    BY <1>2, <1>3, <2>1, <2>2 DEF STTypeOK
  <2>4. MadeInv'
    BY <1>1, <1>2, <1>3, <2>1, <2>2 DEF MadeInv, RelayInv
  <2>5. \A j \in Peers \X Peers : sessions[j] # s
    BY <2>1, SessionAssumption DEF RelayInv, MadeInv
  <2>6. SessionsHaveHandler'
    <3> SUFFICES ASSUME NEW j \in Peers \X Peers, sessions'[j] # NoSession
                 PROVE  LET t == sess'[sessions'[j]] IN
                          /\ <<t.src, t.dst>> = j /\ t.conn # NoConn /\ ckey'[t.conn] = t.src
                          /\ pc'[t.conn] \in Owning
      BY DEF SessionsHaveHandler, Owning
    <3>1. CASE j = k
      BY <1>1, <1>2, <1>3, <2>1, <2>2, <3>1, SessionAssumption
    <3>2. CASE j # k
      <4>1. sessions'[j] = sessions[j] /\ sess'[sessions[j]] = sess[sessions[j]] /\ sessions[j] \in Sessions
        BY <1>2, <1>3, <2>1, <2>5, <3>2
      <4>2. LET t == sess[sessions[j]] IN
              /\ <<t.src, t.dst>> = j /\ t.conn # NoConn /\ ckey[t.conn] = t.src
              /\ pc[t.conn] \in Owning /\ t.conn \in Conns
        BY <1>3, <4>1 DEF RelayInv, SessionsHaveHandler, Owning, SessionState
      <4> QED BY <1>1, <4>1, <4>2
    <3> QED BY <3>1, <3>2
  <2>7. NoSocketLeak'
    <3> SUFFICES ASSUME NEW t \in Sessions, sess'[t].open
                 PROVE  \/ sessions'[<<sess'[t].src, sess'[t].dst>>] = t
                        \/ \E d \in Conns : t \in toClose'[d]
      BY DEF NoSocketLeak
    <3>1. CASE t = s
      BY <1>2, <1>3, <2>1, <2>2, <3>1
    <3>2. CASE t # s
      <4>1. sess'[t] = sess[t] /\ sess[t].src \in Peers /\ sess[t].dst \in Peers
        BY <1>3, <2>1, <3>2 DEF RelayInv, MadeInv
      <4>2. \/ sessions[<<sess[t].src, sess[t].dst>>] = t
            \/ \E d \in Conns : t \in toClose[d]
        BY <4>1 DEF RelayInv, NoSocketLeak
      <4> QED BY <1>1, <1>2, <1>3, <2>1, <4>1, <4>2, SessionAssumption
    <3> QED BY <3>1, <3>2
  <2> QED BY <2>3, <2>4, <2>6, <2>7 DEF SocketsInv
<1>6. CASE UNCHANGED stVars
  BY <1>1, <1>6, SteadyKeeps DEF OwnersStay, stVars
<1> QED BY <1>4, <1>5, <1>6 DEF GetOrCreate

(* Entries leave the table for the list of sockets their handler closes.   *)
LEMMA DropKeeps ==
  ASSUME RelayInv, NEW c \in Conns, NEW pairs \in SUBSET (Peers \X Peers),
         Drop(pairs), UNCHANGED <<ckey, asked>>,
         toClose[c] = {}, toClose' = [toClose EXCEPT ![c] = Listed(pairs)],
         \A d \in Conns : pc[d] \in Owning /\ pc'[d] \notin Owning =>
           \A k \in Peers \X Peers : k[1] = ckey[d] => k \in pairs
  PROVE  SocketsInv'
<1>1. /\ sess \in [Sessions -> SessionState] /\ sess' = sess
      /\ sessions \in [Peers \X Peers -> Sessions \cup {NoSession}]
      /\ sessions' = [k \in Peers \X Peers |-> IF k \in pairs THEN NoSession ELSE sessions[k]]
      /\ toClose \in [Conns -> SUBSET Sessions]
  BY DEF RelayInv, TypeOK, STTypeOK, Drop
<1>2. STTypeOK'
  BY <1>1 DEF STTypeOK
<1>3. MadeInv'
  BY <1>1 DEF MadeInv, RelayInv
<1>4. SessionsHaveHandler'
  <2> SUFFICES ASSUME NEW k \in Peers \X Peers, sessions[k] # NoSession, k \notin pairs
               PROVE  LET t == sess[sessions[k]] IN
                        /\ <<t.src, t.dst>> = k /\ t.conn # NoConn /\ ckey[t.conn] = t.src
                        /\ pc'[t.conn] \in Owning
    BY <1>1 DEF SessionsHaveHandler, Owning
  <2> DEFINE t == sess[sessions[k]]
  <2>1. /\ <<t.src, t.dst>> = k /\ t.conn # NoConn /\ ckey[t.conn] = t.src
        /\ pc[t.conn] \in Owning
    BY DEF RelayInv, SessionsHaveHandler, Owning
  <2>2. t.conn \in Conns
    BY <1>1, <2>1 DEF SessionState
  <2> QED BY <2>1, <2>2
<1>5. NoSocketLeak'
  <2> SUFFICES ASSUME NEW t \in Sessions, sess[t].open
               PROVE  \/ sessions'[<<sess[t].src, sess[t].dst>>] = t
                      \/ \E d \in Conns : t \in toClose'[d]
    BY <1>1 DEF NoSocketLeak
  <2> DEFINE k == <<sess[t].src, sess[t].dst>>
  <2>1. k \in Peers \X Peers
    BY DEF RelayInv, MadeInv
  <2>2. CASE sessions[k] = t /\ k \in pairs
    BY <1>1, <2>1, <2>2, SessionAssumption DEF Listed
  <2>3. CASE sessions[k] = t /\ k \notin pairs
    BY <1>1, <2>1, <2>3
  <2>4. ASSUME NEW d \in Conns, t \in toClose[d] PROVE t \in toClose'[d]
    BY <1>1, <2>4
  <2> QED BY <2>2, <2>3, <2>4 DEF RelayInv, NoSocketLeak
<1> QED BY <1>2, <1>3, <1>4, <1>5 DEF SocketsInv

(* No step but RemoveAll lets a handler go that may still own sessions. *)
LEMMA OwnersStayUnlessCleared ==
  ASSUME RelayInv, NEW c \in Conns, Client(c) \/ Handler(c) \/ KeepAliveTick(c), ~RemoveAll(c)
  PROVE  OwnersStay
<1> USE DEF Owning, Serving
<1>1. HandlerTypes
  BY DEF RelayInv, TypeOK, HandlerTypes
<1>2. CASE Register(c) \/ Deregister(c) \/ \E k \in Clients[c] : ClientInfo(c, k)
  BY <1>1, <1>2 DEF Register, Deregister, ClientInfo, Goto, HandlerTypes, OwnersStay, Routing
<1>3. CASE ~(Register(c) \/ Deregister(c) \/ \E k \in Clients[c] : ClientInfo(c, k))
  <2>1. Moves(c)
    BY <1>1, <1>3, ClientMoves, HandlerMoves
  <2>2. CASE pc[c] # "removeall"
    BY <1>1, <2>1, <2>2 DEF Moves, OwnersStay, HandlerTypes
  <2>3. CASE pc[c] = "removeall"
    <3> USE <2>3 DEF Goto, Return, Route, Quiet, Env
    <3>1. CASE Client(c)
      <4>1. UNCHANGED pc
        BY <1>3, <3>1 DEF Client, Connect, ClientDies, ClientStalls, ClientReads, ClientSends
      <4> QED BY <4>1 DEF OwnersStay
    <3>2. ~(HandshakeFails(c) \/ ServerInfo(c) \/ Dispatch(c) \/ ReadError(c) \/ KeepAliveTick(c)
              \/ KeepAliveSent(c) \/ Pong(c) \/ RouteLookup(c) \/ LocalSend(c) \/ Resolving(c))
      BY DEF HandshakeFails, ServerInfo, Dispatch, ReadError, KeepAliveTick, KeepAliveSent, Pong,
             RouteLookup, LocalSend, Resolving
    <3>3. ~(ResolveDone(c) \/ GetOrCreate(c) \/ SendUDP(c) \/ InvalidateDest(c) \/ RemoveSession(c)
              \/ CloseOne(c) \/ RemoveReturns(c) \/ Finish(c))
      BY DEF ResolveDone, GetOrCreate, SendUDP, InvalidateDest, RemoveSession, CloseOne,
             RemoveReturns, Finish
    <3> QED BY <1>3, <3>1, <3>2, <3>3 DEF Handler
  <2> QED BY <2>2, <2>3
<1> QED BY <1>2, <1>3

(* The Session objects and the table stay as the invariant says. *)
LEMMA SocketsKept ==
  ASSUME RelayInv, [Next]_vars
  PROVE  SocketsInv'
<1>1. ASSUME NEW c \in Conns, Client(c) \/ Handler(c) \/ KeepAliveTick(c), ~SessionStep(c)
      PROVE  SocketsInv'
  <2>1. OwnersStay
    BY <1>1, OwnersStayUnlessCleared DEF SessionStep
  <2>2. UNCHANGED <<sessions, sess, toClose>>
    BY <1>1, ClientTouches, HandlerTouches DEF stVars
  <2> QED BY <2>1, <2>2, SteadyKeeps
<1>2. ASSUME NEW c \in Conns, RemoveSession(c)
      PROVE  SocketsInv'
  <2>1. /\ pc[c] = "remove" /\ Drop({Pair(c)}) /\ toClose' = [toClose EXCEPT ![c] = Listed({Pair(c)})]
        /\ UNCHANGED <<ckey, asked>> /\ pc' = [pc EXCEPT ![c] = "close"]
    BY <1>2 DEF RemoveSession, Goto, Route
  <2>2. pc[c] \in Owning /\ toClose[c] = {} /\ Dest(c) \in Peers
    BY <2>1 DEF Owning, Serving, Routing, RelayInv, LocalsInv, LocalsHold, InRoute, Dest
  <2>3. Pair(c) \in Peers \X Peers
    BY <2>2, OwningHasKey DEF Pair
  <2>4. \A d \in Conns : pc[d] \in Owning => pc'[d] \in Owning
    BY <2>1 DEF Owning, Serving, Routing, RelayInv, TypeOK
  <2> QED BY <2>1, <2>2, <2>3, <2>4, DropKeeps
<1>3. ASSUME NEW c \in Conns, RemoveAll(c)
      PROVE  SocketsInv'
  <2> DEFINE mine == {k \in Peers \X Peers : k[1] = ckey[c]}
  <2>1. /\ pc[c] = "removeall" /\ Drop(mine) /\ toClose' = [toClose EXCEPT ![c] = Listed(mine)]
        /\ UNCHANGED <<ckey, asked>> /\ pc' = [pc EXCEPT ![c] = "closeall"]
    BY <1>3 DEF RemoveAll, Goto, Route
  <2>2. toClose[c] = {}
    BY <2>1 DEF RelayInv, LocalsInv, LocalsHold
  <2>3. \A d \in Conns : pc[d] \in Owning /\ pc'[d] \notin Owning => d = c
    BY <2>1 DEF RelayInv, TypeOK
  <2> HIDE DEF mine
  <2>4. \A k \in Peers \X Peers : k[1] = ckey[c] => k \in mine
    BY DEF mine
  <2>5. mine \in SUBSET (Peers \X Peers)
    BY DEF mine
  <2> QED BY <2>1, <2>2, <2>3, <2>4, <2>5, DropKeeps
<1>4. ASSUME NEW c \in Conns, CloseOne(c)
      PROVE  SocketsInv'
  <2>1. PICK s \in toClose[c] : Close(s) /\ toClose' = [toClose EXCEPT ![c] = @ \ {s}]
    BY <1>4 DEF CloseOne
  <2>2. /\ s \in Sessions /\ sess[s] \in SessionState /\ sess \in [Sessions -> SessionState]
        /\ toClose \in [Conns -> SUBSET Sessions]
    BY DEF RelayInv, TypeOK, STTypeOK
  <2> DEFINE new == [sess[s] EXCEPT !.open = FALSE]
  <2>3. UNCHANGED <<sessions, ckey, asked, pc>> /\ sess' = [sess EXCEPT ![s] = new]
    BY <1>4, <2>1, <2>2 DEF CloseOne, Close, Route, SessionState
  <2>4. /\ new \in SessionState /\ new.loop = sess[s].loop /\ new.src = sess[s].src
        /\ new.dst = sess[s].dst /\ new.addr = sess[s].addr /\ new.open = FALSE
        /\ new.conn = sess[s].conn
    BY <2>2 DEF SessionState
  <2> HIDE DEF new
  <2>5. /\ new.loop # "none" => new.addr \in Addr
        /\ \A d \in Conns : toClose[d] \ {s} \subseteq toClose'[d]
        /\ OwnersStay
    BY <2>1, <2>2, <2>3, <2>4 DEF RelayInv, MadeInv, OwnersStay
  <2> QED BY <2>2, <2>3, <2>4, <2>5, SessionTouched
<1>5. CASE Ticker \/ Network \/ UNCHANGED vars
  <2>1. UNCHANGED <<pc, sessions, sess, toClose>>
    BY <1>5 DEF Ticker, Network, vars, hVars, stVars
  <2> QED BY <2>1, SteadyKeeps DEF OwnersStay
<1> QED BY <1>1, <1>2, <1>3, <1>4, <1>5, GetOrCreateKeeps, LoopKeeps DEF Next, SessionStep

----------------------------------------------------------------------------
(* The types of what the handlers keep beside their place and their key.   *)
ConnTypes ==
  /\ up \in [Conns -> BOOLEAN] /\ stalled \in [Conns -> BOOLEAN]
  /\ inbox \in [Conns -> Seq(Frames)]

RouteTypes ==
  /\ loc \in [Conns -> Locals] /\ toClose \in [Conns -> SUBSET Sessions]
  /\ asked \in SUBSET (Peers \X Peers) /\ delivered \in SUBSET (Peers \X Conns)

LEMMA ConnTypesKept ==
  ASSUME ConnTypes, [Next]_vars
  PROVE  ConnTypes'
<1> USE DEF ConnTypes
<1>1. ASSUME NEW c \in Conns, Client(c)
      PROVE  ConnTypes'
  <2>1. CASE ClientDies(c)
    <3>1. PICK n \in 0..Len(inbox[c]) : inbox' = [inbox EXCEPT ![c] = SubSeq(@, 1, n)]
      BY <2>1 DEF ClientDies
    <3>2. SubSeq(inbox[c], 1, n) \in Seq(Frames)
      OBVIOUS
    <3> QED BY <2>1, <3>1, <3>2 DEF ClientDies
  <2>2. ASSUME NEW f \in Frames, ClientSends(c, f) PROVE ConnTypes'
    BY <2>2 DEF ClientSends
  <2>3. CASE Connect(c) \/ ClientStalls(c) \/ ClientReads(c)
    BY <2>3 DEF Connect, ClientStalls, ClientReads
  <2>4. ASSUME NEW k \in Clients[c], ClientInfo(c, k) PROVE ConnTypes'
    BY <2>4 DEF ClientInfo, Quiet
  <2> QED BY <1>1, <2>1, <2>2, <2>3, <2>4 DEF Client
<1>2. ASSUME NEW c \in Conns, Handler(c) \/ KeepAliveTick(c)
      PROVE  ConnTypes'
  <2> USE DEF Quiet, Route
  <2>1. CASE HandshakeFails(c) \/ Finish(c)
    <3>1. Hangup(c) /\ <<>> \in Seq(Frames)
      BY <2>1 DEF HandshakeFails, Finish
    <3> QED BY <3>1 DEF Hangup
  <2>2. CASE Dispatch(c)
    <3>1. inbox[c] # <<>> /\ inbox' = [inbox EXCEPT ![c] = Tail(@)] /\ UNCHANGED <<up, stalled>>
      BY <2>2 DEF Dispatch
    <3>2. Tail(inbox[c]) \in Seq(Frames)
      BY <3>1
    <3> QED BY <3>1, <3>2
  <2>3. CASE ServerInfo(c) \/ Register(c) \/ ReadError(c) \/ KeepAliveTick(c) \/ KeepAliveSent(c)
               \/ Pong(c) \/ Deregister(c)
    BY <2>3 DEF ServerInfo, Register, ReadError, KeepAliveTick, KeepAliveSent, Pong, Deregister
  <2>4. CASE RouteLookup(c) \/ LocalSend(c) \/ Resolving(c) \/ ResolveDone(c) \/ GetOrCreate(c)
               \/ SendUDP(c) \/ InvalidateDest(c)
    BY <2>4 DEF RouteLookup, LocalSend, Resolving, ResolveDone, GetOrCreate, SendUDP, InvalidateDest
  <2>5. CASE RemoveSession(c) \/ CloseOne(c) \/ RemoveReturns(c) \/ RemoveAll(c)
    BY <2>5 DEF RemoveSession, CloseOne, RemoveReturns, RemoveAll
  <2> QED BY <1>2, <2>1, <2>2, <2>3, <2>4, <2>5 DEF Handler
<1>3. ASSUME NEW s \in Sessions, SessionLoop(s) PROVE UNCHANGED <<up, stalled, inbox>>
  BY <1>3 DEF SessionLoop, Beside, hVars
<1>4. Ticker \/ Network \/ UNCHANGED vars => UNCHANGED <<up, stalled, inbox>>
  BY DEF Ticker, Network, vars, hVars
<1> QED BY <1>1, <1>2, <1>3, <1>4 DEF Next

LEMMA RouteTypesKept ==
  ASSUME RelayInv, [Next]_vars
  PROVE  RouteTypes'
<1> USE DEF RouteTypes
<1>0. RouteTypes /\ NoLocals \in Locals
  BY DEF RelayInv, TypeOK, NoLocals, Locals
<1>1. ASSUME NEW c \in Conns, Client(c) PROVE RouteTypes'
  BY <1>0, <1>1, ClientTouches
<1>2. ASSUME NEW c \in Conns, Handler(c) \/ KeepAliveTick(c)
      PROVE  RouteTypes'
  <2> USE <1>0 DEF Quiet, Route, Return
  <2>0. loc[c] \in Locals
    OBVIOUS
  <2>1. CASE Dispatch(c)
    <3>1. /\ pc[c] = "loop" /\ UNCHANGED <<toClose, delivered>>
          /\ \/ UNCHANGED <<loc, asked>>
             \/ \E f \in Peers : loc' = [loc EXCEPT ![c].dest = f] /\ asked' = asked \cup {<<ckey[c], f>>}
      BY <2>1 DEF Dispatch
    <3>2. ckey[c] \in Peers
      BY <3>1 DEF RelayInv, KeyInv, Proved, Serving
    <3> QED BY <2>0, <3>1, <3>2 DEF Locals
  <2>2. CASE HandshakeFails(c) \/ ServerInfo(c) \/ Register(c) \/ ReadError(c) \/ KeepAliveTick(c)
               \/ KeepAliveSent(c) \/ Pong(c) \/ Deregister(c) \/ Finish(c)
    BY <2>2 DEF HandshakeFails, ServerInfo, Register, ReadError, KeepAliveTick, KeepAliveSent, Pong,
                Deregister, Finish
  <2>3. CASE RouteLookup(c)
    <3>1. Dest(c) \in Peers /\ clients \in [Peers -> Conns \cup {NoConn}]
      BY <2>3 DEF RouteLookup, RelayInv, TypeOK, LocalsInv, LocalsHold, InRoute, Dest
    <3> QED BY <2>0, <2>3, <3>1 DEF RouteLookup, Locals
  <2>4. CASE LocalSend(c)
    <3>1. pc[c] = "local" /\ pc[c] \in Owning
      BY <2>4 DEF LocalSend, Owning, Serving, Routing
    <3>2. ckey[c] \in Peers /\ loc[c].dcc \in Conns
      BY <3>1, OwningHasKey DEF RelayInv, LocalsInv, LocalsHold
    <3> QED BY <2>4, <3>2 DEF LocalSend, Deliver
  <2>5. CASE ResolveDone(c)
    <3>1. c \in Callers /\ call[c].entry \in Entry
      BY RelayAssumption DEF RelayInv, EPInv, EPTypeOK, CallState
    <3>2. Resolved(c) \in Addr \cup {NoAddr}
      BY <3>1, BestIsUsable DEF Resolved
    <3> QED BY <2>0, <2>5, <3>2 DEF ResolveDone, Locals
  <2>6. CASE GetOrCreate(c)
    <3>1. sessions' \in [Peers \X Peers -> Sessions \cup {NoSession}]
      BY <2>6, GetOrCreateKeeps DEF SocketsInv, STTypeOK
    <3>2. pc[c] = "create" /\ pc[c] \in Owning
      BY <2>6 DEF GetOrCreate, Goto, Owning, Serving, Routing
    <3>3. Pair(c) \in Peers \X Peers
      BY <3>2, OwningHasKey DEF RelayInv, LocalsInv, LocalsHold, InRoute, Pair, Dest
    <3>4. sessions'[Pair(c)] \in Sessions \cup {NoSession}
      BY <3>1, <3>3
    <3>5. /\ loc' = [loc EXCEPT ![c].cur = sessions'[Pair(c)]] \/ loc' = [loc EXCEPT ![c] = NoLocals]
          /\ UNCHANGED <<toClose, asked, delivered>>
      BY <2>6 DEF GetOrCreate
    <3>6. [loc[c] EXCEPT !.cur = sessions'[Pair(c)]] \in Locals
      BY <2>0, <3>4 DEF Locals
    <3>7. loc' \in [Conns -> Locals]
      BY <3>5, <3>6
    <3> QED BY <3>5, <3>7
  <2>7. CASE Resolving(c) \/ SendUDP(c) \/ InvalidateDest(c) \/ RemoveReturns(c)
    BY <2>7 DEF Resolving, SendUDP, InvalidateDest, RemoveReturns
  <2>8. CASE RemoveSession(c) \/ RemoveAll(c)
    <3>1. /\ UNCHANGED <<loc, asked, delivered>>
          /\ \E pairs \in SUBSET (Peers \X Peers) : toClose' = [toClose EXCEPT ![c] = Listed(pairs)]
      <4>1. CASE RemoveAll(c)
        BY <4>1 DEF RemoveAll
      <4>2. CASE RemoveSession(c)
        <5>1. pc[c] = "remove" /\ pc[c] \in Owning
          BY <4>2 DEF RemoveSession, Goto, Owning, Serving, Routing
        <5>2. Pair(c) \in Peers \X Peers
          BY <5>1, OwningHasKey DEF RelayInv, LocalsInv, LocalsHold, InRoute, Pair, Dest
        <5> QED BY <4>2, <5>2 DEF RemoveSession
      <4> QED BY <2>8, <4>1, <4>2
    <3>2. ASSUME NEW pairs \in SUBSET (Peers \X Peers) PROVE Listed(pairs) \subseteq Sessions
      BY DEF Listed, RelayInv, TypeOK, STTypeOK
    <3> QED BY <3>1, <3>2
  <2>9. CASE CloseOne(c)
    BY <2>9 DEF CloseOne
  <2> QED BY <1>2, <2>1, <2>2, <2>3, <2>4, <2>5, <2>6, <2>7, <2>8, <2>9 DEF Handler
<1>3. ASSUME NEW s \in Sessions, SessionLoop(s)
      PROVE  RouteTypes'
  <2>1. UNCHANGED <<loc, toClose, asked>>
    BY <1>3 DEF SessionLoop, Beside, hVars
  <2>2. sess[s].loop = "replying" => sess[s].dst \in Peers /\ sess[s].conn \in Conns
    BY DEF RelayInv, MadeInv
  <2> QED BY <1>0, <1>3, <2>1, <2>2 DEF SessionLoop, Deliver
<1>4. Ticker \/ Network \/ UNCHANGED vars => UNCHANGED <<loc, toClose, asked, delivered>>
  BY DEF Ticker, Network, vars, hVars
<1> QED BY <1>0, <1>1, <1>2, <1>3, <1>4 DEF Next

----------------------------------------------------------------------------
LEMMA RelayInit == Init => RelayInv
<1> SUFFICES ASSUME Init PROVE RelayInv
  OBVIOUS
<1>1. EPInv /\ EPTypeOK
  BY EPInitTypes DEF Init, EPInv
<1>2. NoLocals \in Locals /\ NotMade \in SessionState /\ NotMade.loop = "none" /\ NotMade.open = FALSE
      /\ <<>> \in Seq(Frames)
  BY DEF NoLocals, Locals, NotMade, SessionState
<1>3. TypeOK
  BY <1>1, <1>2 DEF Init, TypeOK, STTypeOK, STInit, Phases, Handshake
<1>4. KeyInv /\ RegisteredIsServing
  BY DEF Init, KeyInv, RegisteredIsServing, Proved, Serving, Routing, Leaving
<1>5. LocalsInv
  BY DEF Init, LocalsInv, LocalsHold, InRoute
<1>6. MadeInv /\ SessionsHaveHandler /\ NoSocketLeak
  BY <1>2 DEF Init, STInit, MadeInv, SessionsHaveHandler, NoSocketLeak
<1> QED BY <1>1, <1>3, <1>4, <1>5, <1>6 DEF RelayInv

LEMMA RelayStep == RelayInv /\ [Next]_vars => RelayInv'
<1> SUFFICES ASSUME RelayInv, [Next]_vars PROVE RelayInv'
  OBVIOUS
<1>1. RegInv'
  BY RegKept DEF RelayInv, RegInv, TypeOK, HandlerTypes
<1>2. EPInv'
  <2>1. CASE UNCHANGED epVars
    BY <2>1 DEF epVars, RelayInv, EPInv, EPTypeOK
  <2> QED BY <2>1, CacheSteps, EPStepTypes DEF RelayInv
<1>3. SocketsInv' /\ LocalsInv'
  BY SocketsKept, LocalsKept
<1>4. ConnTypes' /\ RouteTypes'
  BY ConnTypesKept, RouteTypesKept DEF RelayInv, TypeOK, ConnTypes
<1>5. TypeOK'
  BY <1>1, <1>2, <1>3, <1>4 DEF TypeOK, RegInv, HandlerTypes, EPInv, SocketsInv, ConnTypes, RouteTypes
<1> QED BY <1>1, <1>2, <1>3, <1>5 DEF RelayInv, RegInv, SocketsInv

(* The inductive invariant of the whole relay: the cache, the clients map, *)
(* the session table and the handlers' locals fit together.                *)
THEOREM RelayInvariant == Spec => []RelayInv
BY RelayInit, RelayStep, PTL DEF Spec

(* Types, of every variable of the relay and of the two modules it composes. *)
THEOREM RelayTyped == Spec => []TypeOK
<1>1. RelayInv => TypeOK
  BY DEF RelayInv
<1> QED BY <1>1, RelayInvariant, PTL

(* The clients map always leads to a handler that serves the key and has    *)
(* not begun to leave, however connections of one key overlap: the cleanup  *)
(* of an old connection may delete too much (server.go:176), never too      *)
(* little.                                                                  *)
THEOREM RegisteredServes == Spec => []RegisteredIsServing
<1>1. RelayInv => RegisteredIsServing
  BY DEF RelayInv
<1> QED BY <1>1, RelayInvariant, PTL

(* A session in the table is its pair's, and the handler whose context and  *)
(* connection it captured has not yet cleared its client's sessions: no     *)
(* session outlives its handler in the table, for any number of overlapping *)
(* connections of one client (server.go:174-180, session.go:57-105).        *)
THEOREM SessionsServed == Spec => []SessionsHaveHandler
<1>1. RelayInv => SessionsHaveHandler
  BY DEF RelayInv
<1> QED BY <1>1, RelayInvariant, PTL

(* No socket is lost: an open one is in the table or in the hands of a      *)
(* handler that will close it (session.go:143-174).                         *)
THEOREM NoSocketIsLost == Spec => []NoSocketLeak
<1>1. RelayInv => NoSocketLeak
  BY DEF RelayInv
<1> QED BY <1>1, RelayInvariant, PTL

----------------------------------------------------------------------------
(* No two handlers serve one key at once; and each that serves is in the    *)
(* map.                                                                    *)
NoOverlap ==
  \A c, d \in Conns : pc[c] \in Serving /\ pc[d] \in Serving /\ ckey[c] = ckey[d] => c = d

ServingIsRegistered == \A c \in Conns : pc[c] \in Serving => clients[ckey[c]] = c

LEMMA StaysRegistered ==
  ASSUME RegInv, NoOverlap, NoOverlap', ServingIsRegistered, [Next]_vars
  PROVE  ServingIsRegistered'
<1> USE DEF RegInv, HandlerTypes
<1>0. \A c \in Conns : pc[c] \in Serving => ckey[c] \in Peers
  BY DEF KeyInv, Proved
<1>1. ASSUME NEW c \in Conns, Moves(c) PROVE ServingIsRegistered'
  BY <1>1 DEF Moves, ServingIsRegistered
<1>2. ASSUME NEW c \in Conns, NEW k \in Clients[c], ClientInfo(c, k) PROVE ServingIsRegistered'
  <2>1. /\ pc[c] = "hello" /\ pc' = [pc EXCEPT ![c] = "info"]
        /\ ckey' = [ckey EXCEPT ![c] = k] /\ clients' = clients
    BY <1>2 DEF ClientInfo, Goto
  <2>2. "info" \notin Serving
    BY DEF Serving, Routing
  <2> QED BY <2>1, <2>2 DEF ServingIsRegistered
<1>3. ASSUME NEW c \in Conns, Register(c) PROVE ServingIsRegistered'
  <2>1. /\ pc[c] = "register" /\ pc' = [pc EXCEPT ![c] = "loop"]
        /\ ckey' = ckey /\ clients' = [clients EXCEPT ![ckey[c]] = c]
    BY <1>3 DEF Register, Goto
  <2>2. "loop" \in Serving /\ ckey[c] \in Peers
    BY <2>1 DEF Serving, KeyInv, Proved
  <2>3. ASSUME NEW d \in Conns, d # c, pc[d] \in Serving PROVE ckey[d] # ckey[c]
    BY <2>1, <2>2, <2>3 DEF NoOverlap
  <2> QED BY <1>0, <2>1, <2>2, <2>3 DEF ServingIsRegistered
<1>4. ASSUME NEW c \in Conns, Deregister(c) PROVE ServingIsRegistered'
  <2>1. /\ pc[c] = "deregister" /\ pc' = [pc EXCEPT ![c] = "removeall"]
        /\ ckey' = ckey /\ clients' = [clients EXCEPT ![ckey[c]] = NoConn]
    BY <1>4 DEF Deregister, Goto
  <2>2. "deregister" \in Serving /\ "removeall" \notin Serving
    BY DEF Serving, Routing
  <2>3. ASSUME NEW d \in Conns, d # c, pc[d] \in Serving PROVE ckey[d] # ckey[c]
    BY <2>1, <2>2, <2>3 DEF NoOverlap
  <2> QED BY <1>0, <2>1, <2>2, <2>3 DEF ServingIsRegistered
<1>5. ASSUME NEW c \in Conns, Client(c) PROVE ServingIsRegistered'
  BY <1>1, <1>2, <1>5, ClientMoves
<1>6. ASSUME NEW c \in Conns, Handler(c) \/ KeepAliveTick(c) PROVE ServingIsRegistered'
  BY <1>1, <1>3, <1>4, <1>6, HandlerMoves
<1>7. ASSUME NEW s \in Sessions, SessionLoop(s) PROVE UNCHANGED <<pc, ckey, clients>>
  BY <1>7 DEF SessionLoop, Beside, hVars
<1>8. Ticker \/ Network \/ UNCHANGED vars => UNCHANGED <<pc, ckey, clients>>
  BY DEF Ticker, Network, vars, hVars
<1>9. CASE UNCHANGED <<pc, ckey, clients>>
  BY <1>9 DEF ServingIsRegistered
<1> QED BY <1>5, <1>6, <1>7, <1>8, <1>9 DEF Next

(* A client whose connections do not overlap is found while it is served,   *)
(* as server.go:252-253 supposes.  The run RelayReconnect refutes it for a  *)
(* client that connects again before its old handler has ended; this is the *)
(* only way.                                                               *)
THEOREM FoundWhileServed == Spec /\ []NoOverlap => [](ServingIsRegistered /\ ConnectedIsRegistered)
<1>1. Init => ServingIsRegistered
  <2>1. "free" \notin Serving
    BY DEF Serving, Routing
  <2> QED BY <2>1 DEF Init, ServingIsRegistered
<1>2. RelayInv /\ NoOverlap /\ NoOverlap' /\ ServingIsRegistered /\ [Next]_vars => ServingIsRegistered'
  BY StaysRegistered DEF RelayInv, RegInv, HandlerTypes, TypeOK
<1>3. ServingIsRegistered => ConnectedIsRegistered
  BY DEF ServingIsRegistered, ConnectedIsRegistered
<1> QED BY <1>1, <1>2, <1>3, RelayInvariant, PTL DEF Spec

----------------------------------------------------------------------------
LEMMA ServiceInit == Init => Service!Init
BY DEF Init, Service!Init

(* A write of a packet from p to connection d is one the service allows. *)
LEMMA DeliverAllowed ==
  ASSUME NEW p \in Peers, NEW d \in Conns, {<<p, ckey[d]>>, <<ckey[d], p>>} \cap asked # {},
         Deliver(p, d), UNCHANGED <<ckey, asked>>
  PROVE  Service!Next \/ UNCHANGED <<ckey, asked, delivered>>
<1>1. CASE up[d]
  <2>1. Service!Deliver(p, d)
    BY <1>1 DEF Deliver, Service!Deliver
  <2> QED BY <2>1 DEF Service!Next
<1>2. CASE ~up[d]
  BY <1>2 DEF Deliver
<1> QED BY <1>1, <1>2

LEMMA ServiceStep ==
  ASSUME RelayInv, [Next]_vars
  PROVE  Service!Next \/ UNCHANGED <<ckey, asked, delivered>>
<1>1. ASSUME NEW c \in Conns, Client(c)
      PROVE  Service!Next \/ UNCHANGED <<ckey, asked, delivered>>
  <2>1. ASSUME NEW k \in Clients[c], ClientInfo(c, k)
        PROVE  Service!Next
    <3>1. k \in Peers /\ pc[c] = "hello"
      BY <2>1, RelayAssumption DEF ClientInfo, Goto
    <3>2. Service!Prove(c, k)
      BY <2>1, <3>1 DEF ClientInfo, Quiet, Service!Prove, RelayInv, KeyInv
    <3> QED BY <3>1, <3>2 DEF Service!Next
  <2> QED BY <1>1, <2>1, ClientTouches
<1>2. ASSUME NEW c \in Conns, Dispatch(c)
      PROVE  Service!Next \/ UNCHANGED <<ckey, asked, delivered>>
  <2>1. pc[c] = "loop" /\ UNCHANGED <<ckey, delivered>>
    BY <1>2 DEF Dispatch, Goto
  <2>2. ckey[c] # Absent
    BY <2>1, OwningHasKey DEF Owning, Serving
  <2>3. CASE \E f \in Peers : asked' = asked \cup {<<ckey[c], f>>}
    <3>1. PICK f \in Peers : asked' = asked \cup {<<ckey[c], f>>}
      BY <2>3
    <3>2. Service!Ask(c, f)
      BY <2>1, <2>2, <3>1 DEF Service!Ask
    <3> QED BY <3>2 DEF Service!Next
  <2> QED BY <1>2, <2>1, <2>3 DEF Dispatch
<1>3. ASSUME NEW c \in Conns, LocalSend(c)
      PROVE  Service!Next \/ UNCHANGED <<ckey, asked, delivered>>
  <2>1. pc[c] = "local" /\ pc[c] \in Owning /\ UNCHANGED <<ckey, asked>>
        /\ Deliver(ckey[c], loc[c].dcc)
    BY <1>3 DEF LocalSend, Route, Owning, Serving, Routing
  <2>2. loc[c].dcc \in Conns /\ ckey[loc[c].dcc] = loc[c].dest /\ <<ckey[c], loc[c].dest>> \in asked
    BY <2>1 DEF RelayInv, LocalsInv, LocalsHold, InRoute
  <2> QED BY <2>1, <2>2, OwningHasKey, DeliverAllowed
<1>4. ASSUME NEW c \in Conns, Handler(c) \/ KeepAliveTick(c)
      PROVE  Service!Next \/ UNCHANGED <<ckey, asked, delivered>>
  BY <1>2, <1>3, <1>4, HandlerTouches
<1>5. ASSUME NEW s \in Sessions, SessionLoop(s)
      PROVE  Service!Next \/ UNCHANGED <<ckey, asked, delivered>>
  <2>1. UNCHANGED <<ckey, asked>>
    BY <1>5 DEF SessionLoop, Beside, hVars
  <2>2. CASE sess[s].loop = "replying" /\ Deliver(sess[s].dst, sess[s].conn)
    <3>1. /\ sess[s].dst \in Peers /\ sess[s].conn \in Conns /\ ckey[sess[s].conn] = sess[s].src
          /\ <<sess[s].src, sess[s].dst>> \in asked
      BY <2>2 DEF RelayInv, MadeInv
    <3> QED BY <2>1, <2>2, <3>1, DeliverAllowed
  <2> QED BY <1>5, <2>1, <2>2 DEF SessionLoop
<1>6. Ticker \/ Network \/ UNCHANGED vars => UNCHANGED <<ckey, asked, delivered>>
  BY DEF Ticker, Network, vars, hVars
<1> QED BY <1>1, <1>4, <1>5, <1>6 DEF Next

(* The relay, with its map, table, sockets and cache, implements the packet *)
(* service: a connection keeps the key it proved, and what is written to it *)
(* comes only from peers that addressed its key or that its key addressed,  *)
(* over TCP or UDP, whatever connections come and go (server.go:249-302,    *)
(* session.go:69-140).                                                      *)
THEOREM RelayImplementsService == Spec => ServiceSpec
<1>1. RelayInv /\ [Next]_vars => [Service!Next]_<<ckey, asked, delivered>>
  BY ServiceStep
<1> QED BY <1>1, ServiceInit, RelayInvariant, PTL DEF Spec, ServiceSpec, Service!Spec
=============================================================================
