------------------------------ MODULE NodeDedup ------------------------------
(***************************************************************************)
(* node-dedup/dedup.py: a service that polls Headscale's list of nodes,    *)
(* deletes offline duplicates of a device, gives the node it keeps the     *)
(* plain host name, approves the routes nodes advertise, and keeps a table *)
(* of devices into which HTTP threads write the MAC that a node reports.   *)
(* A poll decides everything from the list it fetched first, while nodes   *)
(* come, go and are edited, and pinging them takes minutes.                *)
(*                                                                         *)
(* Time is the count of changes around the service, at most MaxChanges.    *)
(***************************************************************************)
EXTENDS Integers, Sequences, FiniteSets, SequencesExt, FiniteSetsExt

CONSTANTS
  Ids,               \* node ids, never used twice, in the order of their strings
  User, Host, Addr,  \* of each id; Headscale gives no address twice
  GroupOrder,        \* the <<user, hostname>> pairs, sorted, with a host name
  Routers, Routes,   \* ids that advertise routes
  MaxChanges,        \* bound on changes around the service
  LastSeenNumbers,   \* the API gives lastSeen as an object with seconds
  DRY_RUN, AUTO_APPROVE_ROUTES

ASSUME DedupAssumption ==
  /\ Ids \subseteq Nat /\ IsFiniteSet(Ids) /\ Routers \subseteq Ids
  /\ MaxChanges \in Nat
  /\ LastSeenNumbers \in BOOLEAN /\ DRY_RUN \in BOOLEAN /\ AUTO_APPROVE_ROUTES \in BOOLEAN
  /\ \A i, j \in Ids : Addr[i] = Addr[j] => i = j

VARIABLES
  nodes,     \* external: Headscale's nodes
  api,       \* external: Headscale answers
  changes,   \* how many changes there have been
  pc, list,  \* where the poll is, and the nodes it fetched
  todo,      \* the approvals or actions it has still to apply
  devices    \* the table, by <<user, hostname>>

env == <<nodes, api, changes>>
poll == <<pc, list, todo>>
vars == <<env, poll, devices>>

Device(i) == <<User[i], Host[i]>>
Groups == ToSet(GroupOrder)
Row == [ipv4 : {"none"} \cup {Addr[i] : i \in Ids}, mac : SUBSET {Device(i) : i \in Ids}]
NoRow == [ipv4 |-> "none", mac |-> {}]

(* A node has its host name as given name (clean), or that and a suffix.   *)
NotYet  == [st |-> "new", clean |-> FALSE, online |-> FALSE, seen |-> 0, available |-> {}, approved |-> {}]
Removed == [NotYet EXCEPT !.st = "removed"]  \* by the service
Lost    == [NotYet EXCEPT !.st = "lost"]     \* by somebody else
There == {i \in Ids : nodes[i].st = "there"}
Taken(i) == \E j \in There \ {i} : Host[j] = Host[i] /\ nodes[j].clean

NodeState == [st : {"new", "there", "removed", "lost"}, clean : BOOLEAN, online : BOOLEAN,
              seen : 0..MaxChanges, available : SUBSET Routes, approved : SUBSET Routes]
Approval == [id : Ids, routes : SUBSET Routes]
Action == [action : {"delete", "rename"}, id : Ids]

TypeOK ==
  /\ nodes \in [Ids -> NodeState] /\ api \in BOOLEAN /\ changes \in 0..MaxChanges
  /\ pc \in {"idle", "upsert", "ping", "approve", "act"}
  /\ DOMAIN list \subseteq Ids /\ \A i \in DOMAIN list : list[i] \in NodeState
  /\ pc \notin {"approve", "act"} => todo = {}
  /\ pc = "approve" => todo \subseteq Approval
  /\ pc = "act" => todo \subseteq Action
  /\ devices \in [Groups -> Row]

Init ==
  /\ nodes = [i \in Ids |-> NotYet] /\ api = TRUE /\ changes = 0
  /\ pc = "idle" /\ list = <<>> /\ todo = {}
  /\ devices = [g \in Groups |-> NoRow]

----------------------------------------------------------------------------
(* plan_actions: of the nodes of a device the keeper is online before      *)
(* offline, then last seen, then of the largest id.                        *)
LastSeen(n) == IF LastSeenNumbers THEN n.seen ELSE 0

Members(l, g) == {i \in DOMAIN l : Device(i) = g}

Beats(l, i, j) ==
  \/ l[i].online /\ ~l[j].online
  \/ l[i].online = l[j].online /\ LastSeen(l[i]) > LastSeen(l[j])
  \/ l[i].online = l[j].online /\ LastSeen(l[i]) = LastSeen(l[j]) /\ i > j

Keeper(l, g) == CHOOSE k \in Members(l, g) : \A j \in Members(l, g) \ {k} : Beats(l, k, j)

Delete(i) == [action |-> "delete", id |-> i]
Rename(i) == [action |-> "rename", id |-> i]

Doomed(l, g) == {i \in Members(l, g) \ {Keeper(l, g)} : ~l[i].online}
Renames(l, g) == IF l[Keeper(l, g)].clean THEN {} ELSE {Rename(Keeper(l, g))}

(* mutant: an offline keeper goes too *)
PlanOffline(l, g) ==
  IF Members(l, g) = {} THEN {}
  ELSE {Delete(i) : i \in {j \in Members(l, g) : ~l[j].online}} \cup Renames(l, g)

PlanOf(l, g) ==
  IF Members(l, g) = {} THEN {} ELSE {Delete(i) : i \in Doomed(l, g)} \cup Renames(l, g)

plan_actions(l) == UNION {PlanOf(l, g) : g \in Groups}

(* The order of the plan: device after device, the duplicates of one in the *)
(* order of the list, then the new name of its keeper.                      *)
Position(a) == CHOOSE k \in DOMAIN GroupOrder : GroupOrder[k] = Device(a.id)

(* mutant: the keeper is renamed before the duplicates go *)
RenamesFirst(a, b) ==
  \/ Position(a) < Position(b)
  \/ Position(a) = Position(b) /\ a.action = "rename" /\ b.action = "delete"
  \/ Position(a) = Position(b) /\ a.action = b.action /\ a.id < b.id

Precedes(a, b) ==
  \/ Position(a) < Position(b)
  \/ Position(a) = Position(b) /\ a.action = "delete" /\ b.action = "rename"
  \/ Position(a) = Position(b) /\ a.action = b.action /\ a.id < b.id

(* mutant: a node some of whose routes are approved is not looked at again *)
ApproveOnce(l) ==
  {[id |-> i, routes |-> l[i].approved \cup l[i].available] :
     i \in {j \in DOMAIN l : l[j].available # {} /\ l[j].approved = {}}}

plan_route_approvals(l) ==
  {[id |-> i, routes |-> l[i].approved \cup l[i].available] :
     i \in {j \in DOMAIN l : ~(l[j].available \subseteq l[j].approved)}}

----------------------------------------------------------------------------
(* A poll.  A failed fetch, and a failed delete or rename, end it.         *)
Fetch ==
  /\ pc = "idle" /\ api
  /\ pc' = "upsert" /\ list' = [i \in There |-> nodes[i]]
  /\ UNCHANGED <<env, todo, devices>>

FetchFails == pc = "idle" /\ ~api /\ UNCHANGED vars

(* mutant: a known device is written anew *)
UpsertAnew ==
  /\ pc = "upsert" /\ pc' = "ping"
  /\ devices' = [g \in Groups |->
       IF Members(list, g) = {} THEN devices[g]
       ELSE [ipv4 |-> Addr[Max(Members(list, g))], mac |-> {}]]
  /\ UNCHANGED <<env, list, todo>>

(* upsert_db, under the lock: of several nodes the last in the list wins,   *)
(* and the MAC stays.                                                       *)
Upsert ==
  /\ pc = "upsert" /\ pc' = "ping"
  /\ devices' = [g \in Groups |->
       IF Members(list, g) = {} THEN devices[g]
       ELSE [devices[g] EXCEPT !.ipv4 = Addr[Max(Members(list, g))]]]
  /\ UNCHANGED <<env, list, todo>>

(* mutant: the actions are applied where the approvals are *)
PingThenAct ==
  /\ pc = "ping" /\ pc' = "approve"
  /\ todo' = plan_actions(list)
  /\ UNCHANGED <<env, list, devices>>

(* server_ping_all, record_samples and _forward_to_dashboard take their     *)
(* time and change nothing here.                                            *)
Ping ==
  /\ pc = "ping" /\ pc' = "approve"
  /\ todo' = IF AUTO_APPROVE_ROUTES THEN plan_route_approvals(list) ELSE {}
  /\ UNCHANGED <<env, list, devices>>

(* The call replaces the approved routes; an error is logged.              *)
Approve ==
  /\ pc = "approve"
  /\ \E a \in todo :
       /\ \A b \in todo : a.id <= b.id
       /\ todo' = todo \ {a}
       /\ nodes' = IF api /\ ~DRY_RUN /\ a.id \in There
                   THEN [nodes EXCEPT ![a.id].approved = a.routes] ELSE nodes
  /\ UNCHANGED <<api, changes, pc, list, devices>>

Plan ==
  /\ pc = "approve" /\ todo = {}
  /\ pc' = "act" /\ todo' = plan_actions(list)
  /\ UNCHANGED <<env, list, devices>>

EndPoll == pc' = "idle" /\ list' = <<>> /\ todo' = {}
GoOn(a) == todo' = todo \ {a} /\ UNCHANGED <<pc, list>>

Applied(a) ==
  CASE a.action = "delete" -> [nodes EXCEPT ![a.id] = Removed]
    [] a.action = "rename" -> [nodes EXCEPT ![a.id].clean = TRUE]

Possible(a) == api /\ a.id \in There /\ (a.action = "rename" => ~Taken(a.id))

(* An answer may be lost after the call took effect.                       *)
Act ==
  /\ pc = "act" /\ ~DRY_RUN
  /\ \E a \in todo :
       /\ \A b \in todo \ {a} : Precedes(a, b)
       /\ \/ Possible(a) /\ nodes' = Applied(a) /\ (GoOn(a) \/ EndPoll)
          \/ ~Possible(a) /\ UNCHANGED nodes /\ EndPoll
  /\ UNCHANGED <<api, changes, devices>>

Done ==
  /\ pc = "act" /\ (todo = {} \/ DRY_RUN)
  /\ EndPoll /\ UNCHANGED <<env, devices>>

(* record_report, in an HTTP thread under the lock: the row with the        *)
(* reported address, or else those with the host name.  Without an address  *)
(* cur.rowcount is -1, no row is written.                                   *)
Rows(ipv4) == {g \in Groups : devices[g].ipv4 = ipv4}
Known == {g \in Groups : devices[g].ipv4 # "none"}

Report(i, ipv4) ==
  /\ nodes[i].online
  /\ LET rows == IF ipv4 = "none" THEN {}
                 ELSE IF Rows(ipv4) # {} THEN Rows(ipv4)
                 ELSE {g \in Known : g[2] = Host[i]}
     IN  devices' = [g \in Groups |-> IF g \in rows THEN [devices[g] EXCEPT !.mac = {Device(i)}] ELSE devices[g]]
  /\ UNCHANGED <<env, poll>>

----------------------------------------------------------------------------
(* Headscale and its users.                                                *)
Change(new) ==
  /\ changes < MaxChanges /\ changes' = changes + 1
  /\ nodes' = new
  /\ UNCHANGED <<api, poll, devices>>

Register(i) ==
  /\ nodes[i].st = "new"
  /\ Change([nodes EXCEPT ![i] = [NotYet EXCEPT !.st = "there", !.online = TRUE, !.clean = ~Taken(i)]])

Disconnect(i) ==
  /\ nodes[i].online
  /\ Change([nodes EXCEPT ![i].online = FALSE, ![i].seen = changes + 1])

Connect(i) == i \in There /\ ~nodes[i].online /\ Change([nodes EXCEPT ![i].online = TRUE])

Advertise(i, routes) == nodes[i].online /\ Change([nodes EXCEPT ![i].available = routes])

(* An administrator deletes a node, renames it, or sets its routes.        *)
ByHand(i) ==
  /\ i \in There
  /\ \/ Change([nodes EXCEPT ![i] = Lost])
     \/ Change([nodes EXCEPT ![i].clean = FALSE])
     \/ \E routes \in SUBSET nodes[i].available : Change([nodes EXCEPT ![i].approved = routes])

ApiTurns ==
  /\ changes < MaxChanges /\ changes' = changes + 1
  /\ api' = ~api
  /\ UNCHANGED <<nodes, poll, devices>>

Poll == Fetch \/ FetchFails \/ Upsert \/ Ping \/ Approve \/ Plan \/ Act \/ Done

World ==
  \/ ApiTurns
  \/ \E i \in Ids : Register(i) \/ Disconnect(i) \/ Connect(i) \/ ByHand(i)
  \/ \E i \in Routers, routes \in SUBSET Routes : Advertise(i, routes)

Next ==
  \/ Poll \/ World
  \/ \E i \in Ids : Report(i, Addr[i]) \/ Report(i, "none")

Spec == Init /\ [][Next]_vars

(* The loop goes on, and a node that is online reports now and then.       *)
FairSpec == Spec /\ WF_vars(Poll) /\ \A i \in Ids : WF_vars(Report(i, Addr[i]))

----------------------------------------------------------------------------
(* However nodes come, go and are deleted by others meanwhile, the service  *)
(* never deletes every node a device has had (dedup.py:222-259, "giu lai 1  *)
(* node" l.10).                                                             *)
KeepsOne ==
  \A g \in Groups :
    LET had == {i \in Ids : Device(i) = g /\ nodes[i].st # "new"}
    IN  had # {} => \E i \in had : nodes[i].st # "removed"

(* dedup.py:12 "khong bao gio xoa node online": what the service deletes is *)
(* not online.                                                              *)
NeverDeletesOnline ==
  [][\A i \in Ids : nodes[i].online => nodes'[i].st # "removed"]_vars

(* The approval that a poll sends was computed from its list and replaces    *)
(* what somebody approved since; but an advertised route that it takes back *)
(* is approved again: once Headscale answers, every advertised route is     *)
(* approved in the end, whatever becomes of the rest of the poll            *)
(* (dedup.py:262-283, 1096-1106).                                           *)
RoutesGetApproved ==
  <>[]api => <>[](\A i \in There : nodes[i].available \subseteq nodes[i].approved)

(* dedup.py:267 "chi THEM, khong bao gio bo route da duyet", of the routes  *)
(* approved at the moment: refuted, an approval made since the list was     *)
(* read is taken back.                                                      *)
ApprovingTakesNothing ==
  [][\A i \in Ids : pc = "approve" /\ UNCHANGED changes
       => nodes[i].approved \subseteq nodes'[i].approved]_vars

(* A rename fails for as long as another node holds the name, and ends the  *)
(* poll with all that was planned for later devices (dedup.py:1107-1119).   *)
Stuck(g) ==
  LET now == [i \in There |-> nodes[i]]
  IN  Members(now, g) # {} /\ ~now[Keeper(now, g)].clean /\ Taken(Keeper(now, g))
Earlier(g) == {GroupOrder[k] : k \in {n \in DOMAIN GroupOrder : \E m \in DOMAIN GroupOrder : n < m /\ GroupOrder[m] = g}}

(* A device is tidy if of its nodes only the kept one is offline, and that  *)
(* one has the plain name unless it is taken.                               *)
Tidy(g) ==
  LET now == [i \in There |-> nodes[i]]
  IN  /\ \A i \in Members(now, g) : i = Keeper(now, g) \/ now[i].online
      /\ Members(now, g) # {} => now[Keeper(now, g)].clean \/ Stuck(g)

(* Once Headscale answers and its users rest, each device becomes tidy,     *)
(* though its own name be taken and though polls fail half-way, unless the  *)
(* keeper of an earlier device can for ever not be given its name           *)
(* (dedup.py:222-252, 1066-1120).                                           *)
EventuallyTidy ==
  \A g \in Groups : <>[](api /\ \A h \in Earlier(g) : ~Stuck(h)) => <>[]Tidy(g)

(* Without the exception: refuted, dedup.py:7-12.                           *)
AlwaysTidy == \A g \in Groups : <>[]api => <>[]Tidy(g)

(* A node whose address is in no row (its device's row has the address of   *)
(* another of its nodes) writes its MAC into every row with its host name.  *)
Strays(g) ==
  {j \in There : nodes[j].online /\ Device(j) # g /\ Host[j] = g[2] /\ Rows(Addr[j]) = {}}

(* Once Headscale answers, the row of a device with an online node has the  *)
(* MAC which that node reports, unless such a stray of another device with  *)
(* the same host name stays for ever (dedup.py:316-332, 407-416).           *)
MacsArrive ==
  \A i \in Ids :
    <>[](api /\ Strays(Device(i)) = {})
      => <>[](nodes[i].online => devices[Device(i)].mac = {Device(i)})

(* Without the exception: refuted, against the primary key (user, hostname) *)
(* of dedup.py:291.                                                         *)
MacsAlwaysArrive ==
  \A i \in Ids :
    <>[]api => <>[](nodes[i].online => devices[Device(i)].mac = {Device(i)})
=============================================================================
