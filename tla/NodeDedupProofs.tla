--------------------------- MODULE NodeDedupProofs ---------------------------
(***************************************************************************)
(* Proofs about NodeDedup, for any nodes, users, host names and routes,    *)
(* any number of changes around the service, and any order of the plan's   *)
(* actions: a device keeps one of its nodes, and an approval only adds.    *)
(***************************************************************************)
EXTENDS NodeDedup, FiniteSetTheorems, WellFoundedInduction, TLAPS

(* Nobody but the service removes a node, and until its plan is applied it *)
(* has removed none of those it fetched; then it keeps the keepers.        *)
KeeperStays ==
  /\ pc \in {"upsert", "ping", "approve"}
       => \A i \in DOMAIN list : nodes[i].st \in {"there", "lost"}
  /\ pc = "act"
       => \A g \in Groups :
            Members(list, g) # {} => nodes[Keeper(list, g)].st \in {"there", "lost"}

(* What is still to do was planned from the list of this poll.             *)
Planned ==
  /\ pc = "approve" => todo \subseteq plan_route_approvals(list)
  /\ pc = "act" => todo \subseteq plan_actions(list)

DedupInv == TypeOK /\ KeeperStays /\ Planned /\ KeepsOne

----------------------------------------------------------------------------
(* A finite set that a transitive relation orders has a greatest element.  *)
LEMMA GreatestExists ==
  ASSUME NEW S, IsFiniteSet(S), S # {}, NEW R,
         \A i, j \in S : i # j => <<i, j>> \in R \/ <<j, i>> \in R,
         \A i, j, k \in S : <<i, j>> \in R /\ <<j, k>> \in R => <<i, k>> \in R
  PROVE  \E k \in S : \A j \in S \ {k} : <<k, j>> \in R
<1> DEFINE Tops(T) == {k \in T : \A j \in T \ {k} : <<k, j>> \in R}
           Bad == {T \in SUBSET S : T # {} /\ Tops(T) = {}}
<1> SUFFICES ASSUME Bad # {} PROVE FALSE
  <2>1. S \notin Bad
    OBVIOUS
  <2> QED
    BY <2>1
<1>1. IsWellFoundedOn(StrictSubsetOrdering(S), FiniteSubsetsOf(S))
  BY FS_StrictSubsetOrderingWellFounded
<1>2. Bad \subseteq FiniteSubsetsOf(S)
  BY FS_Subset DEF FiniteSubsetsOf
<1>3. PICK T \in Bad : \A U \in Bad : <<U, T>> \notin StrictSubsetOrdering(S)
  <2> HIDE DEF Bad
  <2> QED
    BY <1>1, <1>2, WFMin
<1>4. PICK x \in T : TRUE
  OBVIOUS
<1> DEFINE U == T \ {x}
<1>5. U # {}
  <2>1. U = {} => x \in Tops(T)
    OBVIOUS
  <2> QED
    BY <2>1
<1>6. U \notin Bad
  <2>1. U \in SUBSET S /\ T \in SUBSET S /\ U \subseteq T /\ U # T
    BY <1>4
  <2>2. <<U, T>> \in StrictSubsetOrdering(S)
    BY <2>1 DEF StrictSubsetOrdering
  <2> QED
    BY <1>3, <2>2
<1>7. PICK m \in U : \A j \in U \ {m} : <<m, j>> \in R
  BY <1>5, <1>6
<1>8. m \in S /\ x \in S /\ m # x /\ T \subseteq S
  OBVIOUS
<1>9. CASE <<m, x>> \in R
  <2>1. m \in Tops(T)
    BY <1>7, <1>9
  <2> QED
    BY <2>1
<1>10. CASE <<x, m>> \in R
  <2>1. ASSUME NEW j \in T \ {x} PROVE <<x, j>> \in R
    BY <1>7, <1>8, <1>10
  <2>2. x \in Tops(T)
    BY <2>1
  <2> QED
    BY <2>2
<1> QED
  BY <1>8, <1>9, <1>10

(* The largest of some ids is one of them.                                 *)
LEMMA MaxIsMember ==
  ASSUME NEW S \in SUBSET Ids, S # {}
  PROVE  Max(S) \in S
<1> DEFINE R == {e \in Ids \X Ids : e[1] > e[2]}
<1>1. Ids \subseteq Nat /\ IsFiniteSet(S)
  BY DedupAssumption, FS_Subset
<1>2. \A i, j \in Ids : <<i, j>> \in R <=> i > j
  OBVIOUS
<1>3. \A i, j \in S : i # j => <<i, j>> \in R \/ <<j, i>> \in R
  BY <1>1, <1>2
<1>4. \A i, j, k \in S : <<i, j>> \in R /\ <<j, k>> \in R => <<i, k>> \in R
  BY <1>1, <1>2
<1> HIDE DEF R
<1>5. PICK k \in S : \A j \in S \ {k} : <<k, j>> \in R
  BY <1>1, <1>3, <1>4, GreatestExists
<1>6. ASSUME NEW y \in S PROVE k >= y
  <2>1. k \in Ids /\ y \in Ids /\ k \in Nat /\ y \in Nat
    BY <1>1
  <2>2. CASE y = k
    BY <2>1, <2>2
  <2>3. CASE y # k
    <3>1. <<k, y>> \in R
      BY <1>5, <2>3
    <3>2. k > y
      BY <1>2, <2>1, <3>1
    <3> QED
      BY <2>1, <3>2
  <2> QED
    BY <2>2, <2>3
<1> QED
  BY <1>6 DEF Max

(* A device with nodes in a list has a keeper, one of them.                *)
LEMMA KeeperIsMember ==
  ASSUME NEW l, DOMAIN l \subseteq Ids, \A i \in DOMAIN l : l[i] \in NodeState,
         NEW g, Members(l, g) # {}
  PROVE  Keeper(l, g) \in Members(l, g)
<1> DEFINE S == Members(l, g)
           R == {e \in Ids \X Ids : Beats(l, e[1], e[2])}
<1>1. S \subseteq DOMAIN l /\ S \subseteq Ids /\ Ids \subseteq Nat /\ IsFiniteSet(S)
  BY DedupAssumption, FS_Subset DEF Members
<1>2. \A i, j \in Ids : <<i, j>> \in R <=> Beats(l, i, j)
  OBVIOUS
<1>3. \A i \in S : l[i].online \in BOOLEAN /\ LastSeen(l[i]) \in Nat
  BY <1>1, DedupAssumption DEF NodeState, LastSeen
<1> HIDE DEF S, R
<1>4. ASSUME NEW i \in S, NEW j \in S, i # j
      PROVE  <<i, j>> \in R \/ <<j, i>> \in R
  <2>1. /\ i \in Ids /\ j \in Ids /\ i \in Nat /\ j \in Nat
        /\ l[i].online \in BOOLEAN /\ LastSeen(l[i]) \in Nat
        /\ l[j].online \in BOOLEAN /\ LastSeen(l[j]) \in Nat
    BY <1>1, <1>3
  <2>2. Beats(l, i, j) \/ Beats(l, j, i)
    BY <2>1, <1>4 DEF Beats
  <2> QED
    BY <1>2, <2>1, <2>2
<1>5. ASSUME NEW i \in S, NEW j \in S, NEW k \in S, <<i, j>> \in R, <<j, k>> \in R
      PROVE  <<i, k>> \in R
  <2>1. /\ i \in Ids /\ j \in Ids /\ k \in Ids /\ i \in Nat /\ j \in Nat /\ k \in Nat
        /\ l[i].online \in BOOLEAN /\ LastSeen(l[i]) \in Nat
        /\ l[j].online \in BOOLEAN /\ LastSeen(l[j]) \in Nat
        /\ l[k].online \in BOOLEAN /\ LastSeen(l[k]) \in Nat
    BY <1>1, <1>3
  <2>2. Beats(l, i, j) /\ Beats(l, j, k)
    BY <1>2, <1>5, <2>1
  <2>3. Beats(l, i, k)
    BY <2>1, <2>2 DEF Beats
  <2> QED
    BY <1>2, <2>1, <2>3
<1>6. \E k \in S : \A j \in S \ {k} : Beats(l, k, j)
  <2>1. PICK k \in S : \A j \in S \ {k} : <<k, j>> \in R
    BY <1>1, <1>4, <1>5, GreatestExists DEF S
  <2> QED
    BY <1>1, <1>2, <2>1
<1> QED
  BY <1>6 DEF S, Keeper

----------------------------------------------------------------------------
(* What is planned: a keeper is never deleted, and an approval adds.       *)
LEMMA PlansAreTyped ==
  ASSUME TypeOK
  PROVE  /\ plan_actions(list) \subseteq Action
         /\ plan_route_approvals(list) \subseteq Approval
<1>1. /\ DOMAIN list \subseteq Ids
      /\ \A i \in DOMAIN list : list[i] \in NodeState
  BY DEF TypeOK
<1>2. ASSUME NEW g \in Groups PROVE PlanOf(list, g) \subseteq Action
  <2>1. CASE Members(list, g) = {}
    BY <2>1 DEF PlanOf
  <2>2. CASE Members(list, g) # {}
    <3>1. Keeper(list, g) \in Ids
      BY <1>1, <2>2, KeeperIsMember DEF Members
    <3>2. Doomed(list, g) \subseteq Ids
      BY <1>1 DEF Doomed, Members
    <3> QED
      BY <2>2, <3>1, <3>2 DEF PlanOf, Renames, Delete, Rename, Action
  <2> QED
    BY <2>1, <2>2
<1>3. plan_actions(list) \subseteq Action
  BY <1>2 DEF plan_actions
<1>4. plan_route_approvals(list) \subseteq Approval
  BY <1>1 DEF plan_route_approvals, Approval, NodeState
<1> QED
  BY <1>3, <1>4

(* A delete that is planned is of a node beside the keeper of its device.  *)
LEMMA DeletesAreDoomed ==
  ASSUME NEW a \in plan_actions(list), a.action = "delete"
  PROVE  \E g \in Groups : Members(list, g) # {} /\ a.id \in Doomed(list, g)
<1>1. PICK g \in Groups : a \in PlanOf(list, g)
  BY DEF plan_actions
<1>2. Members(list, g) # {} /\ a \in {Delete(i) : i \in Doomed(list, g)} \cup Renames(list, g)
  BY <1>1 DEF PlanOf
<1>3. a \notin Renames(list, g)
  BY DEF Renames, Rename
<1> QED
  BY <1>2, <1>3 DEF Delete

(* What happens to a node unless the service removes it: none is new again, *)
(* and none is removed.                                                     *)
Lives(i) ==
  \/ nodes'[i].st = nodes[i].st
  \/ nodes[i].st = "new" /\ nodes'[i].st = "there"
  \/ nodes[i].st = "there" /\ nodes'[i].st = "lost"

(* What a change around the service does.                                  *)
Changed ==
  /\ nodes' \in [Ids -> NodeState] /\ changes' \in 0..MaxChanges /\ changes' # changes
  /\ api' \in BOOLEAN /\ UNCHANGED <<pc, list, todo, devices>>
  /\ \A i \in Ids : Lives(i)

(* A change of one node that lives on is a change around the service.      *)
LEMMA ChangeDoes ==
  ASSUME TypeOK, NEW i \in Ids, NEW n \in NodeState, Change([nodes EXCEPT ![i] = n]),
         \/ n.st = nodes[i].st
         \/ nodes[i].st = "new" /\ n.st = "there"
         \/ nodes[i].st = "there" /\ n.st = "lost"
  PROVE  Changed
<1> DEFINE new == [nodes EXCEPT ![i] = n]
<1>1. /\ new \in [Ids -> NodeState] /\ new[i] = n
      /\ \A j \in Ids \ {i} : new[j] = nodes[j]
  BY DEF TypeOK
<1> HIDE DEF new
<1>2. nodes' = new
  BY DEF Change, new
<1>3. changes' \in 0..MaxChanges /\ changes' # changes
  BY DedupAssumption DEF Change, TypeOK
<1>4. api' \in BOOLEAN /\ UNCHANGED <<pc, list, todo, devices>>
  BY DEF Change, TypeOK, poll
<1>5. ASSUME NEW j \in Ids PROVE Lives(j)
  BY <1>1, <1>2 DEF Lives
<1> QED
  BY <1>1, <1>2, <1>3, <1>4, <1>5 DEF Changed

(* Headscale and its users change one node, or whether the API answers.    *)
LEMMA WorldDoes ==
  ASSUME TypeOK, World
  PROVE  Changed
<1> USE DEF TypeOK
<1>1. CASE ApiTurns
  <2>1. changes' \in 0..MaxChanges /\ changes' # changes
    BY <1>1, DedupAssumption DEF ApiTurns
  <2>2. api' \in BOOLEAN
    BY <1>1 DEF ApiTurns
  <2>3. UNCHANGED <<nodes, pc, list, todo, devices>>
    BY <1>1 DEF ApiTurns, poll
  <2> QED
    BY <2>1, <2>2, <2>3 DEF Changed, Lives
<1>2. ASSUME NEW i \in Ids PROVE nodes[i] \in NodeState /\ nodes[i].online \in BOOLEAN
  BY DEF NodeState
<1>3. ASSUME NEW i \in Ids, Register(i) PROVE Changed
  <2> DEFINE n == [NotYet EXCEPT !.st = "there", !.online = TRUE, !.clean = ~Taken(i)]
  <2>1. n \in NodeState /\ n.st = "there"
    <3>1. 0 \in 0..MaxChanges
      BY DedupAssumption
    <3>2. (~Taken(i)) \in BOOLEAN
      BY DEF Taken
    <3> QED
      BY <3>1, <3>2 DEF NotYet, NodeState
  <2>2. Change([nodes EXCEPT ![i] = n]) /\ nodes[i].st = "new"
    BY <1>3 DEF Register
  <2> HIDE DEF n
  <2> QED
    BY <2>1, <2>2, ChangeDoes
<1>4. ASSUME NEW i \in Ids, Disconnect(i) PROVE Changed
  <2> DEFINE n == [nodes[i] EXCEPT !.online = FALSE, !.seen = changes + 1]
  <2>1. n \in NodeState /\ n.st = nodes[i].st
    <3>1. changes + 1 \in 0..MaxChanges
      BY <1>4, DedupAssumption DEF Disconnect, Change
    <3> QED
      BY <1>2, <3>1 DEF NodeState
  <2>2. Change([nodes EXCEPT ![i] = n])
    BY <1>4 DEF Disconnect
  <2> HIDE DEF n
  <2> QED
    BY <2>1, <2>2, ChangeDoes
<1>5. ASSUME NEW i \in Ids, Connect(i) PROVE Changed
  <2> DEFINE n == [nodes[i] EXCEPT !.online = TRUE]
  <2>1. n \in NodeState /\ n.st = nodes[i].st
    BY <1>2 DEF NodeState
  <2>2. Change([nodes EXCEPT ![i] = n])
    BY <1>5 DEF Connect
  <2> HIDE DEF n
  <2> QED
    BY <2>1, <2>2, ChangeDoes
<1>6. ASSUME NEW i \in Ids, ByHand(i) PROVE Changed
  <2>1. nodes[i].st = "there"
    BY <1>6 DEF ByHand, There
  <2>2. CASE Change([nodes EXCEPT ![i] = Lost])
    <3>1. Lost \in NodeState /\ Lost.st = "lost"
      <4>1. 0 \in 0..MaxChanges
        BY DedupAssumption
      <4> QED
        BY <4>1 DEF Lost, NotYet, NodeState
    <3> QED
      BY <2>1, <2>2, <3>1, ChangeDoes
  <2>3. CASE Change([nodes EXCEPT ![i].clean = FALSE])
    <3> DEFINE n == [nodes[i] EXCEPT !.clean = FALSE]
    <3>1. n \in NodeState /\ n.st = nodes[i].st
      BY <1>2 DEF NodeState
    <3>2. Change([nodes EXCEPT ![i] = n])
      BY <2>3
    <3> HIDE DEF n
    <3> QED
      BY <3>1, <3>2, ChangeDoes
  <2>4. ASSUME NEW routes \in SUBSET nodes[i].available,
               Change([nodes EXCEPT ![i].approved = routes])
        PROVE  Changed
    <3> DEFINE n == [nodes[i] EXCEPT !.approved = routes]
    <3>1. n \in NodeState /\ n.st = nodes[i].st
      BY <1>2 DEF NodeState
    <3>2. Change([nodes EXCEPT ![i] = n])
      BY <2>4
    <3> HIDE DEF n
    <3> QED
      BY <3>1, <3>2, ChangeDoes
  <2> QED
    BY <1>6, <2>2, <2>3, <2>4 DEF ByHand
<1>7. ASSUME NEW i \in Routers, NEW routes \in SUBSET Routes, Advertise(i, routes)
      PROVE  Changed
  <2> DEFINE n == [nodes[i] EXCEPT !.available = routes]
  <2>1. i \in Ids
    BY DedupAssumption
  <2>2. n \in NodeState /\ n.st = nodes[i].st
    BY <1>2, <2>1 DEF NodeState
  <2>3. Change([nodes EXCEPT ![i] = n])
    BY <1>7 DEF Advertise
  <2> HIDE DEF n
  <2> QED
    BY <2>1, <2>2, <2>3, ChangeDoes
<1> QED
  BY <1>1, <1>3, <1>4, <1>5, <1>6, <1>7 DEF World

----------------------------------------------------------------------------
(* What a call of the service does to the nodes: it approves the planned   *)
(* routes of one that is there, removes one, or gives one its plain name.  *)
LEMMA ApproveDoes ==
  ASSUME TypeOK, Approve
  PROVE  /\ todo' \subseteq todo /\ nodes' \in [Ids -> NodeState]
         /\ \A i \in Ids : nodes'[i].st = nodes[i].st
         /\ \A i \in Ids : \/ nodes'[i].approved = nodes[i].approved
                           \/ \E a \in todo : a.id = i /\ nodes'[i].approved = a.routes
<1>1. PICK a \in todo :
        /\ todo' = todo \ {a}
        /\ nodes' = IF api /\ ~DRY_RUN /\ a.id \in There
                    THEN [nodes EXCEPT ![a.id].approved = a.routes] ELSE nodes
  BY DEF Approve
<1>2. a.id \in Ids /\ a.routes \subseteq Routes /\ nodes[a.id] \in NodeState
  BY DEF TypeOK, Approve, Approval
<1> DEFINE n == [nodes[a.id] EXCEPT !.approved = a.routes]
<1>3. n \in NodeState /\ n.st = nodes[a.id].st /\ n.approved = a.routes
  BY <1>2 DEF NodeState
<1>4. nodes' = [nodes EXCEPT ![a.id] = n] \/ nodes' = nodes
  BY <1>1
<1> HIDE DEF n
<1> QED
  BY <1>1, <1>2, <1>3, <1>4 DEF TypeOK

(* An action of the plan, applied or failed.                               *)
LEMMA ActDoes ==
  ASSUME TypeOK, Act
  PROVE  \E a \in todo :
           /\ a \in Action
           /\ (UNCHANGED <<pc, list>> /\ todo' = todo \ {a}) \/ EndPoll
           /\ nodes' \in [Ids -> NodeState]
           /\ \A i \in Ids : \/ nodes'[i].st = nodes[i].st
                             \/ a.id = i /\ a.action = "delete" /\ nodes'[i].st = "removed"
           /\ \A i \in Ids : nodes[i].st = "new" => nodes'[i].st = "new"
<1>1. PICK a \in todo :
        \/ Possible(a) /\ nodes' = Applied(a) /\ (GoOn(a) \/ EndPoll)
        \/ ~Possible(a) /\ UNCHANGED nodes /\ EndPoll
  BY DEF Act
<1>2. a \in Action /\ a.id \in Ids /\ nodes[a.id] \in NodeState
  BY DEF TypeOK, Act, Action
<1>3. CASE UNCHANGED nodes
  BY <1>1, <1>2, <1>3 DEF TypeOK, GoOn
<1>4. CASE a.action = "delete" /\ Possible(a) /\ nodes' = Applied(a)
  <2>1. nodes' = [nodes EXCEPT ![a.id] = Removed] /\ nodes[a.id].st = "there"
    BY <1>4 DEF Applied, Possible, There
  <2>2. Removed \in NodeState /\ Removed.st = "removed"
    <3>1. 0 \in 0..MaxChanges
      BY DedupAssumption
    <3> QED
      BY <3>1 DEF Removed, NotYet, NodeState
  <2> QED
    BY <1>1, <1>2, <1>4, <2>1, <2>2 DEF TypeOK, GoOn
<1>5. CASE a.action = "rename" /\ Possible(a) /\ nodes' = Applied(a)
  <2> DEFINE n == [nodes[a.id] EXCEPT !.clean = TRUE]
  <2>1. nodes' = [nodes EXCEPT ![a.id] = n]
    BY <1>5 DEF Applied
  <2>2. n \in NodeState /\ n.st = nodes[a.id].st
    BY <1>2 DEF NodeState
  <2> HIDE DEF n
  <2> QED
    BY <1>1, <1>2, <1>5, <2>1, <2>2 DEF TypeOK, GoOn
<1> QED
  BY <1>1, <1>2, <1>3, <1>4, <1>5 DEF Action

(* What the table gets: rows of the same form.                             *)
LEMMA UpsertDoes ==
  ASSUME TypeOK, Upsert
  PROVE  devices' \in [Groups -> Row]
<1>1. ASSUME NEW g \in Groups, Members(list, g) # {}
      PROVE  [devices[g] EXCEPT !.ipv4 = Addr[Max(Members(list, g))]] \in Row
  <2>1. Max(Members(list, g)) \in Ids
    BY <1>1, MaxIsMember DEF Members, TypeOK
  <2>2. devices[g] \in Row
    BY DEF TypeOK
  <2> QED
    BY <2>1, <2>2 DEF Row
<1>2. \A g \in Groups : devices[g] \in Row
  BY DEF TypeOK
<1> QED
  BY <1>1, <1>2 DEF Upsert

(* A report changes the table only.                                        *)
LEMMA ReportDoes ==
  ASSUME TypeOK, NEW i \in Ids, NEW ipv4, Report(i, ipv4)
  PROVE  devices' \in [Groups -> Row] /\ UNCHANGED <<nodes, api, changes, pc, list, todo>>
<1>1. ASSUME NEW g \in Groups
      PROVE  devices[g] \in Row /\ [devices[g] EXCEPT !.mac = {Device(i)}] \in Row
  BY DEF TypeOK, Row
<1>2. PICK rows :
        devices' = [g \in Groups |-> IF g \in rows THEN [devices[g] EXCEPT !.mac = {Device(i)}]
                                     ELSE devices[g]]
  BY DEF Report
<1>3. devices' \in [Groups -> Row]
  BY <1>1, <1>2
<1> QED
  BY <1>3 DEF Report, env, poll

----------------------------------------------------------------------------
(* A step keeps the types.                                                 *)
LEMMA TypedStep ==
  ASSUME TypeOK, [Next]_vars
  PROVE  TypeOK'
<1> USE DEF TypeOK, env, poll
<1>1. CASE Fetch
  <2>1. DOMAIN list' = There /\ There \subseteq Ids /\ \A i \in There : list'[i] \in NodeState
    BY <1>1 DEF Fetch, There
  <2> QED
    BY <1>1, <2>1 DEF Fetch
<1>2. CASE FetchFails
  BY <1>2 DEF FetchFails, vars
<1>3. CASE Upsert
  BY <1>3, UpsertDoes DEF Upsert
<1>4. CASE Ping
  BY <1>4, PlansAreTyped DEF Ping
<1>5. CASE Approve
  BY <1>5, ApproveDoes DEF Approve
<1>6. CASE Plan
  BY <1>6, PlansAreTyped DEF Plan
<1>7. CASE Act
  <2>1. pc = "act" /\ UNCHANGED <<api, changes, devices>>
    BY <1>7 DEF Act
  <2>2. nodes' \in [Ids -> NodeState]
    BY <1>7, ActDoes
  <2>3. (UNCHANGED <<pc, list>> /\ todo' \subseteq todo) \/ EndPoll
    BY <1>7, ActDoes
  <2>4. CASE UNCHANGED <<pc, list>> /\ todo' \subseteq todo
    BY <2>1, <2>2, <2>4
  <2>5. CASE EndPoll
    BY <2>1, <2>2, <2>5 DEF EndPoll
  <2> QED
    BY <2>3, <2>4, <2>5
<1>8. CASE Done
  BY <1>8 DEF Done, EndPoll
<1>9. CASE World
  BY <1>9, WorldDoes DEF Changed
<1>10. ASSUME NEW i \in Ids, NEW ipv4, Report(i, ipv4) PROVE TypeOK'
  BY <1>10, ReportDoes
<1>11. CASE UNCHANGED vars
  BY <1>11 DEF vars
<1> QED
  BY <1>1, <1>2, <1>3, <1>4, <1>5, <1>6, <1>7, <1>8, <1>9, <1>10, <1>11 DEF Next, Poll

(* A step leaves the plan what it was, or shorter, or makes it anew.       *)
LEMMA PlannedStep ==
  ASSUME DedupInv, [Next]_vars
  PROVE  Planned'
<1> USE DEF DedupInv, Planned, env, poll
<1>1. CASE Fetch \/ FetchFails \/ Upsert \/ Done
  BY <1>1 DEF Fetch, FetchFails, Upsert, Done, EndPoll, vars
<1>2. CASE Ping
  BY <1>2 DEF Ping
<1>3. CASE Approve
  BY <1>3, ApproveDoes DEF Approve
<1>4. CASE Plan
  BY <1>4 DEF Plan
<1>5. CASE Act
  <2>1. pc = "act"
    BY <1>5 DEF Act
  <2>2. (UNCHANGED <<pc, list>> /\ todo' \subseteq todo) \/ pc' = "idle"
    BY <1>5, ActDoes DEF EndPoll
  <2> QED
    BY <2>1, <2>2
<1>6. CASE World
  BY <1>6, WorldDoes DEF Changed
<1>7. ASSUME NEW i \in Ids, NEW ipv4, Report(i, ipv4) PROVE Planned'
  BY <1>7, ReportDoes
<1>8. CASE UNCHANGED vars
  BY <1>8 DEF vars
<1> QED
  BY <1>1, <1>2, <1>3, <1>4, <1>5, <1>6, <1>7, <1>8 DEF Next, Poll

(* How the nodes move: the service removes one only by applying a planned  *)
(* delete, and no other step removes one.                                  *)
LEMMA NodesMove ==
  ASSUME DedupInv, [Next]_vars
  PROVE  \/ \A i \in Ids : Lives(i)
         \/ /\ pc = "act" /\ (UNCHANGED <<pc, list>> \/ pc' = "idle")
            /\ \E g \in Groups : \E d \in Doomed(list, g) :
                 /\ Members(list, g) # {} /\ nodes'[d].st = "removed"
                 /\ \A i \in Ids \ {d} : nodes'[i].st = nodes[i].st
<1> USE DEF DedupInv, Lives, env, poll
<1>1. CASE \/ Fetch \/ FetchFails \/ Upsert \/ Ping \/ Plan \/ Done \/ UNCHANGED vars
  BY <1>1 DEF Fetch, FetchFails, Upsert, Ping, Plan, Done, vars
<1>2. CASE Approve
  BY <1>2, ApproveDoes
<1>3. CASE Act
  <2>1. pc = "act"
    BY <1>3 DEF Act
  <2>2. PICK a \in todo :
          /\ a \in Action
          /\ (UNCHANGED <<pc, list>> /\ todo' = todo \ {a}) \/ EndPoll
          /\ nodes' \in [Ids -> NodeState]
          /\ \A i \in Ids : \/ nodes'[i].st = nodes[i].st
                            \/ a.id = i /\ a.action = "delete" /\ nodes'[i].st = "removed"
          /\ \A i \in Ids : nodes[i].st = "new" => nodes'[i].st = "new"
    BY <1>3, ActDoes
  <2>3. CASE \A i \in Ids : nodes'[i].st = nodes[i].st
    BY <2>3
  <2>4. CASE a.action = "delete" /\ nodes'[a.id].st = "removed"
    <3>1. PICK g \in Groups : Members(list, g) # {} /\ a.id \in Doomed(list, g)
      BY <2>1, <2>2, <2>4, DeletesAreDoomed DEF Planned
    <3>2. UNCHANGED <<pc, list>> \/ pc' = "idle"
      BY <2>2 DEF EndPoll
    <3> QED
      BY <2>1, <2>2, <2>4, <3>1, <3>2
  <2> QED
    BY <2>2, <2>3, <2>4
<1>4. CASE World
  BY <1>4, WorldDoes DEF Changed
<1>5. ASSUME NEW i \in Ids, NEW ipv4, Report(i, ipv4) PROVE nodes' = nodes
  BY <1>5, ReportDoes
<1> QED
  BY <1>1, <1>2, <1>3, <1>4, <1>5 DEF Next, Poll

(* How the poll goes on: from one stage to the next, with the same list.   *)
LEMMA PollMoves ==
  ASSUME TypeOK, [Next]_vars
  PROVE  \/ Fetch \/ pc' = "idle"
         \/ /\ UNCHANGED list
            /\ \/ pc' = pc
               \/ pc = "upsert" /\ pc' = "ping"
               \/ pc = "ping" /\ pc' = "approve"
               \/ pc = "approve" /\ pc' = "act"
<1>1. CASE \/ Fetch \/ FetchFails \/ Upsert \/ Ping \/ Approve \/ Plan \/ Done \/ UNCHANGED vars
  BY <1>1 DEF FetchFails, Upsert, Ping, Approve, Plan, Done, EndPoll, vars, poll
<1>2. CASE Act
  BY <1>2, ActDoes DEF EndPoll
<1>3. CASE World
  BY <1>3, WorldDoes DEF Changed
<1>4. ASSUME NEW i \in Ids, NEW ipv4, Report(i, ipv4) PROVE UNCHANGED <<pc, list>>
  BY <1>4, ReportDoes
<1> QED
  BY <1>1, <1>2, <1>3, <1>4 DEF Next, Poll

(* A keeper stays: the poll removes only what is beside one.               *)
LEMMA KeeperStep ==
  ASSUME DedupInv, [Next]_vars
  PROVE  KeeperStays'
<1> USE DEF DedupInv
<1> DEFINE Still(i) == nodes[i].st \in {"there", "lost"}
<1>1. CASE Fetch
  <2>1. pc' = "upsert" /\ DOMAIN list' = There /\ nodes' = nodes
    BY <1>1 DEF Fetch, env
  <2> QED
    BY <2>1 DEF KeeperStays, There
<1>2. CASE pc' = "idle"
  BY <1>2 DEF KeeperStays
<1>3. CASE /\ UNCHANGED list
           /\ \/ pc' = pc
              \/ pc = "upsert" /\ pc' = "ping"
              \/ pc = "ping" /\ pc' = "approve"
              \/ pc = "approve" /\ pc' = "act"
  <2>1. DOMAIN list \subseteq Ids /\ \A g : Members(list', g) = Members(list, g)
    BY <1>3 DEF TypeOK
  <2>2. \A g \in Groups : Members(list, g) # {} => Keeper(list, g) \in Members(list, g)
    BY KeeperIsMember DEF TypeOK
  <2>3. \A g \in Groups : Members(list, g) \subseteq DOMAIN list
    BY DEF Members
  <2>4. pc \in {"approve", "act"}
          => \A g \in Groups : Members(list, g) # {} => Still(Keeper(list, g))
    BY <2>2, <2>3 DEF KeeperStays
  <2>5. pc' = "act" => pc \in {"approve", "act"}
    BY <1>3
  <2>6. CASE \A i \in Ids : Lives(i)
    <3>1. \A i \in Ids : Still(i) => Still(i)'
      BY <2>6 DEF Lives
    <3>2. pc' \in {"upsert", "ping", "approve"} => \A i \in DOMAIN list : Still(i)'
      BY <1>3, <2>1, <3>1 DEF KeeperStays
    <3>3. pc' = "act"
            => \A g \in Groups :
                 Members(list, g) # {} => (nodes'[Keeper(list, g)].st \in {"there", "lost"})
      BY <2>1, <2>2, <2>3, <2>4, <2>5, <3>1
    <3> QED
      BY <1>3, <2>1, <3>2, <3>3 DEF KeeperStays
  <2>7. ASSUME NEW h \in Groups, NEW d \in Doomed(list, h), pc = "act", pc' = "act",
               \A i \in Ids \ {d} : nodes'[i].st = nodes[i].st
        PROVE  KeeperStays'
    <3>1. ASSUME NEW g \in Groups, Members(list, g) # {}
          PROVE  nodes'[Keeper(list, g)].st \in {"there", "lost"}
      <4>1. Keeper(list, g) \in Members(list, g) /\ Keeper(list, g) \in Ids
        BY <2>1, <2>2, <2>3, <3>1
      <4>2. Keeper(list, g) # d
        BY <2>7, <4>1 DEF Doomed, Members
      <4> QED
        BY <2>4, <2>7, <3>1, <4>1, <4>2
    <3> QED
      BY <1>3, <2>1, <2>7, <3>1 DEF KeeperStays
  <2> QED
    BY <1>2, <1>3, <2>6, <2>7, NodesMove
<1> QED
  BY <1>1, <1>2, <1>3, PollMoves

(* A device keeps one of the nodes it has had.                             *)
LEMMA KeepsOneStep ==
  ASSUME DedupInv, [Next]_vars
  PROVE  KeepsOne'
<1> USE DEF DedupInv
<1> DEFINE had(g) == {i \in Ids : Device(i) = g /\ nodes[i].st # "new"}
           Kept(g) == had(g) # {} => \E i \in had(g) : nodes[i].st # "removed"
<1> SUFFICES ASSUME NEW g \in Groups PROVE Kept(g)'
  BY DEF KeepsOne
<1>1. Kept(g)
  BY DEF KeepsOne
<1>2. \A i \in Ids : nodes[i].st \in {"new", "there", "removed", "lost"}
  BY DEF TypeOK, NodeState
<1>3. CASE \A i \in Ids : Lives(i)
  BY <1>1, <1>2, <1>3 DEF Lives
<1>4. ASSUME NEW h \in Groups, NEW d \in Doomed(list, h), pc = "act", Members(list, h) # {},
             \A i \in Ids \ {d} : nodes'[i].st = nodes[i].st
      PROVE  Kept(g)'
  <2>1. d \in Ids /\ Device(d) = h /\ d # Keeper(list, h)
    BY DEF Doomed, Members, TypeOK
  <2>2. CASE g # h
    <3>1. \A i \in Ids : Device(i) = g => nodes'[i].st = nodes[i].st
      BY <1>4, <2>1, <2>2
    <3> HIDE DEF Device
    <3> QED
      BY <1>1, <3>1
  <2>3. CASE g = h
    <3>1. Keeper(list, h) \in Ids /\ Device(Keeper(list, h)) = h
      BY <1>4, KeeperIsMember DEF Members, TypeOK
    <3>2. nodes[Keeper(list, h)].st \in {"there", "lost"}
      BY <1>4 DEF KeeperStays
    <3>3. nodes'[Keeper(list, h)].st \in {"there", "lost"}
      BY <1>4, <2>1, <3>1, <3>2
    <3> QED
      BY <2>3, <3>1, <3>3
  <2> QED
    BY <2>2, <2>3
<1> QED
  BY <1>3, <1>4, NodesMove

(* The inductive invariant holds in every reachable state.                 *)
LEMMA DedupInitial == Init => DedupInv
<1> SUFFICES ASSUME Init PROVE DedupInv
  OBVIOUS
<1> USE DEF Init
<1>1. NotYet \in NodeState /\ NoRow \in Row /\ 0 \in 0..MaxChanges
  <2>1. 0 \in 0..MaxChanges
    BY DedupAssumption
  <2> QED
    BY <2>1 DEF NotYet, NodeState, NoRow, Row
<1>2. DOMAIN list = {}
  OBVIOUS
<1>3. TypeOK
  BY <1>1, <1>2 DEF TypeOK
<1>4. KeepsOne
  BY DEF KeepsOne, NotYet
<1> QED
  BY <1>3, <1>4 DEF DedupInv, KeeperStays, Planned

THEOREM DedupInvariant == Spec => []DedupInv
<1>1. DedupInv /\ [Next]_vars => DedupInv'
  BY TypedStep, PlannedStep, KeeperStep, KeepsOneStep DEF DedupInv
<1> QED
  BY DedupInitial, <1>1, PTL DEF Spec

(* Nodes, list, plan and table keep their types: what is to be approved is *)
(* never applied as an action, nor an action as an approval.               *)
THEOREM DedupTyped == Spec => []TypeOK
<1>1. DedupInv => TypeOK
  BY DEF DedupInv
<1> QED
  BY DedupInvariant, <1>1, PTL

(* However nodes come, go and are deleted by others meanwhile, the service *)
(* never deletes every node a device has had.                              *)
THEOREM OneIsKept == Spec => []KeepsOne
<1>1. DedupInv => KeepsOne
  BY DEF DedupInv
<1> QED
  BY DedupInvariant, <1>1, PTL

(* What the service deletes is not the keeper of its device and was offline *)
(* when the poll read the list.  So an online node goes, against            *)
(* dedup.py:12, in one way only: it came back during this poll              *)
(* (dedup.py:1107-1116; NeverDeletesOnline is refuted by the run            *)
(* DedupOnline).                                                            *)
DeletesWereOffline ==
  [][\A i \in Ids : nodes[i].st # "removed" /\ nodes'[i].st = "removed"
       => i \in DOMAIN list /\ ~list[i].online /\ i # Keeper(list, Device(i))]_vars

THEOREM OnlyOfflineIsDeleted == Spec => DeletesWereOffline
<1>1. ASSUME DedupInv, [Next]_vars, NEW i \in Ids, nodes[i].st # "removed", nodes'[i].st = "removed"
      PROVE  i \in DOMAIN list /\ ~list[i].online /\ i # Keeper(list, Device(i))
  <2>1. PICK g \in Groups : \E d \in Doomed(list, g) : \A j \in Ids \ {d} : nodes'[j].st = nodes[j].st
    <3>1. ~Lives(i)
      BY <1>1 DEF Lives
    <3> QED BY <1>1, <3>1, NodesMove
  <2>2. i \in Doomed(list, g)
    BY <1>1, <2>1
  <2> QED BY <2>2 DEF Doomed, Members
<1>2. DedupInv /\ [Next]_vars
        => [\A i \in Ids : nodes[i].st # "removed" /\ nodes'[i].st = "removed"
              => i \in DOMAIN list /\ ~list[i].online /\ i # Keeper(list, Device(i))]_vars
  BY <1>1
<1> QED
  BY DedupInvariant, <1>2, PTL DEF Spec, DeletesWereOffline
=============================================================================
