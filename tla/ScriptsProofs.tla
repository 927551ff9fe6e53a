---------------------------- MODULE ScriptsProofs ----------------------------
(***************************************************************************)
(* What the runs of the scripts show on small instances, for any keys,      *)
(* accounts, nodes, systems and versions.  Each script has an invariant of  *)
(* its own, kept by its own steps; that the others do not touch it is said  *)
(* once, by OwnSteps.                                                      *)
(***************************************************************************)
EXTENDS DeployProofs, FiniteSetTheorems, FunctionTheorems, SequenceTheorems

(* The script that was chosen at the start is the one that moves.          *)
LEMMA OwnSteps ==
  ASSUME [Next]_vars
  PROVE  /\ script' = script
         /\ script = "quota" => [Quota!Next]_(Quota!vars)
         /\ script = "keysync" => [Sync!Next]_(Sync!vars)
         /\ script = "preflight" => [Verify!Next]_(Verify!vars)
         /\ script = "beszel" => [Hub!Next]_(Hub!vars)
         /\ script = "gateway" => [Boot!Next]_(Boot!vars)
         /\ script = "portainer" => [Edge!Next]_(Edge!vars)
<1>1. CASE Next
  BY <1>1 DEF Next
<1>2. CASE UNCHANGED vars
  <2>1. UNCHANGED <<script, pc, at, left, edits, wrong, disk, faults>>
        /\ UNCHANGED <<quota, keysync, preflight, beszel, gateway, portainer>>
    BY <1>2 DEF vars
  <2>2. UNCHANGED Quota!vars
    BY <2>1 DEF quota, Quota!vars, Quota!proxy
  <2>3. UNCHANGED Sync!vars
    BY <2>1 DEF keysync, Sync!vars, Sync!proxy, Sync!script
  <2>4. UNCHANGED Verify!vars
    BY <2>1 DEF preflight, Verify!vars, Verify!world, Verify!lists
  <2>5. UNCHANGED Hub!vars
    BY <2>1 DEF beszel, Hub!vars
  <2>6. UNCHANGED Boot!vars
    BY <2>1 DEF gateway, Boot!vars, Boot!world, Boot!boot
  <2>7. UNCHANGED Edge!vars
    BY <2>1 DEF portainer, Edge!vars, Edge!host, Edge!count, Edge!history
  <2> QED BY <2>1, <2>2, <2>3, <2>4, <2>5, <2>6, <2>7
<1> QED BY <1>1, <1>2

----------------------------------------------------------------------------
(* pgstore-keys.py.                                                         *)
Points == {"ready", "read", "patch", "reread", "check", "rollback", "green", "red"}
Syncing == {"ready", "read", "patch", "reread"}

(* One refusal ends a sync, and there are two syncs at most.                *)
Bounded ==
  /\ wrong \in Nat /\ wrong <= 2 /\ pc \in Points /\ second \in BOOLEAN
  /\ ~second => wrong <= 1
  /\ pc \in Syncing => wrong <= 1
  /\ ~second /\ pc \in Syncing => wrong = 0
  /\ pc = "rollback" => ~second

(* What the proxy accepts is there, or a user took it out; so is what it   *)
(* has let in during the check.                                            *)
LetIn ==
  /\ accepted \subseteq keys \cup gone
  /\ pc = "check" => (Wanted \ left) \ gone \subseteq accepted
  /\ pc = "green" => Wanted \ gone \subseteq accepted

(* Only a store that was turned on is rolled back.                          *)
StoreOn == pc = "rollback" => dsn

SyncInv == Sync!TypeOK /\ Bounded /\ LetIn /\ StoreOn

LEMMA SyncInit == Sync!Init => SyncInv
<1> SUFFICES ASSUME Sync!Init PROVE SyncInv
  OBVIOUS
<1>1. /\ keys \subseteq Keys /\ accepted = keys /\ mgmt \in BOOLEAN /\ dsn \in BOOLEAN
      /\ pc = "ready" /\ present = {} /\ left = {} /\ rejected = FALSE /\ second = FALSE
      /\ edits = 0 /\ gone = {} /\ wrong = 0
  BY DEF Sync!Init
<1>2. MaxEdits \in Nat
  BY ScriptsAssumption DEF ScriptsAssumption, Sync!KeySyncAssumption
<1>3. edits \in 0..MaxEdits /\ wrong \in Nat /\ wrong <= 2 /\ wrong <= 1
  BY <1>1, <1>2
<1>4. Sync!TypeOK
  BY <1>1, <1>3 DEF Sync!TypeOK
<1>5. Bounded
  BY <1>1, <1>3 DEF Bounded, Points
<1>6. LetIn /\ StoreOn
  BY <1>1 DEF LetIn, StoreOn
<1> QED BY <1>4, <1>5, <1>6 DEF SyncInv

LEMMA SyncBounded == Bounded /\ [Sync!Next]_(Sync!vars) => Bounded'
<1> SUFFICES ASSUME Bounded, [Sync!Next]_(Sync!vars) PROVE Bounded'
  OBVIOUS
<1> USE DEF Bounded, Points, Syncing, Sync!Goto
<1>1. CASE Sync!Ready
  BY <1>1 DEF Sync!Ready, Sync!SyncFailed, Sync!Failed, Sync!proxy
<1>2. CASE Sync!Read
  BY <1>2 DEF Sync!Read, Sync!Refused, Sync!Answered, Sync!SyncFailed, Sync!Failed, Sync!proxy
<1>3. CASE Sync!Patch
  BY <1>3 DEF Sync!Patch, Sync!Refused, Sync!Answered, Sync!SyncFailed, Sync!Failed
<1>4. CASE Sync!Patched
  BY <1>4 DEF Sync!Patched, Sync!proxy
<1>5. CASE Sync!Reread
  BY <1>5 DEF Sync!Reread, Sync!Refused, Sync!Answered, Sync!SyncFailed, Sync!Failed, Sync!proxy
<1>6. CASE Sync!Call
  BY <1>6 DEF Sync!Call, Sync!proxy
<1>7. CASE Sync!Checked
  BY <1>7 DEF Sync!Checked, Sync!proxy
<1>8. CASE Sync!TimeUp
  BY <1>8 DEF Sync!TimeUp, Sync!CheckFailed, Sync!Failed, Sync!proxy
<1>9. CASE Sync!Rollback
  BY <1>9 DEF Sync!Rollback
<1>10. CASE Sync!Reload \/ Sync!Web
  BY <1>10 DEF Sync!Reload, Sync!Web, Sync!script
<1>11. CASE UNCHANGED Sync!vars
  BY <1>11 DEF Sync!vars, Sync!script
<1> QED
  BY <1>1, <1>2, <1>3, <1>4, <1>5, <1>6, <1>7, <1>8, <1>9, <1>10, <1>11 DEF Sync!Next, Sync!Verify

(* Typing and LetIn, step by step.                                         *)
LEMMA SyncStep == SyncInv /\ [Sync!Next]_(Sync!vars) => SyncInv'
<1> SUFFICES ASSUME SyncInv, [Sync!Next]_(Sync!vars) PROVE SyncInv'
  OBVIOUS
<1>1. Bounded'
  BY SyncBounded DEF SyncInv
<1>2. wrong' \in Nat /\ pc' \in Points /\ second' \in BOOLEAN
  BY <1>1 DEF Bounded
<1>3. MaxEdits \in Nat /\ Wanted \subseteq Keys /\ FileKeys \subseteq Keys
  BY ScriptsAssumption DEF ScriptsAssumption, Sync!KeySyncAssumption
<1> SUFFICES Sync!TypeOK' /\ LetIn' /\ StoreOn'
  BY <1>1 DEF SyncInv
<1> USE <1>2, <1>3 DEF SyncInv, Sync!TypeOK, LetIn, StoreOn, Points, Sync!Goto
<1>4. CASE Sync!Ready
  BY <1>4 DEF Sync!Ready, Sync!SyncFailed, Sync!Failed, Sync!proxy
<1>5. CASE Sync!Read
  BY <1>5 DEF Sync!Read, Sync!Refused, Sync!Answered, Sync!SyncFailed, Sync!Failed, Sync!proxy
<1>6. CASE Sync!Patch
  BY <1>6 DEF Sync!Patch, Sync!Refused, Sync!Answered, Sync!SyncFailed, Sync!Failed
<1>7. CASE Sync!Patched
  BY <1>7 DEF Sync!Patched, Sync!proxy
<1>8. CASE Sync!Reread
  BY <1>8 DEF Sync!Reread, Sync!Refused, Sync!Answered, Sync!SyncFailed, Sync!Failed, Sync!proxy
<1>9. CASE Sync!Call
  BY <1>9 DEF Sync!Call, Sync!proxy
<1>10. CASE Sync!Checked
  BY <1>10 DEF Sync!Checked, Sync!proxy
<1>11. CASE Sync!TimeUp
  BY <1>11 DEF Sync!TimeUp, Sync!CheckFailed, Sync!Failed, Sync!proxy
<1>12. CASE Sync!Rollback
  BY <1>12 DEF Sync!Rollback
<1>13. CASE Sync!Reload
  BY <1>13 DEF Sync!Reload, Sync!script
<1>14. CASE Sync!Web
  <2>1. edits' \in 0..MaxEdits /\ UNCHANGED <<accepted, pc, left, present, rejected, second, dsn>>
    BY <1>14 DEF Sync!Web, Sync!script
  <2>2. keys' \cup gone' \in SUBSET Keys /\ keys \cup gone \subseteq keys' \cup gone'
        /\ gone \subseteq gone' /\ mgmt' \in BOOLEAN
    BY <1>14 DEF Sync!Web
  <2> QED BY <2>1, <2>2
<1>15. CASE UNCHANGED Sync!vars
  BY <1>15 DEF Sync!vars, Sync!script, Sync!proxy
<1> QED
  BY <1>4, <1>5, <1>6, <1>7, <1>8, <1>9, <1>10, <1>11, <1>12, <1>13, <1>14, <1>15
  DEF Sync!Next, Sync!Verify

LEMMA SyncHolds == Spec => [](script = "keysync" => SyncInv)
<1>1. Init => (script = "keysync" => SyncInv)
  BY SyncInit DEF Init
<1>2. (script = "keysync" => SyncInv) /\ [Next]_vars => (script = "keysync" => SyncInv)'
  BY OwnSteps, SyncStep
<1> QED BY <1>1, <1>2, PTL DEF Spec

LEMMA ScriptAdds == Sync!Verify => keys \subseteq keys' \/ pc = "rollback"
<1>1. CASE Sync!Patch
  BY <1>1 DEF Sync!Patch
<1>2. CASE Sync!Rollback
  BY <1>2 DEF Sync!Rollback
<1>3. CASE Sync!Ready \/ Sync!Read \/ Sync!Patched \/ Sync!Reread \/ Sync!Call \/ Sync!Checked \/ Sync!TimeUp
  BY <1>3 DEF Sync!Ready, Sync!Read, Sync!Patched, Sync!Reread, Sync!Call, Sync!Checked, Sync!TimeUp, Sync!proxy
<1> QED BY <1>1, <1>2, <1>3 DEF Sync!Verify

(* No step of sync or check takes an API key out of the configuration, not *)
(* even one a user added after the list was read (pgstore-keys.py:20-21).   *)
THEOREM KeysStay == Spec => OnlyAdds
<1>1. [Next]_vars => [script = "keysync" /\ Sync!Verify => keys \subseteq keys' \/ pc = "rollback"]_vars
  BY ScriptAdds
<1> QED BY <1>1, PTL DEF Spec, OnlyAdds

----------------------------------------------------------------------------
(* verify-preflight.py.                                                     *)
(* Until the nodes are listed nothing has been sorted. *)
NotBegun ==
  pc \in {"dummy", "list"} => allowed = {} /\ denied = {} /\ errored = {}

(* Step 0.1 is over, and the endpoint said no to a key nobody has. *)
DummyDenied == pc \in {"list", "ask", "green"} => mode \in {"works", "strange"}

(* Each listed node is waiting or sorted, and the accepted ones are good.  *)
Sorted ==
  pc \in {"ask", "green"} =>
    /\ fleet \ moved \subseteq left \cup allowed \cup denied \cup errored
    /\ allowed \ moved \subseteq good \ keyless
    /\ allowed # {} => mode = "works"

Finished == pc = "green" => left = {} /\ allowed # {} /\ denied = {} /\ errored = {}

SafeInv == NotBegun /\ DummyDenied /\ Sorted /\ Finished

(* An answer that counts as a yes comes from an endpoint that works, once   *)
(* step 0.1 is over, and is about a key it knows (verify-preflight.py:62). *)
LEMMA YesIsMeant ==
  ASSUME NEW known \in BOOLEAN, mode \in {"works", "strange"}, NEW a \in Verify!Answers(known),
         Verify!Allow(a) = "TRUE"
  PROVE  mode = "works" /\ known
<1>1. CASE mode = "works" BY <1>1 DEF Verify!Answers, Verify!Allow
<1>2. CASE mode = "strange" BY <1>2 DEF Verify!Answers, Verify!Allow
<1> QED BY <1>1, <1>2

(* Step 0.1 lets no endpoint pass that says yes to everybody, does not     *)
(* answer, or answers no JSON.                                             *)
LEMMA NoIsMeant ==
  ASSUME mode \in Verify!Modes, NEW a \in Verify!Answers(FALSE), Verify!Allow(a) = "FALSE"
  PROVE  mode \in {"works", "strange"}
<1>1. CASE mode = "open" BY <1>1 DEF Verify!Answers, Verify!Allow
<1>2. CASE mode = "junk" BY <1>2 DEF Verify!Answers, Verify!Allow
<1>3. CASE mode = "absent" BY <1>3 DEF Verify!Answers, Verify!Allow
<1> QED BY <1>1, <1>2, <1>3 DEF Verify!Modes

LEMMA SafeInit == Verify!Init => SafeInv
BY DEF Verify!Init, SafeInv, NotBegun, DummyDenied, Sorted, Finished

LEMMA SafeStep == mode \in Verify!Modes /\ SafeInv /\ [Verify!Next]_(Verify!vars) => SafeInv'
<1> SUFFICES ASSUME mode \in Verify!Modes, SafeInv, [Verify!Next]_(Verify!vars) PROVE SafeInv'
  OBVIOUS
<1> USE DEF SafeInv, NotBegun, DummyDenied, Sorted, Finished
<1>1. CASE Verify!Dummy
  <2>1. PICK a \in Verify!Answers(FALSE) : pc' = IF Verify!Allow(a) = "FALSE" THEN "list" ELSE "red"
    BY <1>1 DEF Verify!Dummy
  <2>2. CASE Verify!Allow(a) = "FALSE"
    <3>1. mode \in {"works", "strange"} BY <2>2, NoIsMeant
    <3> QED BY <1>1, <2>1, <2>2, <3>1 DEF Verify!Dummy, Verify!world, Verify!lists
  <2>3. CASE Verify!Allow(a) # "FALSE"
    BY <1>1, <2>1, <2>3 DEF Verify!Dummy, Verify!world, Verify!lists
  <2> QED BY <2>2, <2>3
<1>2. CASE Verify!List
  BY <1>2 DEF Verify!List, Verify!world, Verify!lists
<1>3. CASE Verify!Ask
  <2>1. PICK n \in left :
          /\ left' = left \ {n}
          /\ IF n \in keyless THEN Verify!Sort(n, "None")
             ELSE \E a \in Verify!Answers(n \in (fleet \cap good) \ moved) : Verify!Sort(n, Verify!Allow(a))
    BY <1>3 DEF Verify!Ask
  <2>2. CASE n \in keyless
    BY <1>3, <2>1, <2>2 DEF Verify!Ask, Verify!Sort, Verify!world
  <2>3. CASE n \notin keyless
    <3>1. PICK a \in Verify!Answers(n \in (fleet \cap good) \ moved) : Verify!Sort(n, Verify!Allow(a))
      BY <2>1, <2>3
    <3>2. Verify!Allow(a) \in {"TRUE", "FALSE", "None"}
      BY DEF Verify!Allow
    <3>3. CASE Verify!Allow(a) = "TRUE"
      <4>1. mode \in {"works", "strange"} BY <1>3 DEF Verify!Ask
      <4>2. mode = "works" /\ n \in (fleet \cap good) \ moved
        <5>1. (n \in (fleet \cap good) \ moved) \in BOOLEAN OBVIOUS
        <5>2. a \in Verify!Answers(n \in (fleet \cap good) \ moved) BY <3>1
        <5> QED BY <5>1, <5>2, <3>3, <4>1, YesIsMeant
      <4> QED BY <1>3, <2>1, <2>3, <3>1, <3>3, <4>2 DEF Verify!Ask, Verify!Sort, Verify!world
    <3>4. CASE Verify!Allow(a) = "FALSE"
      BY <1>3, <2>1, <3>1, <3>4 DEF Verify!Ask, Verify!Sort, Verify!world
    <3>5. CASE Verify!Allow(a) = "None"
      BY <1>3, <2>1, <3>1, <3>5 DEF Verify!Ask, Verify!Sort, Verify!world
    <3> QED BY <3>2, <3>3, <3>4, <3>5
  <2> QED BY <2>2, <2>3
<1>4. CASE Verify!Conclude
  BY <1>4 DEF Verify!Conclude, Verify!world, Verify!lists
<1>5. CASE Verify!Change
  <2>1. PICK n \in Nodes :
          /\ fleet' \in {fleet \cup {n}, fleet \ {n}} /\ good' \in {good \cup {n}, good \ {n}}
          /\ moved' = moved \cup {n}
    BY <1>5 DEF Verify!Change
  <2>2. fleet' \ moved' \subseteq fleet \ moved /\ good \ {n} \subseteq good'
    BY <2>1
  <2> QED BY <1>5, <2>1, <2>2 DEF Verify!Change, Verify!lists
<1>6. CASE UNCHANGED Verify!vars
  BY <1>6 DEF Verify!vars, Verify!world, Verify!lists
<1> QED BY <1>1, <1>2, <1>3, <1>4, <1>5, <1>6 DEF Verify!Next, Verify!Main

(* A node is in one of the lists at most.                                   *)
OneListEach ==
  /\ left \cap allowed = {} /\ left \cap denied = {} /\ left \cap errored = {}
  /\ allowed \cap denied = {} /\ allowed \cap errored = {} /\ denied \cap errored = {}

NodeSets ==
  /\ mode \in Verify!Modes /\ pc \in {"dummy", "list", "ask", "green", "red"}
  /\ fleet \subseteq Nodes /\ good \subseteq Nodes /\ keyless \subseteq Nodes /\ moved \subseteq Nodes
  /\ left \subseteq Nodes /\ allowed \subseteq Nodes /\ denied \subseteq Nodes /\ errored \subseteq Nodes

VerifyInv == NodeSets /\ OneListEach /\ SafeInv

(* An instance has its own names for the operators on finite sets.         *)
LEMMA SameSizes ==
  /\ \A S : Verify!IsFiniteSet(S) <=> IsFiniteSet(S)
  /\ \A S : Verify!Cardinality(S) = Cardinality(S)
<1>1. \A S : Verify!IsFiniteSet(S) <=> IsFiniteSet(S)
  BY DEF Verify!IsFiniteSet, IsFiniteSet
<1>2. \A S : Verify!Cardinality(S) = Cardinality(S)
  BY DEF Verify!Cardinality, Cardinality
<1> QED BY <1>1, <1>2

(* What the type invariant says of the lists, by their sizes.               *)
LEMMA ApartBySize ==
  ASSUME NodeSets, OneListEach
  PROVE  Cardinality(left \cup allowed \cup denied \cup errored)
           = Cardinality(left) + Cardinality(allowed) + Cardinality(denied) + Cardinality(errored)
<1>1. IsFiniteSet(left) /\ IsFiniteSet(allowed) /\ IsFiniteSet(denied) /\ IsFiniteSet(errored)
  <2>1. IsFiniteSet(Nodes)
    BY SameSizes, ScriptsAssumption DEF ScriptsAssumption, Verify!PreflightAssumption
  <2>2. \A S \in SUBSET Nodes : IsFiniteSet(S)
    BY <2>1, FS_Subset
  <2> QED BY <2>2 DEF NodeSets
<1>2. \A S, U : IsFiniteSet(S) /\ IsFiniteSet(U) /\ S \cap U = {} =>
        IsFiniteSet(S \cup U) /\ Cardinality(S \cup U) = Cardinality(S) + Cardinality(U)
  <2> TAKE S, U
  <2> HAVE IsFiniteSet(S) /\ IsFiniteSet(U) /\ S \cap U = {}
  <2>1. Cardinality(S) \in Nat /\ Cardinality(U) \in Nat
    BY FS_CardinalityType
  <2>2. Cardinality(S \cap U) = 0
    BY FS_EmptySet
  <2>3. IsFiniteSet(S \cup U) /\ Cardinality(S \cup U) = Cardinality(S) + Cardinality(U) - Cardinality(S \cap U)
    BY FS_Union
  <2> QED BY <2>1, <2>2, <2>3
<1>3. left \cap allowed = {} /\ (left \cup allowed) \cap denied = {}
      /\ (left \cup allowed \cup denied) \cap errored = {}
  BY DEF OneListEach
<1>4. IsFiniteSet(left \cup allowed)
      /\ Cardinality(left \cup allowed) = Cardinality(left) + Cardinality(allowed)
  BY <1>1, <1>2, <1>3
<1>5. IsFiniteSet(left \cup allowed \cup denied)
      /\ Cardinality(left \cup allowed \cup denied) = Cardinality(left \cup allowed) + Cardinality(denied)
  BY <1>1, <1>2, <1>3, <1>4
<1>6. Cardinality(left \cup allowed \cup denied \cup errored)
        = Cardinality(left \cup allowed \cup denied) + Cardinality(errored)
  BY <1>1, <1>2, <1>3, <1>5
<1> QED BY <1>4, <1>5, <1>6

LEMMA VerifyInit == Verify!Init => VerifyInv
<1> SUFFICES ASSUME Verify!Init PROVE VerifyInv
  OBVIOUS
<1>1. NodeSets /\ OneListEach
  BY DEF Verify!Init, NodeSets, OneListEach
<1> QED BY <1>1, SafeInit DEF VerifyInv

LEMMA VerifyStep == VerifyInv /\ [Verify!Next]_(Verify!vars) => VerifyInv'
<1> SUFFICES ASSUME VerifyInv, [Verify!Next]_(Verify!vars) PROVE VerifyInv'
  OBVIOUS
<1>1. SafeInv'
  BY SafeStep DEF VerifyInv, NodeSets
<1> USE DEF VerifyInv, NodeSets, OneListEach
<1>2. CASE Verify!Dummy \/ Verify!Conclude \/ UNCHANGED Verify!vars
  <2>1. UNCHANGED <<mode, fleet, good, keyless, left, allowed, denied, errored, moved>>
    BY <1>2 DEF Verify!Dummy, Verify!Conclude, Verify!vars, Verify!world, Verify!lists
  <2>2. pc' \in {"dummy", "list", "ask", "green", "red"}
    BY <1>2 DEF Verify!Dummy, Verify!Conclude, Verify!vars
  <2> QED BY <1>1, <2>1, <2>2
<1>3. CASE Verify!List
  BY <1>1, <1>3 DEF Verify!List, Verify!world, Verify!lists, SafeInv, NotBegun
<1>4. CASE Verify!Ask
  <2>1. PICK n \in left, v \in {"TRUE", "FALSE", "None"} : left' = left \ {n} /\ Verify!Sort(n, v)
    BY <1>4 DEF Verify!Ask, Verify!Allow
  <2>2. UNCHANGED <<mode, fleet, good, keyless, pc, moved>>
    BY <1>4 DEF Verify!Ask, Verify!world
  <2> QED BY <1>1, <2>1, <2>2 DEF Verify!Sort
<1>5. CASE Verify!Change
  BY <1>1, <1>5 DEF Verify!Change, Verify!lists
<1> QED BY <1>2, <1>3, <1>4, <1>5 DEF Verify!Next, Verify!Main

LEMMA VerifyHolds == Spec => [](script = "preflight" => VerifyInv)
<1>1. Init => (script = "preflight" => VerifyInv)
  BY VerifyInit DEF Init
<1>2. (script = "preflight" => VerifyInv) /\ [Next]_vars => (script = "preflight" => VerifyInv)'
  BY OwnSteps, VerifyStep
<1> QED BY <1>1, <1>2, PTL DEF Spec

----------------------------------------------------------------------------
(* beszel/bootstrap.py.                                                     *)

(* A run makes no system twice: it looks at each name once.                 *)
OncePerRun ==
  /\ \A n \in Names : systems[n] <= runs
  /\ pc \notin {"idle", "done"} => \A n \in left : systems[n] < runs

(* What is known of the hub as a run goes on.                               *)
Complete ==
  /\ pc \in {"auth", "find", "create", "list"} => have = {} /\ left = Names
  /\ pc = "add" => \A n \in have : systems[n] > 0
  /\ pc = "add" => \A n \in Names \ left : systems[n] > 0 \/ n \in refused
  /\ pc = "done" => \A n \in Names : systems[n] > 0 \/ n \in refused

HubInv == Hub!TypeOK /\ OncePerRun /\ Complete

LEMMA HubInit == Hub!Init => HubInv
<1> SUFFICES ASSUME Hub!Init PROVE HubInv
  OBVIOUS
<1>1. MaxRuns \in Nat
  BY ScriptsAssumption DEF ScriptsAssumption, Hub!BeszelAssumption
<1> USE <1>1 DEF Hub!Init
<1>2. Hub!TypeOK
  <2>1. systems \in [Names -> 0..MaxRuns] /\ runs \in 0..MaxRuns
    OBVIOUS
  <2>2. admin = FALSE /\ refused = {} /\ pc = "idle" /\ have = {} /\ left = {}
    OBVIOUS
  <2> HIDE DEF Hub!Init
  <2> QED BY <2>1, <2>2 DEF Hub!TypeOK
<1>3. OncePerRun
  BY DEF OncePerRun
<1>4. Complete
  BY DEF Complete
<1> QED BY <1>2, <1>3, <1>4 DEF HubInv

LEMMA HubStep == HubInv /\ [Hub!Next]_(Hub!vars) => HubInv'
<1> SUFFICES ASSUME HubInv, [Hub!Next]_(Hub!vars) PROVE HubInv'
  OBVIOUS
<1>1. MaxRuns \in Nat
  BY ScriptsAssumption DEF ScriptsAssumption, Hub!BeszelAssumption
<1> USE <1>1 DEF HubInv, Hub!TypeOK, OncePerRun, Complete, Hub!Goto
<1>2. CASE Hub!Start
  BY <1>2 DEF Hub!Start
<1>3. CASE Hub!Auth
  BY <1>3 DEF Hub!Auth
<1>4. CASE Hub!FindUser
  BY <1>4 DEF Hub!FindUser
<1>5. CASE Hub!CreateUser
  BY <1>5 DEF Hub!CreateUser
<1>6. CASE Hub!ListSystems
  <2>1. pc = "list" /\ UNCHANGED <<admin, systems, left, runs>>
    BY <1>6 DEF Hub!ListSystems
  <2>2. CASE have' = {n \in Names : systems[n] > 0} /\ pc' = "add" /\ UNCHANGED refused
    <3>1. have' \subseteq Names
      BY <2>2
    <3>2. \A n \in have' : systems[n] > 0
      BY <2>2
    <3>3. \A n \in left : systems[n] < runs
      BY <2>1
    <3>4. pc' = "add" /\ UNCHANGED <<admin, systems, left, runs, refused>>
      BY <2>1, <2>2
    <3> QED BY <2>1, <3>1, <3>2, <3>3, <3>4
  <2>3. CASE UNCHANGED have /\ pc' \in {"add", "idle"} /\ UNCHANGED refused
    BY <2>1, <2>3
  <2> QED BY <1>6, <2>2, <2>3 DEF Hub!ListSystems
<1>7. CASE Hub!AddSystem
  <2>1. PICK n \in left :
          /\ left' = left \ {n}
          /\ \/ n \in have /\ Hub!Goto("add") /\ UNCHANGED systems
             \/ /\ n \notin have
                /\ \/ systems' = [systems EXCEPT ![n] = @ + 1] /\ (Hub!Goto("add") \/ Hub!Goto("idle"))
                   \/ UNCHANGED systems /\ Hub!Goto("idle")
                   \/ UNCHANGED systems /\ pc' = "add" /\ refused' = refused \cup {n}
    BY <1>7 DEF Hub!AddSystem
  <2>2. pc = "add" /\ UNCHANGED <<admin, have, runs>> /\ n \in Names /\ systems[n] \in Nat
    BY <1>7, <2>1 DEF Hub!AddSystem
  <2>3. CASE n \in have /\ Hub!Goto("add") /\ UNCHANGED systems
    BY <2>1, <2>2, <2>3
  <2>4. CASE systems' = [systems EXCEPT ![n] = @ + 1] /\ (Hub!Goto("add") \/ Hub!Goto("idle"))
    <3>1. systems[n] + 1 \in 0..MaxRuns /\ systems[n] + 1 <= runs
      BY <2>1, <2>2
    <3>2. /\ systems' \in [Names -> 0..MaxRuns] /\ systems'[n] = systems[n] + 1
          /\ \A k \in Names \ {n} : systems'[k] = systems[k]
      BY <2>2, <2>4, <3>1
    <3>3. (\A k \in Names : systems'[k] <= runs' /\ (systems[k] > 0 => systems'[k] > 0))
          /\ (\A k \in left' : systems'[k] < runs')
      BY <2>1, <2>2, <3>1, <3>2
    <3>4. UNCHANGED refused /\ pc' \in {"add", "idle"}
      BY <2>4
    <3>5. pc' = "add" => \A k \in Names \ left' : systems'[k] > 0 \/ k \in refused'
      BY <2>1, <2>2, <3>1, <3>2, <3>4
    <3> QED BY <2>1, <2>2, <3>2, <3>3, <3>4, <3>5
  <2>5. CASE UNCHANGED systems /\ Hub!Goto("idle")
    BY <2>1, <2>2, <2>5
  <2>6. CASE UNCHANGED systems /\ pc' = "add" /\ refused' = refused \cup {n}
    BY <2>1, <2>2, <2>6
  <2> QED BY <2>1, <2>3, <2>4, <2>5, <2>6
<1>8. CASE Hub!Done
  BY <1>8 DEF Hub!Done
<1>9. CASE UNCHANGED Hub!vars
  BY <1>9 DEF Hub!vars
<1> QED BY <1>2, <1>3, <1>4, <1>5, <1>6, <1>7, <1>8, <1>9 DEF Hub!Next

LEMMA HubHolds == Spec => [](script = "beszel" => HubInv)
<1>1. Init => (script = "beszel" => HubInv)
  BY HubInit DEF Init
<1>2. (script = "beszel" => HubInv) /\ [Next]_vars => (script = "beszel" => HubInv)'
  BY OwnSteps, HubStep
<1> QED BY <1>1, <1>2, PTL DEF Spec

----------------------------------------------------------------------------
(* vpn-gw/entrypoint.sh.                                                    *)

(* From the answer on, what openvpn will run with is of the version that is *)
(* written down, or mounted.                                                *)
FromOneAnswer == pc \in {"proxy", "vpn", "up"} => {auth, ovpn} \subseteq {0, disk.version}

BootInv == Boot!TypeOK /\ FromOneAnswer

LEMMA BootInit == Boot!Init => BootInv
<1> SUFFICES ASSUME Boot!Init PROVE BootInv
  OBVIOUS
<1>1. MaxVer \in Nat /\ MaxFaults \in Nat
  BY ScriptsAssumption DEF ScriptsAssumption, Boot!GatewayAssumption
<1>2. Boot!TypeOK
  BY <1>1 DEF Boot!Init, Boot!TypeOK, Boot!NoFiles
<1>3. FromOneAnswer
  BY DEF Boot!Init, FromOneAnswer
<1> QED BY <1>2, <1>3 DEF BootInv

LEMMA BootStep == BootInv /\ [Boot!Next]_(Boot!vars) => BootInv'
<1> SUFFICES ASSUME BootInv, [Boot!Next]_(Boot!vars) PROVE BootInv'
  OBVIOUS
<1>1. MaxVer \in Nat /\ MaxFaults \in Nat
  BY ScriptsAssumption DEF ScriptsAssumption, Boot!GatewayAssumption
<1> USE <1>1 DEF BootInv, Boot!TypeOK, FromOneAnswer, Boot!world
<1>2. CASE Boot!Restart
  BY <1>2 DEF Boot!Restart
<1>3. CASE Boot!Fetch
  <2>1. CASE Boot!Static
    BY <1>3, <2>1 DEF Boot!Fetch, Boot!Static, Boot!Ends, Boot!Given
  <2>2. CASE Boot!Apply
    <3>1. ver \in 0..MaxVer /\ auth' \in {0, ver} /\ ovpn' \in {0, ver} /\ fetched' = ver
      BY <2>2 DEF Boot!Apply
    <3>2. disk' \in [auth : 0..MaxVer, ovpn : 0..MaxVer, version : 0..MaxVer] /\ disk'.version = ver
      BY <2>2 DEF Boot!Apply
    <3>3. UNCHANGED <<cms, ver, dashboard, faults>> /\ pc = "fetch"
      BY <1>3 DEF Boot!Fetch
    <3>4. (pc' = "proxy" /\ UNCHANGED reporter) \/ (pc' = "down" /\ reporter' = "none")
      BY <1>3 DEF Boot!Fetch, Boot!Ends
    <3> QED BY <3>1, <3>2, <3>3, <3>4
  <2> QED BY <1>3, <2>1, <2>2 DEF Boot!Fetch
<1>4. CASE Boot!Proxy
  BY <1>4 DEF Boot!Proxy
<1>5. CASE Boot!Vpn
  BY <1>5 DEF Boot!Vpn, Boot!Ends
<1>6. CASE Boot!Report
  BY <1>6 DEF Boot!Report, Boot!Kill
<1>7. CASE Boot!ProxyDies
  BY <1>7 DEF Boot!ProxyDies, Boot!Ends
<1>8. CASE Boot!Recreate
  BY <1>8 DEF Boot!Recreate, Boot!NoFiles
<1>9. CASE Boot!Edit
  BY <1>9 DEF Boot!Edit, Boot!boot
<1>10. CASE Boot!Turn
  BY <1>10 DEF Boot!Turn, Boot!boot
<1>11. CASE UNCHANGED Boot!vars
  BY <1>11 DEF Boot!vars, Boot!boot
<1> QED
  BY <1>2, <1>3, <1>4, <1>5, <1>6, <1>7, <1>8, <1>9, <1>10, <1>11 DEF Boot!Next, Boot!Boot

LEMMA BootHolds == Spec => [](script = "gateway" => BootInv)
<1>1. Init => (script = "gateway" => BootInv)
  BY BootInit DEF Init
<1>2. (script = "gateway" => BootInv) /\ [Next]_vars => (script = "gateway" => BootInv)'
  BY OwnSteps, BootStep
<1> QED BY <1>1, <1>2, PTL DEF Spec

(* However often the container restarts and the admin edits, and whatever   *)
(* the dashboard answers, a gateway that is up runs with the credentials    *)
(* and the client.ovpn of one answer, or the mounted ones                   *)
(* (entrypoint.sh:50-74).                                                  *)
THEOREM GatewayHasOneAnswer == Spec => []OneAnswer
<1>1. (script = "gateway" => BootInv) => OneAnswer
  BY DEF BootInv, FromOneAnswer, OneAnswer, Boot!OneAnswer
<1> QED BY <1>1, BootHolds, PTL

----------------------------------------------------------------------------
(* quota-failover.py.                                                       *)
(* The calls, one after the other.                                          *)
LEMMA CallsAre ==
  /\ Len(Quota!Calls) = 10
  /\ Quota!Calls[1] = [call |-> "put", key |-> "switch-project"]
  /\ Quota!Calls[2] = [call |-> "put", key |-> "switch-preview-model"]
  /\ Quota!Calls[3] = [call |-> "read", key |-> "max-retry-interval"]
  /\ Quota!Calls[4] = [call |-> "put", key |-> "max-retry-interval"]
  /\ Quota!Calls[5] = [call |-> "verify", key |-> "max-retry-interval"]
  /\ Quota!Calls[6] = [call |-> "read", key |-> "max-retry-credentials"]
  /\ Quota!Calls[7] = [call |-> "put", key |-> "max-retry-credentials"]
  /\ Quota!Calls[8] = [call |-> "verify", key |-> "max-retry-credentials"]
  /\ Quota!Calls[9].call = "get" /\ Quota!Calls[10].call = "replace"
BY DEF Quota!Calls, Quota!Switches, Quota!Retry, Quota!AffinityCalls

(* A finite set, as a sequence, is all there.                               *)
LEMMA AsSequence ==
  ASSUME NEW S, IsFiniteSet(S)
  PROVE  Quota!SetToSeq(S) \in Seq(S) /\ \A x \in S : \E k \in 1..Len(Quota!SetToSeq(S)) : Quota!SetToSeq(S)[k] = x
<1> DEFINE n == Cardinality(S)
<1>1. n \in Nat /\ ExistsBijection(1..n, S)
  BY FS_CardinalityType
<1>2. PICK b \in [1..n -> S] : b \in Injection(1..n, S)
  BY <1>1 DEF ExistsBijection, Bijection, Injection
<1>3. Quota!Cardinality(S) = n
  BY DEF Quota!Cardinality, Cardinality
<1>4. \E f \in [1..n -> S] : Quota!IsInjective(f)
  BY <1>2 DEF Quota!IsInjective, Injection, IsInjective
<1> DEFINE q == Quota!SetToSeq(S)
<1>5. q \in [1..n -> S] /\ Quota!IsInjective(q)
  BY <1>3, <1>4 DEF Quota!SetToSeq
<1>6. q \in Injection(1..n, S)
  BY <1>5 DEF Quota!IsInjective, Injection, IsInjective
<1>7. q \in Surjection(1..n, S)
  <2>1. IsFiniteSet(1..n) /\ Cardinality(1..n) = n
    BY <1>1, FS_Interval
  <2>2. Cardinality(1..n) = Cardinality(S) <=> q \in Surjection(1..n, S)
    BY <1>6, FS_Injection
  <2> QED BY <2>1, <2>2
<1>8. q \in Seq(S) /\ Len(q) = n
  BY <1>1, <1>5
<1> QED BY <1>7, <1>8 DEF Surjection

Record == [name : Files, disabled : BOOLEAN]

QuotaTypes ==
  /\ Quota!TypeOK
  /\ list \in Seq(Record) /\ at \in 1..10 /\ (pc # "settings" => at = 1)
  /\ \A k \in 1..Len(list) : list[k].name \in Claude /\ Email[list[k].name] \in Targets

(* A refusal ends a run, except of the four readings, and no call after a   *)
(* put that was answered has been refused before.                          *)
WrongKeys ==
  /\ wrong \in 0..3
  /\ keyok /\ pc = "settings" => wrong = 0
  /\ pc \in {"idle", "list", "patch", "enable"} => wrong = 0
  /\ pc = "settings" => wrong <= 2 /\ (at # 7 => wrong <= 1) /\ (at \notin {4, 6, 7, 9} => wrong = 0)

(* A setting is as it was put, unless a user has touched it since.         *)
IsPut(k) == k \notin touched => settings[k]

SettingsSoFar ==
  /\ pc = "settings" =>
       /\ at > 1 => IsPut("switch-project")
       /\ at > 2 => IsPut("switch-preview-model")
       /\ at > 4 => IsPut("max-retry-interval")
       /\ at > 7 => IsPut("max-retry-credentials")
       /\ at = 10 =>
            /\ config \in [Quota!Settings -> BOOLEAN]
            /\ \A k \in Quota!WantedSettings \ touched : settings[k] <=> config[k]
  /\ pc = "green" => \A k \in Quota!WantedSettings : IsPut(k)

Listed(f) == \E k \in 1..Len(list) : list[k].name = f

(* An account that no user touches is still to be patched, or is as it      *)
(* should be; an address that was seen has an account.                     *)
AccountsSoFar ==
  /\ pc \in {"patch", "enable", "settings", "green"} =>
       \A f \in Files \ touched : Quota!Wants(f) => Listed(f) \/ (files[f].priority /\ ~files[f].disabled)
  /\ \A k \in 1..Len(list) : ~list[k].disabled /\ list[k].name \notin touched => ~files[list[k].name].disabled
  /\ pc = "enable" => list # <<>> /\ (Head(list).name \notin touched => files[Head(list).name].priority)
  /\ pc \in {"settings", "green"} => list = <<>>
  /\ \A e \in seen : \E f \in Claude : Email[f] = e /\ (files[f].there \/ f \in touched)
  /\ pc = "settings" => seen = Targets
  /\ pc = "green" => \A e \in Targets : \E f \in Claude : Email[f] = e /\ (files[f].there \/ f \in touched)

QuotaInv == QuotaTypes /\ WrongKeys /\ SettingsSoFar /\ AccountsSoFar

LEMMA QuotaMeans == QuotaInv => Quota!GreenMeansSet /\ Quota!NeverBanned
<1> SUFFICES ASSUME QuotaInv PROVE Quota!GreenMeansSet /\ Quota!NeverBanned
  OBVIOUS
<1>1. Quota!NeverBanned
  BY DEF QuotaInv, WrongKeys, Quota!NeverBanned
<1>2. ASSUME pc = "green" PROVE \A k \in Quota!WantedSettings \ touched : settings[k]
  BY <1>2 DEF QuotaInv, SettingsSoFar, IsPut
<1>3. ASSUME pc = "green" PROVE \A f \in Files \ touched : Quota!Wants(f) => files[f].priority /\ ~files[f].disabled
  BY <1>3 DEF QuotaInv, AccountsSoFar, Listed
<1>4. ASSUME pc = "green" PROVE \A e \in Targets : \E f \in Claude : Email[f] = e /\ (files[f].there \/ f \in touched)
  BY <1>4 DEF QuotaInv, AccountsSoFar
<1> QED BY <1>1, <1>2, <1>3, <1>4 DEF Quota!GreenMeansSet

LEMMA QuotaInit == Quota!Init => QuotaInv
<1> SUFFICES ASSUME Quota!Init PROVE QuotaInv
  OBVIOUS
<1>1. MaxEdits \in Nat
  BY ScriptsAssumption DEF ScriptsAssumption, Quota!FailoverAssumption
<1>2. files \in [Files -> Quota!FileState]
  <2> DEFINE new == {[there |-> TRUE, priority |-> FALSE, disabled |-> d] : d \in BOOLEAN}
  <2>1. ASSUME NEW d \in BOOLEAN
        PROVE  [there |-> TRUE, priority |-> FALSE, disabled |-> d] \in Quota!FileState
    BY DEF Quota!FileState
  <2>2. files \in [Files -> new]
    BY DEF Quota!Init
  <2>3. new \subseteq Quota!FileState
    BY <2>1
  <2> HIDE DEF new
  <2> QED BY <2>2, <2>3
<1>3. settings \in [Quota!Settings -> BOOLEAN] /\ edits \in 0..MaxEdits /\ keyok \in BOOLEAN
  BY <1>1 DEF Quota!Init
<1>4. pc = "idle" /\ list = <<>> /\ at = 1 /\ seen = {} /\ config = Quota!Nothing /\ touched = {} /\ wrong = 0
  BY DEF Quota!Init
<1>5. list \in Seq(Record) /\ Len(list) = 0 /\ DOMAIN list = {}
  BY <1>4
<1>6. QuotaTypes
  BY <1>2, <1>3, <1>4, <1>5 DEF QuotaTypes, Quota!TypeOK
<1>7. WrongKeys /\ SettingsSoFar
  BY <1>4 DEF WrongKeys, SettingsSoFar
<1>8. AccountsSoFar
  BY <1>4, <1>5 DEF AccountsSoFar
<1> QED BY <1>6, <1>7, <1>8 DEF QuotaInv

(* A run that ends, and one that starts, leaves no list behind.             *)
LEMMA QuotaEnds ==
  ASSUME QuotaInv, Quota!Locals(<<>>, 1, {}, Quota!Nothing), UNCHANGED <<edits, keyok>>,
         pc' \in {"list", "red"}, touched' \in SUBSET touched, wrong' \in 0..3, pc' = "list" => wrong' = 0,
         files' \in [Files -> Quota!FileState], settings' \in [Quota!Settings -> BOOLEAN]
  PROVE  QuotaInv'
<1>1. list' = <<>> /\ at' = 1 /\ seen' = {} /\ config' = Quota!Nothing
  BY DEF Quota!Locals
<1>2. list' \in Seq(Record) /\ Len(list') = 0 /\ DOMAIN list' = {}
  BY <1>1
<1>3. QuotaTypes'
  BY <1>1, <1>2 DEF QuotaInv, QuotaTypes, Quota!TypeOK
<1>4. WrongKeys' /\ SettingsSoFar'
  BY DEF WrongKeys, SettingsSoFar
<1>5. AccountsSoFar'
  BY <1>1, <1>2 DEF AccountsSoFar
<1> QED BY <1>3, <1>4, <1>5 DEF QuotaInv

(* So does a refusal, a failure and a lost answer.                          *)
LEMMA QuotaFailsWell ==
  ASSUME QuotaInv, pc \in {"list", "patch", "enable", "settings"}, Quota!Refused \/ Quota!Fails, UNCHANGED touched
  PROVE  QuotaInv'
<1>1. wrong' \in 0..3
  <2>1. wrong \in 0..2
    BY DEF QuotaInv, WrongKeys
  <2> QED BY <2>1 DEF Quota!Refused, Quota!Fails
<1>2. UNCHANGED <<files, settings, keyok, edits>> /\ pc' = "red" /\ Quota!Locals(<<>>, 1, {}, Quota!Nothing)
  BY DEF Quota!Refused, Quota!Fails, Quota!End, Quota!proxy
<1>3. files' \in [Files -> Quota!FileState] /\ settings' \in [Quota!Settings -> BOOLEAN]
  BY <1>2 DEF QuotaInv, QuotaTypes, Quota!TypeOK
<1> QED BY <1>1, <1>2, <1>3, QuotaEnds

LEMMA QuotaLost ==
  ASSUME QuotaInv, Quota!End("red"), UNCHANGED <<keyok, edits, wrong, touched>>,
         files' \in [Files -> Quota!FileState], settings' \in [Quota!Settings -> BOOLEAN]
  PROVE  QuotaInv'
<1>1. wrong' \in 0..3
  BY DEF QuotaInv, WrongKeys
<1> QED BY <1>1, QuotaEnds DEF Quota!End

LEMMA QuotaStart == QuotaInv /\ Quota!Start => QuotaInv'
<1> SUFFICES ASSUME QuotaInv, Quota!Start PROVE QuotaInv'
  OBVIOUS
<1>1. pc' = "list" /\ Quota!Locals(<<>>, 1, {}, Quota!Nothing) /\ touched' = {} /\ wrong' = 0
      /\ UNCHANGED <<files, settings, keyok, edits>>
  BY DEF Quota!Start, Quota!proxy
<1>2. files' \in [Files -> Quota!FileState] /\ settings' \in [Quota!Settings -> BOOLEAN] /\ wrong' \in 0..3
  BY <1>1 DEF QuotaInv, QuotaTypes, Quota!TypeOK
<1> QED BY <1>1, <1>2, QuotaEnds

LEMMA QuotaList == QuotaInv /\ Quota!List => QuotaInv'
<1> SUFFICES ASSUME QuotaInv, Quota!List PROVE QuotaInv'
  OBVIOUS
<1> DEFINE wanted == {f \in Files : Quota!Wants(f)}
           S == {[name |-> f, disabled |-> files[f].disabled] : f \in wanted}
           q == Quota!SetToSeq(S)
<1>1. CASE Quota!Refused \/ Quota!Fails
  BY <1>1, QuotaFailsWell DEF Quota!List
<1>2. ASSUME ~(Quota!Refused \/ Quota!Fails) PROVE QuotaInv'
  <2>1. Quota!Answered(pc' = "patch" /\ Quota!Locals(q, 1, {}, Quota!Nothing)) /\ UNCHANGED <<files, settings, touched>> /\ pc = "list"
    BY <1>2 DEF Quota!List
  <2>2. CASE Quota!End("red")
    BY <2>1, <2>2, QuotaLost DEF Quota!Answered, QuotaInv, QuotaTypes, Quota!TypeOK
  <2>3. CASE pc' = "patch" /\ Quota!Locals(q, 1, {}, Quota!Nothing)
    <3>1. IsFiniteSet(S)
      <4>1. IsFiniteSet(Files)
        <5>1. \A X : Quota!IsFiniteSet(X) <=> IsFiniteSet(X)
          BY DEF Quota!IsFiniteSet, IsFiniteSet
        <5> QED BY <5>1, ScriptsAssumption DEF ScriptsAssumption, Quota!FailoverAssumption
      <4>2. IsFiniteSet(wanted)
        BY <4>1, FS_Subset
      <4> DEFINE g == [f \in wanted |-> [name |-> f, disabled |-> files[f].disabled]]
      <4>3. g \in Surjection(wanted, S)
        BY DEF Surjection
      <4> HIDE DEF g, S
      <4> QED BY <4>2, <4>3, FS_Surjection
    <3> HIDE DEF S
    <3>2. q \in Seq(S) /\ \A x \in S : \E k \in 1..Len(q) : q[k] = x
      BY <3>1, AsSequence
    <3> HIDE DEF q
    <3>3. \A x \in S : x \in Record /\ Quota!Wants(x.name) /\ x.disabled = files[x.name].disabled
      BY DEF S, Record, QuotaInv, QuotaTypes, Quota!TypeOK, Quota!FileState
    <3>4. list' = q /\ at' = 1 /\ seen' = {} /\ config' = Quota!Nothing /\ pc' = "patch"
          /\ UNCHANGED <<files, settings, keyok, edits, wrong, touched>>
      BY <2>1, <2>3 DEF Quota!Locals, Quota!Answered
    <3>5. \A k \in 1..Len(q) : q[k] \in S
      BY <3>2
    <3>6. q \in Seq(Record) /\ DOMAIN q = 1..Len(q)
      BY <3>2, <3>3
    <3>7. \A k \in 1..Len(q) : q[k].name \in Files /\ q[k].disabled \in BOOLEAN
            /\ q[k].name \in Claude /\ Email[q[k].name] \in Targets /\ q[k].disabled = files[q[k].name].disabled
      BY <3>3, <3>5 DEF Record, Quota!Wants
    <3>8. QuotaTypes'
      BY <3>4, <3>6, <3>7 DEF QuotaInv, QuotaTypes, Quota!TypeOK
    <3>9. WrongKeys' /\ SettingsSoFar'
      BY <2>1, <3>4 DEF QuotaInv, WrongKeys, SettingsSoFar
    <3>10. \A f \in Files : Quota!Wants(f) => \E k \in 1..Len(q) : q[k].name = f
      <4> TAKE f \in Files
      <4> HAVE Quota!Wants(f)
      <4>1. [name |-> f, disabled |-> files[f].disabled] \in S
        BY DEF S
      <4>2. PICK k \in 1..Len(q) : q[k] = [name |-> f, disabled |-> files[f].disabled]
        BY <3>2, <4>1
      <4> QED BY <4>2
    <3>11. \A f : Quota!Wants(f)' <=> Quota!Wants(f)
      BY <3>4 DEF Quota!Wants
    <3>12. AccountsSoFar'
      BY <3>4, <3>7, <3>10, <3>11 DEF AccountsSoFar, Listed
    <3> QED BY <3>8, <3>9, <3>12 DEF QuotaInv
  <2> QED BY <2>1, <2>2, <2>3 DEF Quota!Answered
<1> QED BY <1>1, <1>2

(* An account is patched and, where it was listed as disabled, enabled, or  *)
(* else done with.                                                         *)
LEMMA QuotaAccount == QuotaInv /\ (Quota!Patch \/ Quota!Enable) => QuotaInv'
<1> SUFFICES ASSUME QuotaInv, Quota!Patch \/ Quota!Enable PROVE QuotaInv'
  OBVIOUS
<1> DEFINE f == Head(list).name
<1>1. CASE Quota!Refused \/ Quota!Fails
  BY <1>1, QuotaFailsWell DEF Quota!Patch, Quota!Enable
<1>2. ASSUME ~(Quota!Refused \/ Quota!Fails) PROVE QuotaInv'
  <2>1. list # <<>> /\ list \in Seq(Record) /\ Head(list) = list[1] /\ f \in Files
        /\ Head(list).disabled \in BOOLEAN /\ Len(list) \in Nat /\ 1 \in 1..Len(list)
    <3>1. list # <<>> /\ list \in Seq(Record)
      BY DEF QuotaInv, QuotaTypes, AccountsSoFar, Quota!Patch, Quota!Enable
    <3>2. Head(list) = list[1] /\ Head(list) \in Record /\ Len(list) \in Nat /\ 1 \in 1..Len(list)
      BY <3>1
    <3> QED BY <3>1, <3>2 DEF Record
  <2>2. Tail(list) \in Seq(Record) /\ Len(Tail(list)) = Len(list) - 1
        /\ \A k \in 1..Len(list) - 1 : Tail(list)[k] = list[k + 1]
    BY <2>1
  <2> \A k \in 1..Len(list) : list[k] \in Record /\ list[k].name \in Files
    <3>1. \A k \in 1..Len(list) : list[k] \in Record
      BY <2>1
    <3> QED BY <3>1 DEF Record
  <2> DEFINE Next1 == pc' = "patch" /\ Quota!Locals(Tail(list), at, seen \cup {Email[f]}, config)
  <2>3. /\ UNCHANGED <<settings, touched, keyok, edits, wrong>> /\ files[f].there /\ pc \in {"patch", "enable"}
        /\ \/ files' = [files EXCEPT ![f].priority = TRUE]
           \/ files' = [files EXCEPT ![f].disabled = FALSE]
    BY <1>2 DEF Quota!Patch, Quota!Enable, Quota!Answered
  <2>4. files[f] \in Quota!FileState /\ files \in [Files -> Quota!FileState]
    BY <2>1 DEF QuotaInv, QuotaTypes, Quota!TypeOK
  <2>5. /\ files' \in [Files -> Quota!FileState] /\ \A g \in Files \ {f} : files'[g] = files[g]
        /\ files'[f].there = files[f].there
        /\ files[f].priority => files'[f].priority
        /\ files'[f].disabled => files[f].disabled
    <3>1. PICK new \in Quota!FileState : files' = [files EXCEPT ![f] = new] /\ new.there = files[f].there
            /\ (files[f].priority => new.priority) /\ (new.disabled => files[f].disabled)
      <4>1. CASE files' = [files EXCEPT ![f].priority = TRUE]
        <5> DEFINE new == [files[f] EXCEPT !.priority = TRUE]
        <5>1. new \in Quota!FileState /\ new.there = files[f].there /\ new.priority /\ new.disabled = files[f].disabled
          BY <2>4 DEF Quota!FileState
        <5>2. files' = [files EXCEPT ![f] = new]
          BY <4>1
        <5> HIDE DEF new
        <5> QED BY <5>1, <5>2
      <4>2. CASE files' = [files EXCEPT ![f].disabled = FALSE]
        <5> DEFINE new == [files[f] EXCEPT !.disabled = FALSE]
        <5>1. new \in Quota!FileState /\ new.there = files[f].there /\ new.priority = files[f].priority /\ ~new.disabled
          BY <2>4 DEF Quota!FileState
        <5>2. files' = [files EXCEPT ![f] = new]
          BY <4>2
        <5> HIDE DEF new
        <5> QED BY <5>1, <5>2
      <4> QED BY <2>3, <4>1, <4>2
    <3> QED BY <2>1, <2>4, <3>1
  <2>6. CASE Quota!End("red")
    BY <2>3, <2>5, <2>6, QuotaLost DEF QuotaInv, QuotaTypes, Quota!TypeOK
  <2>7. \A g \in Files : Quota!Wants(g)' <=> Quota!Wants(g)
    BY <2>5 DEF Quota!Wants
  <2>8. f \in Claude /\ Email[f] \in Targets
    BY <2>1 DEF QuotaInv, QuotaTypes
  <2>9. pc' \in {"patch", "enable"} => WrongKeys' /\ SettingsSoFar'
    BY <2>3 DEF QuotaInv, WrongKeys, SettingsSoFar
  <2>10. CASE Next1
    <3>1. list' = Tail(list) /\ UNCHANGED <<at, config>> /\ seen' = seen \cup {Email[f]} /\ pc' = "patch"
      BY <2>10 DEF Quota!Locals
    <3>2. f \notin touched => files'[f].priority /\ ~files'[f].disabled
      <4>1. CASE Quota!Patch /\ ~Head(list).disabled
        BY <1>2, <2>1, <2>4, <2>5, <4>1 DEF Quota!Patch, QuotaInv, AccountsSoFar, Quota!FileState
      <4>2. CASE Quota!Patch /\ Head(list).disabled
        BY <1>2, <2>10, <4>2 DEF Quota!Patch, Quota!Answered, Quota!End
      <4>3. CASE Quota!Enable
        BY <1>2, <2>1, <2>4, <2>5, <4>3 DEF Quota!Enable, QuotaInv, AccountsSoFar, Quota!FileState
      <4> QED BY <4>1, <4>2, <4>3
    <3>3. DOMAIN list' = 1..Len(list') /\ \A k \in 1..Len(list') : k + 1 \in 1..Len(list) /\ list'[k] = list[k + 1]
      BY <2>2, <3>1
    <3>4. \A g : Listed(g) => g = f \/ Listed(g)'
      <4> SUFFICES ASSUME NEW k \in 1..Len(list) PROVE list[k].name = f \/ \E i \in 1..Len(list') : list'[i].name = list[k].name
        BY DEF Listed
      <4>1. CASE k = 1
        BY <2>1, <4>1
      <4>2. CASE k # 1
        <5>1. k - 1 \in 1..Len(list') /\ list'[k - 1] = list[k]
          BY <2>1, <2>2, <3>1, <4>2
        <5> QED BY <5>1
      <4> QED BY <4>1, <4>2
    <3>5. QuotaTypes'
      BY <2>2, <2>3, <2>5, <2>8, <3>1, <3>3 DEF QuotaInv, QuotaTypes, Quota!TypeOK
    <3>6. \A g \in Files \ touched' : Quota!Wants(g)' => Listed(g)' \/ (files'[g].priority /\ ~files'[g].disabled)
      BY <2>3, <2>5, <2>7, <3>2, <3>4 DEF QuotaInv, AccountsSoFar
    <3>7. \A k \in 1..Len(list') : ~list'[k].disabled /\ list'[k].name \notin touched' => ~files'[list'[k].name].disabled
      <4> SUFFICES ASSUME NEW k \in 1..Len(list'), ~list'[k].disabled, list'[k].name \notin touched
                   PROVE  ~files'[list'[k].name].disabled
        BY <2>3
      <4>1. ~files[list'[k].name].disabled /\ list'[k].name \in Files
        BY <3>3 DEF QuotaInv, AccountsSoFar
      <4> QED BY <2>5, <4>1
    <3>8. \A e \in seen' : \E g \in Claude : Email[g] = e /\ (files'[g].there \/ g \in touched')
      <4>1. \A g \in Claude : g \in Files
        BY ScriptsAssumption DEF ScriptsAssumption, Quota!FailoverAssumption
      <4> QED BY <2>3, <2>5, <2>8, <3>1, <4>1 DEF QuotaInv, AccountsSoFar
    <3>9. AccountsSoFar'
      BY <3>1, <3>6, <3>7, <3>8 DEF AccountsSoFar
    <3> QED BY <2>9, <3>1, <3>5, <3>9 DEF QuotaInv
  <2>11. CASE pc' = "enable" /\ Quota!Locals(list, at, seen, config) /\ Quota!Patch
    <3>1. UNCHANGED <<list, at, seen, config>> /\ pc' = "enable"
      BY <2>11 DEF Quota!Locals
    <3>2. files'[f].priority
      BY <1>2, <2>1, <2>4, <2>11 DEF Quota!Patch, Quota!FileState
    <3>3. QuotaTypes'
      BY <2>3, <2>5, <3>1 DEF QuotaInv, QuotaTypes, Quota!TypeOK
    <3>4. \A g \in Files \ touched' : Quota!Wants(g)' => Listed(g)' \/ (files'[g].priority /\ ~files'[g].disabled)
      BY <2>3, <2>5, <2>7, <3>1 DEF QuotaInv, AccountsSoFar, Listed
    <3>5. \A k \in 1..Len(list') : ~list'[k].disabled /\ list'[k].name \notin touched' => ~files'[list'[k].name].disabled
      BY <2>3, <2>5, <3>1 DEF QuotaInv, AccountsSoFar
    <3>6. \A e \in seen' : \E g \in Claude : Email[g] = e /\ (files'[g].there \/ g \in touched')
      <4>1. \A g \in Claude : g \in Files
        BY ScriptsAssumption DEF ScriptsAssumption, Quota!FailoverAssumption
      <4> QED BY <2>3, <2>5, <3>1, <4>1 DEF QuotaInv, AccountsSoFar
    <3>7. AccountsSoFar'
      BY <2>1, <3>1, <3>2, <3>4, <3>5, <3>6 DEF AccountsSoFar
    <3> QED BY <2>9, <3>1, <3>3, <3>7 DEF QuotaInv
  <2> QED BY <1>2, <2>6, <2>10, <2>11 DEF Quota!Patch, Quota!Enable, Quota!Answered
<1> QED BY <1>1, <1>2

LEMMA QuotaMissing == QuotaInv /\ Quota!Missing => QuotaInv'
<1> SUFFICES ASSUME QuotaInv, Quota!Missing PROVE QuotaInv'
  OBVIOUS
<1>1. UNCHANGED <<files, settings, keyok, edits, touched, wrong>> /\ pc = "patch" /\ list = <<>>
  BY DEF Quota!Missing, Quota!proxy
<1>2. CASE Quota!End("red")
  BY <1>1, <1>2, QuotaLost DEF QuotaInv, QuotaTypes, Quota!TypeOK
<1>3. CASE seen = Targets /\ pc' = "settings" /\ Quota!Locals(list, at, seen, config)
  <2>1. UNCHANGED <<list, seen, config>> /\ at' = 1 /\ at = 1 /\ pc' = "settings"
    BY <1>1, <1>3 DEF Quota!Locals, QuotaInv, QuotaTypes
  <2>2. QuotaTypes'
    BY <1>1, <2>1 DEF QuotaInv, QuotaTypes, Quota!TypeOK
  <2>3. WrongKeys' /\ SettingsSoFar'
    BY <1>1, <2>1 DEF QuotaInv, WrongKeys, SettingsSoFar
  <2>4. AccountsSoFar'
    BY <1>1, <1>3, <2>1 DEF QuotaInv, AccountsSoFar, Listed, Quota!Wants
  <2> QED BY <2>2, <2>3, <2>4 DEF QuotaInv
<1> QED BY <1>2, <1>3 DEF Quota!Missing

(* Between two calls of main.  The last of them, AffinityCalls[2], is not   *)
(* followed by another.                                                    *)
LEMMA QuotaGoesOn ==
  ASSUME QuotaInv, pc = "settings", at < 10, NEW c, Quota!Go(c), UNCHANGED <<files, keyok, edits, touched>>,
         settings' \in [Quota!Settings -> BOOLEAN], \A k \in Quota!WantedSettings : settings[k] => settings'[k],
         c = config \/ c \in [Quota!Settings -> BOOLEAN],
         WrongKeys',
         at = 1 => IsPut("switch-project")', at = 2 => IsPut("switch-preview-model")',
         at = 4 => IsPut("max-retry-interval")', at = 7 => IsPut("max-retry-credentials")',
         at = 9 => c = settings'
  PROVE  QuotaInv'
<1>1. pc' = "settings" /\ at' = at + 1 /\ list' = list /\ seen' = seen /\ config' = c /\ at \in 1..9 /\ at' \in 2..10
  BY CallsAre DEF Quota!Go, Quota!Locals, QuotaInv, QuotaTypes
<1>2. QuotaTypes'
  BY <1>1 DEF QuotaInv, QuotaTypes, Quota!TypeOK, WrongKeys
<1>3. {"switch-project", "switch-preview-model", "max-retry-interval", "max-retry-credentials"} \subseteq Quota!WantedSettings
  BY DEF Quota!WantedSettings, Quota!RETRY_SETTINGS
<1>4. \A k \in Quota!WantedSettings : IsPut(k) => IsPut(k)'
  BY DEF IsPut
<1>5. /\ at' > 1 => IsPut("switch-project")'
      /\ at' > 2 => IsPut("switch-preview-model")'
      /\ at' > 4 => IsPut("max-retry-interval")'
      /\ at' > 7 => IsPut("max-retry-credentials")'
  <2>1. at = 1 \/ at > 1 => IsPut("switch-project")'
    BY <1>3, <1>4 DEF QuotaInv, SettingsSoFar
  <2>2. at = 2 \/ at > 2 => IsPut("switch-preview-model")'
    BY <1>3, <1>4 DEF QuotaInv, SettingsSoFar
  <2>3. at = 4 \/ at > 4 => IsPut("max-retry-interval")'
    BY <1>3, <1>4 DEF QuotaInv, SettingsSoFar
  <2>4. at = 7 \/ at > 7 => IsPut("max-retry-credentials")'
    BY <1>3, <1>4 DEF QuotaInv, SettingsSoFar
  <2> QED BY <1>1, <2>1, <2>2, <2>3, <2>4
<1>6. at' = 10 => config' = settings'
  BY <1>1
<1>7. SettingsSoFar'
  BY <1>1, <1>5, <1>6 DEF SettingsSoFar
<1>8. AccountsSoFar'
  BY <1>1 DEF QuotaInv, AccountsSoFar, Listed, Quota!Wants
<1> QED BY <1>2, <1>7, <1>8 DEF QuotaInv

LEMMA QuotaPut == QuotaInv /\ Quota!Put => QuotaInv'
<1> SUFFICES ASSUME QuotaInv, Quota!Put PROVE QuotaInv'
  OBVIOUS
<1> DEFINE k == Quota!Calls[at].key
<1>1. CASE Quota!Refused \/ Quota!Fails
  BY <1>1, QuotaFailsWell DEF Quota!Put
<1>2. CASE settings' = [settings EXCEPT ![k] = TRUE] /\ UNCHANGED files /\ Quota!Answered(Quota!Go(config))
  <2>1. pc = "settings" /\ keyok /\ UNCHANGED <<files, keyok, edits, wrong, touched>> /\ at \in {1, 2, 4, 7}
    <3>1. at \in 1..10 /\ Quota!Calls[at].call = "put"
      BY DEF Quota!Put, QuotaInv, QuotaTypes
    <3>2. at \notin {3, 5, 6, 8, 9, 10}
      BY <3>1, CallsAre
    <3> QED BY <1>2, <3>1, <3>2 DEF Quota!Put, Quota!Answered
  <2>2. settings \in [Quota!Settings -> BOOLEAN]
    BY DEF QuotaInv, QuotaTypes, Quota!TypeOK
  <2>3. /\ at = 1 => k = "switch-project"
        /\ at = 2 => k = "switch-preview-model"
        /\ at = 4 => k = "max-retry-interval"
        /\ at = 7 => k = "max-retry-credentials"
    BY CallsAre
  <2>4. k \in Quota!Settings
    BY <2>1, <2>3 DEF Quota!Settings, Quota!WantedSettings, Quota!RETRY_SETTINGS
  <2>5. settings' \in [Quota!Settings -> BOOLEAN] /\ settings'[k] /\ \A j \in Quota!Settings : settings[j] => settings'[j]
    BY <1>2, <2>2, <2>4
  <2>6. CASE Quota!End("red")
    <3>1. files' \in [Files -> Quota!FileState]
      BY <2>1 DEF QuotaInv, QuotaTypes, Quota!TypeOK
    <3> QED BY <2>1, <2>5, <2>6, <3>1, QuotaLost
  <2>7. CASE Quota!Go(config)
    <3>1. pc' = "settings" /\ wrong = 0
      BY <2>1, <2>7, CallsAre DEF QuotaInv, WrongKeys, Quota!Go
    <3>2. WrongKeys'
      BY <2>1, <3>1 DEF WrongKeys
    <3>3. \A j \in Quota!WantedSettings : settings[j] => settings'[j]
      BY <2>5 DEF Quota!Settings
    <3>4. /\ at = 1 => IsPut("switch-project")'
          /\ at = 2 => IsPut("switch-preview-model")'
          /\ at = 4 => IsPut("max-retry-interval")'
          /\ at = 7 => IsPut("max-retry-credentials")'
      BY <2>3, <2>5 DEF IsPut
    <3>5. at < 10 /\ at # 9
      BY <2>1
    <3> HIDE DEF k
    <3> QED BY <2>1, <2>5, <2>7, <3>2, <3>3, <3>4, <3>5, QuotaGoesOn
  <2> QED BY <1>2, <2>6, <2>7 DEF Quota!Answered
<1> QED BY <1>1, <1>2 DEF Quota!Put

LEMMA QuotaRead == QuotaInv /\ Quota!Read => QuotaInv'
<1> SUFFICES ASSUME QuotaInv, Quota!Read PROVE QuotaInv'
  OBVIOUS
<1>1. pc = "settings" /\ UNCHANGED <<files, settings, keyok, edits, touched>> /\ at \in {3, 5, 6, 8}
  <2>1. at \in 1..10 /\ Quota!Calls[at].call \in {"read", "verify"}
    BY DEF Quota!Read, QuotaInv, QuotaTypes
  <2>2. at \notin {1, 2, 4, 7, 9, 10}
    BY <2>1, CallsAre
  <2> QED BY <2>1, <2>2 DEF Quota!Read, Quota!proxy
<1>2. files \in [Files -> Quota!FileState] /\ settings \in [Quota!Settings -> BOOLEAN]
  BY DEF QuotaInv, QuotaTypes, Quota!TypeOK
<1>3. CASE Quota!End("red") /\ UNCHANGED wrong
  BY <1>1, <1>2, <1>3, QuotaLost
<1>4. CASE wrong' = (IF keyok THEN wrong ELSE wrong + 1) /\ Quota!Go(config)
  <2>1. wrong \in 0..3 /\ (keyok => wrong = 0) /\ (at # 7 => wrong <= 1) /\ (at \notin {4, 6, 7, 9} => wrong = 0)
    BY <1>1 DEF QuotaInv, WrongKeys
  <2>2. pc' = "settings" /\ at' = at + 1 /\ at' \in {4, 6, 7, 9}
    BY <1>1, <1>4, CallsAre DEF Quota!Go, Quota!Locals
  <2>3. wrong' \in 0..2 /\ (keyok' => wrong' = 0) /\ (at' # 7 => wrong' <= 1)
    BY <1>1, <1>4, <2>1, <2>2
  <2>4. WrongKeys'
    BY <2>2, <2>3 DEF WrongKeys
  <2> QED BY <1>1, <1>2, <1>4, <2>4, QuotaGoesOn
<1> QED BY <1>3, <1>4 DEF Quota!Read

LEMMA QuotaGetConfig == QuotaInv /\ Quota!GetConfig => QuotaInv'
<1> SUFFICES ASSUME QuotaInv, Quota!GetConfig PROVE QuotaInv'
  OBVIOUS
<1>1. CASE Quota!Refused \/ Quota!Fails
  BY <1>1, QuotaFailsWell DEF Quota!GetConfig
<1>2. CASE Quota!Answered(Quota!Go(settings)) /\ UNCHANGED <<files, settings>>
  <2>1. pc = "settings" /\ keyok /\ UNCHANGED <<files, settings, keyok, edits, wrong, touched>> /\ at = 9
    <3>1. at \in 1..10 /\ Quota!Calls[at].call = "get"
      BY DEF Quota!GetConfig, QuotaInv, QuotaTypes
    <3>2. at \notin {1, 2, 3, 4, 5, 6, 7, 8, 10}
      BY <3>1, CallsAre
    <3> QED BY <1>2, <3>1, <3>2 DEF Quota!GetConfig, Quota!Answered
  <2>2. files \in [Files -> Quota!FileState] /\ settings \in [Quota!Settings -> BOOLEAN]
    BY DEF QuotaInv, QuotaTypes, Quota!TypeOK
  <2>3. CASE Quota!End("red")
    BY <2>1, <2>2, <2>3, QuotaLost
  <2>4. CASE Quota!Go(settings)
    <3>1. wrong = 0 /\ pc' = "settings"
      BY <2>1, <2>4, CallsAre DEF QuotaInv, WrongKeys, Quota!Go
    <3>2. WrongKeys'
      BY <2>1, <3>1 DEF WrongKeys
    <3> QED BY <2>1, <2>2, <2>4, <3>2, QuotaGoesOn
  <2> QED BY <1>2, <2>3, <2>4 DEF Quota!Answered
<1> QED BY <1>1, <1>2 DEF Quota!GetConfig

(* The run ends well here alone.                                            *)
LEMMA QuotaPutConfig == QuotaInv /\ Quota!PutConfig => QuotaInv'
<1> SUFFICES ASSUME QuotaInv, Quota!PutConfig PROVE QuotaInv'
  OBVIOUS
<1>1. pc = "settings" /\ at = 10 /\ UNCHANGED touched
  <2>1. pc = "settings" /\ at \in 1..10 /\ Quota!Calls[at].call = "replace"
    BY DEF Quota!PutConfig, QuotaInv, QuotaTypes
  <2>2. at \notin 1..9
    BY <2>1, CallsAre
  <2> QED BY <2>1, <2>2 DEF Quota!PutConfig
<1>2. /\ config \in [Quota!Settings -> BOOLEAN]
      /\ \A k \in Quota!WantedSettings \ touched : settings[k] <=> config[k]
      /\ \A k \in Quota!WantedSettings \ {"session-affinity"} : IsPut(k)
      /\ files \in [Files -> Quota!FileState] /\ settings \in [Quota!Settings -> BOOLEAN]
  BY <1>1 DEF QuotaInv, SettingsSoFar, QuotaTypes, Quota!TypeOK, Quota!WantedSettings, Quota!RETRY_SETTINGS
<1>3. CASE Quota!Refused \/ Quota!Fails
  BY <1>1, <1>3, QuotaFailsWell
<1>4. ASSUME Quota!End("green"), UNCHANGED <<files, keyok, edits, wrong>>,
             settings' \in [Quota!Settings -> BOOLEAN], \A k \in Quota!WantedSettings : IsPut(k)'
      PROVE  QuotaInv'
  <2>1. pc' = "green" /\ list' = <<>> /\ at' = 1 /\ seen' = {} /\ config' = Quota!Nothing
    BY <1>4 DEF Quota!End, Quota!Locals
  <2>2. list' \in Seq(Record) /\ Len(list') = 0 /\ DOMAIN list' = {}
    BY <2>1
  <2>3. QuotaTypes'
    BY <1>1, <1>4, <2>1, <2>2 DEF QuotaInv, QuotaTypes, Quota!TypeOK
  <2>4. WrongKeys' /\ SettingsSoFar'
    BY <1>4, <2>1 DEF QuotaInv, WrongKeys, SettingsSoFar
  <2>5. list = <<>> /\ Len(list) = 0 /\ seen = Targets
    BY <1>1 DEF QuotaInv, AccountsSoFar
  <2>6. AccountsSoFar'
    BY <1>1, <1>4, <2>1, <2>2, <2>5 DEF QuotaInv, AccountsSoFar, Listed, Quota!Wants
  <2> QED BY <2>3, <2>4, <2>6 DEF QuotaInv
<1>5. CASE config["session-affinity"] /\ Quota!End("green") /\ UNCHANGED <<Quota!proxy, wrong>>
  <2>1. UNCHANGED <<files, settings, keyok, edits, wrong>>
    BY <1>5 DEF Quota!proxy
  <2>2. "session-affinity" \in Quota!WantedSettings
    BY DEF Quota!WantedSettings
  <2>3. \A k \in Quota!WantedSettings : IsPut(k)
    BY <1>2, <1>5, <2>2 DEF IsPut
  <2>4. \A k \in Quota!WantedSettings : IsPut(k)'
    BY <1>1, <2>1, <2>3 DEF IsPut
  <2> QED BY <1>2, <1>4, <1>5, <2>1, <2>4
<1>6. CASE settings' = [config EXCEPT !["session-affinity"] = TRUE] /\ UNCHANGED files /\ Quota!Answered(Quota!Go(config))
  <2>1. "session-affinity" \in Quota!Settings /\ Quota!WantedSettings \subseteq Quota!Settings
    BY DEF Quota!Settings, Quota!WantedSettings
  <2>2. /\ settings' \in [Quota!Settings -> BOOLEAN] /\ settings'["session-affinity"]
        /\ \A k \in Quota!Settings \ {"session-affinity"} : settings'[k] = config[k]
    BY <1>2, <1>6, <2>1
  <2>3. \A k \in Quota!WantedSettings : IsPut(k)'
    BY <1>1, <1>2, <2>1, <2>2 DEF IsPut
  <2>4. UNCHANGED <<files, keyok, edits, wrong>>
    BY <1>6 DEF Quota!Answered
  <2>5. Quota!End("green") \/ Quota!End("red")
    BY <1>1, <1>6, CallsAre DEF Quota!Answered, Quota!Go
  <2> QED BY <1>1, <1>2, <1>4, <2>2, <2>3, <2>4, <2>5, QuotaLost
<1> QED BY <1>3, <1>5, <1>6 DEF Quota!PutConfig

LEMMA QuotaUser == QuotaInv /\ Quota!User => QuotaInv'
<1> SUFFICES ASSUME QuotaInv, Quota!User PROVE QuotaInv'
  OBVIOUS
<1>1. PICK what : Quota!Web(what)
  BY DEF Quota!User, Quota!WebKey, Quota!WebSetting, Quota!WebFile
<1>2. /\ UNCHANGED <<pc, list, at, seen, config, wrong>> /\ touched \subseteq touched'
      /\ edits' = edits + 1 /\ edits < MaxEdits
  BY <1>1 DEF Quota!Web
<1>3. MaxEdits \in Nat /\ \A f \in Claude : f \in Files
  BY ScriptsAssumption DEF ScriptsAssumption, Quota!FailoverAssumption
<1>4. edits' \in 0..MaxEdits
  BY <1>2, <1>3 DEF QuotaInv, QuotaTypes, Quota!TypeOK
<1>5. files' \in [Files -> Quota!FileState] /\ settings' \in [Quota!Settings -> BOOLEAN] /\ keyok' \in BOOLEAN
      /\ touched' \subseteq Quota!Settings \cup Files /\ (keyok' => keyok \/ pc \in {"idle", "green", "red"})
      /\ (\A f \in Files : f \notin touched' => files'[f] = files[f])
      /\ (\A k \in Quota!Settings : k \notin touched' => settings'[k] = settings[k])
  <2>1. files \in [Files -> Quota!FileState] /\ settings \in [Quota!Settings -> BOOLEAN] /\ keyok \in BOOLEAN
        /\ touched \subseteq Quota!Settings \cup Files
    BY DEF QuotaInv, QuotaTypes, Quota!TypeOK
  <2>2. CASE Quota!WebKey
    BY <2>1, <2>2 DEF Quota!WebKey, Quota!Web
  <2>3. CASE \E k \in Quota!Settings : Quota!WebSetting(k)
    BY <2>1, <2>3 DEF Quota!WebSetting, Quota!Web
  <2>4. CASE \E f \in Files : Quota!WebFile(f)
    <3>1. PICK f \in Files, new \in Quota!FileState :
            files' = [files EXCEPT ![f] = new] /\ Quota!Web({f}) /\ UNCHANGED <<settings, keyok>>
      BY <2>4 DEF Quota!WebFile
    <3> QED BY <2>1, <3>1 DEF Quota!Web
  <2> QED BY <2>2, <2>3, <2>4 DEF Quota!User
<1>6. QuotaTypes'
  BY <1>2, <1>4, <1>5 DEF QuotaInv, QuotaTypes, Quota!TypeOK
<1>7. WrongKeys'
  BY <1>2, <1>5 DEF QuotaInv, WrongKeys
<1>8. Quota!WantedSettings \subseteq Quota!Settings
      /\ {"switch-project", "switch-preview-model", "max-retry-interval", "max-retry-credentials"} \subseteq Quota!WantedSettings
  BY DEF Quota!Settings, Quota!WantedSettings, Quota!RETRY_SETTINGS
<1>9. \A k \in Quota!WantedSettings : (IsPut(k) => IsPut(k)') /\ (k \notin touched' => settings'[k] = settings[k])
  BY <1>2, <1>5, <1>8 DEF IsPut
<1>10. SettingsSoFar'
  BY <1>2, <1>8, <1>9 DEF QuotaInv, SettingsSoFar
<1>11. AccountsSoFar'
  <2>1. \A f \in Files \ touched' : (Quota!Wants(f)' <=> Quota!Wants(f)) /\ (Listed(f)' <=> Listed(f)) /\ files'[f] = files[f]
    BY <1>2, <1>5 DEF Quota!Wants, Listed
  <2>2. \A f \in Claude : files[f].there \/ f \in touched => files'[f].there \/ f \in touched'
    BY <1>2, <1>3, <1>5
  <2>3. \A k \in 1..Len(list) : list[k].name \in Files
    BY <1>3 DEF QuotaInv, QuotaTypes
  <2>4. pc = "enable" => Head(list).name \in Files
    <3>1. pc = "enable" => Head(list) = list[1] /\ 1 \in 1..Len(list)
      BY DEF QuotaInv, QuotaTypes, AccountsSoFar
    <3> QED BY <2>3, <3>1
  <2>5. \A f \in Files \ touched' : Quota!Wants(f)' /\ pc' \in {"patch", "enable", "settings", "green"}
           => Listed(f)' \/ (files'[f].priority /\ ~files'[f].disabled)
    BY <1>2, <2>1 DEF QuotaInv, AccountsSoFar
  <2>6. \A k \in 1..Len(list') : ~list'[k].disabled /\ list'[k].name \notin touched' => ~files'[list'[k].name].disabled
    BY <1>2, <2>1, <2>3 DEF QuotaInv, AccountsSoFar
  <2>7. pc' = "enable" => list' # <<>> /\ (Head(list').name \notin touched' => files'[Head(list').name].priority)
    BY <1>2, <2>1, <2>4 DEF QuotaInv, AccountsSoFar
  <2>8. \A e \in seen' : \E f \in Claude : Email[f] = e /\ (files'[f].there \/ f \in touched')
    BY <1>2, <2>2 DEF QuotaInv, AccountsSoFar
  <2>9. pc' = "green" => \A e \in Targets : \E f \in Claude : Email[f] = e /\ (files'[f].there \/ f \in touched')
    BY <1>2, <2>2 DEF QuotaInv, AccountsSoFar
  <2>10. (pc' \in {"settings", "green"} => list' = <<>>) /\ (pc' = "settings" => seen' = Targets)
    BY <1>2 DEF QuotaInv, AccountsSoFar
  <2> QED BY <2>5, <2>6, <2>7, <2>8, <2>9, <2>10 DEF AccountsSoFar
<1> QED BY <1>6, <1>7, <1>10, <1>11 DEF QuotaInv

LEMMA QuotaStep == QuotaInv /\ [Quota!Next]_(Quota!vars) => QuotaInv'
<1> SUFFICES ASSUME QuotaInv, [Quota!Next]_(Quota!vars) PROVE QuotaInv'
  OBVIOUS
<1>1. CASE Quota!Next
  BY <1>1, QuotaStart, QuotaList, QuotaAccount, QuotaMissing, QuotaPut, QuotaRead, QuotaGetConfig, QuotaPutConfig, QuotaUser
  DEF Quota!Next, Quota!Script
<1>2. CASE UNCHANGED Quota!vars
  <2>1. UNCHANGED <<files, settings, keyok, edits, pc, list, at, seen, config, touched, wrong>>
    BY <1>2 DEF Quota!vars, Quota!proxy
  <2>2. QuotaTypes'
    BY <2>1 DEF QuotaInv, QuotaTypes, Quota!TypeOK
  <2>3. WrongKeys'
    BY <2>1 DEF QuotaInv, WrongKeys
  <2>4. SettingsSoFar'
    BY <2>1 DEF QuotaInv, SettingsSoFar, IsPut
  <2>5. AccountsSoFar'
    BY <2>1 DEF QuotaInv, AccountsSoFar, Listed, Quota!Wants
  <2> QED BY <2>2, <2>3, <2>4, <2>5 DEF QuotaInv
<1> QED BY <1>1, <1>2

LEMMA QuotaHolds == Spec => [](script = "quota" => QuotaInv)
<1>1. Init => (script = "quota" => QuotaInv)
  BY QuotaInit DEF Init
<1>2. (script = "quota" => QuotaInv) /\ [Next]_vars => (script = "quota" => QuotaInv)'
  BY OwnSteps, QuotaStep
<1> QED BY <1>1, <1>2, PTL DEF Spec

----------------------------------------------------------------------------
(* The workflows of Portainer; see DeployProofs.                            *)
LEMMA EdgeHolds == Spec => [](script = "portainer" => EdgeInv)
<1>1. Edge!DeployAssumption
  BY ScriptsAssumption DEF ScriptsAssumption
<1>2. Init => (script = "portainer" => EdgeInv)
  BY <1>1, EdgeInitial DEF Init
<1>3. (script = "portainer" => EdgeInv) /\ [Next]_vars => (script = "portainer" => EdgeInv)'
  BY <1>1, OwnSteps, EdgeStep
<1> QED BY <1>2, <1>3, PTL DEF Spec

----------------------------------------------------------------------------
(* All of them at once.                                                     *)
LEMMA ScriptsHold ==
  Spec => [](/\ script = "quota" => QuotaInv
             /\ script = "keysync" => SyncInv
             /\ script = "preflight" => VerifyInv
             /\ script = "beszel" => HubInv
             /\ script = "gateway" => BootInv
             /\ script = "portainer" => EdgeInv)
BY QuotaHolds, SyncHolds, VerifyHolds, HubHolds, BootHolds, EdgeHolds, PTL

(* Every state of every script is well-typed.                               *)
THEOREM ScriptsTyped == Spec => []TypeOK
<1>1. VerifyInv => Verify!TypeOK
  BY ApartBySize, SameSizes DEF VerifyInv, NodeSets, OneListEach, Verify!TypeOK
<1>2. (/\ script = "quota" => QuotaInv
       /\ script = "keysync" => SyncInv
       /\ script = "preflight" => VerifyInv
       /\ script = "beszel" => HubInv
       /\ script = "gateway" => BootInv
       /\ script = "portainer" => EdgeInv) => TypeOK
  BY <1>1, EdgeMeans DEF TypeOK, QuotaInv, QuotaTypes, SyncInv, HubInv, BootInv
<1> QED BY <1>2, ScriptsHold, PTL

(* Whatever fails, whatever answer is lost and whatever users, nodes and    *)
(* earlier runs change meanwhile, a script that ends well has done what it  *)
(* is run for: all accounts and settings are in place                       *)
(* (quota-failover.py:130-174), all keys are let in                         *)
(* (pgstore-keys.py:258-267), all nodes pass (verify-preflight.py:150-164), *)
(* each system is in the hub or the run was refused its addition            *)
(* (bootstrap.py:52-60), the edges serve the commit or have lost the route  *)
(* (the workflows' last step).                                             *)
THEOREM GreenMeansIt == Spec => []GreenIsTrue
<1>1. SyncInv => Sync!GreenMeansUsable
  BY DEF SyncInv, Bounded, LetIn, Sync!TypeOK, Sync!GreenMeansUsable
<1>2. VerifyInv => Verify!GreenMeansSafe
  BY DEF VerifyInv, NodeSets, SafeInv, Sorted, Finished, Verify!GreenMeansSafe
<1>3. HubInv => Hub!GreenMeansAdded
  BY DEF HubInv, Complete, Hub!TypeOK, Hub!GreenMeansAdded
<1>4. (/\ script = "quota" => QuotaInv
       /\ script = "keysync" => SyncInv
       /\ script = "preflight" => VerifyInv
       /\ script = "beszel" => HubInv
       /\ script = "gateway" => BootInv
       /\ script = "portainer" => EdgeInv) => GreenIsTrue
  BY <1>1, <1>2, <1>3, QuotaMeans, EdgeMeans DEF GreenIsTrue
<1> QED BY <1>4, ScriptsHold, PTL

(* Neither script that calls the management API comes near the five refused *)
(* keys that ban an address (quota-failover.py:62, pgstore-keys.py:204),    *)
(* even when the key is changed under it between two calls.                *)
THEOREM NoBan == Spec => []NeverBanned
<1>1. SyncInv => Sync!NeverBanned
  BY DEF SyncInv, Bounded, Sync!NeverBanned
<1>2. (script = "quota" => QuotaInv) /\ (script = "keysync" => SyncInv) => NeverBanned
  BY <1>1, QuotaMeans DEF NeverBanned
<1> QED BY <1>2, QuotaHolds, SyncHolds, PTL

(* Whichever command of the two workflows fails, in the run or in the       *)
(* recovery, wherever the runner is lost, and whenever Docker restarts an   *)
(* edge: a recovery that succeeded has both edges serve what they did, and  *)
(* until then what changed is marked and its old file is kept               *)
(* (deploy-portainer-vpn4.yml:238, test_portainer_vpn4.py:379).             *)
THEOREM RoutesRecover == Spec => []Recovers
<1>1. (script = "portainer" => EdgeInv) => Recovers
  BY EdgeMeans DEF Recovers
<1> QED BY <1>1, EdgeHolds, PTL
=============================================================================
