---------------------------- MODULE DeployProofs ----------------------------
(***************************************************************************)
(* The two workflows of Portainer on vpn4, for any commits and any number   *)
(* of runs, faults and restarts: a green run has done its work, a run that  *)
(* failed and recovered has the edges serve what they did, and wherever it  *)
(* is cut an edge that changed can be brought back.                         *)
(***************************************************************************)
EXTENDS Scripts, Sequences, TLAPS

(* The commands of the four scripts, one by one.                            *)
LEMMA DeployDoes ==
  LET S == Edge!DeployScript
  IN  /\ Len(S) = 15
      /\ S[1].do = "validate" /\ S[2].do = "clear" /\ S[3].do = "copy" /\ S[4].do = "mark" /\ S[5].do = "old-sha"
      /\ S[6].do = "reset" /\ S[7].do = "check" /\ S[8].do = "mark" /\ S[9].do = "start" /\ S[10].do = "mark"
      /\ S[11].do = "recreate" /\ S[12].do = "mark" /\ S[13].do = "recreate" /\ S[14].do = "verify" /\ S[15].do = "commit"
      /\ S[4].on = "pending" /\ S[8].on = "portainer" /\ S[10].on = "caddy" /\ S[11].on = "caddy"
      /\ S[12].on = "nginx" /\ S[13].on = "nginx"
BY DEF Edge!DeployScript, Edge!Change, Edge!Do

LEMMA RemoveDoes ==
  LET S == Edge!RemoveScript
  IN  /\ Len(S) = 18
      /\ S[1].do = "validate" /\ S[2].do = "clear" /\ S[3].do = "copy" /\ S[4].do = "old-sha" /\ S[5].do = "mark"
      /\ S[6].do = "reset" /\ S[7].do = "edit" /\ S[8].do = "edit" /\ S[9].do = "check" /\ S[10].do = "mark"
      /\ S[11].do = "recreate" /\ S[12].do = "mark" /\ S[13].do = "recreate" /\ S[14].do = "check" /\ S[15].do = "mark"
      /\ S[16].do = "down" /\ S[17].do = "verify" /\ S[18].do = "commit"
      /\ S[5].on = "pending" /\ S[7].on = "nginx" /\ S[8].on = "caddy" /\ S[10].on = "caddy"
      /\ S[11].on = "caddy" /\ S[12].on = "nginx" /\ S[13].on = "nginx" /\ S[15].on = "portainer"
BY DEF Edge!RemoveScript, Edge!Change, Edge!Do

LEMMA DeployRecovers ==
  LET S == Edge!DeployRecovery
  IN  /\ Len(S) = 8
      /\ S[1].do = "pending" /\ S[2].do = "restore" /\ S[3].do = "recreate" /\ S[4].do = "restore" /\ S[5].do = "recreate"
      /\ S[6].do = "down" /\ S[7].do = "back" /\ S[8].do = "forget"
      /\ S[1].on = "host" /\ S[2].on = "caddy" /\ S[3].on = "caddy" /\ S[4].on = "nginx"
      /\ S[5].on = "nginx" /\ S[6].on = "portainer" /\ S[7].on = "host" /\ S[8].on = "host"
BY DEF Edge!DeployRecovery, Edge!Restored, Edge!Do

LEMMA RemoveRecovers ==
  LET S == Edge!RemoveRecovery
  IN  /\ Len(S) = 8
      /\ S[1].do = "pending" /\ S[2].do = "back" /\ S[3].do = "restore" /\ S[4].do = "recreate" /\ S[5].do = "restore"
      /\ S[6].do = "recreate" /\ S[7].do = "up" /\ S[8].do = "forget"
      /\ S[1].on = "host" /\ S[2].on = "host" /\ S[3].on = "caddy" /\ S[4].on = "caddy"
      /\ S[5].on = "nginx" /\ S[6].on = "nginx" /\ S[7].on = "portainer" /\ S[8].on = "host"
BY DEF Edge!RemoveRecovery, Edge!Restored, Edge!Do

(* Where a run is.                                                          *)
Place ==
  /\ job \in {"deploy", "remove"}
  /\ pc \in {"idle", "run", "recover", "green", "red", "restored", "broken", "cut"}
  /\ at \in IF pc = "run" THEN 1..(IF job = "deploy" THEN 15 ELSE 18) ELSE IF pc = "recover" THEN 1..8 ELSE {1}

(* The commands that restore the file of an edge, and that mark it; the     *)
(* next one recreates the edge.                                            *)
RestoreOf(e) == (IF job = "deploy" THEN 2 ELSE 3) + (IF e = "caddy" THEN 0 ELSE 2)

ChangeOf(e) == IF e = "caddy" THEN 10 ELSE 12

(* What is done where.                                                      *)
LEMMA NowDeploying ==
  ASSUME Place, pc = "run", job = "deploy"
  PROVE  \/ at = 1 /\ Edge!Now.do = "validate"
         \/ at = 2 /\ Edge!Now.do = "clear"
         \/ at = 3 /\ Edge!Now.do = "copy"
         \/ at = 4 /\ Edge!Now.do = "mark" /\ Edge!Now.on = "pending"
         \/ at = 5 /\ Edge!Now.do = "old-sha"
         \/ at = 6 /\ Edge!Now.do = "reset"
         \/ at = 7 /\ Edge!Now.do = "check"
         \/ at = 8 /\ Edge!Now.do = "mark" /\ Edge!Now.on = "portainer"
         \/ at = 9 /\ Edge!Now.do = "start"
         \/ at = 10 /\ Edge!Now.do = "mark" /\ Edge!Now.on = "caddy"
         \/ at = 11 /\ Edge!Now.do = "recreate" /\ Edge!Now.on = "caddy"
         \/ at = 12 /\ Edge!Now.do = "mark" /\ Edge!Now.on = "nginx"
         \/ at = 13 /\ Edge!Now.do = "recreate" /\ Edge!Now.on = "nginx"
         \/ at = 14 /\ Edge!Now.do = "verify"
         \/ at = 15 /\ Edge!Now.do = "commit"
<1>1. Edge!Now = Edge!DeployScript[at] /\ at \in 1..15
  BY DEF Edge!Now, Edge!Commands, Place
<1> QED BY <1>1, DeployDoes

LEMMA NowRemoving ==
  ASSUME Place, pc = "run", job = "remove"
  PROVE  \/ at = 1 /\ Edge!Now.do = "validate"
         \/ at = 2 /\ Edge!Now.do = "clear"
         \/ at = 3 /\ Edge!Now.do = "copy"
         \/ at = 4 /\ Edge!Now.do = "old-sha"
         \/ at = 5 /\ Edge!Now.do = "mark" /\ Edge!Now.on = "pending"
         \/ at = 6 /\ Edge!Now.do = "reset"
         \/ at = 7 /\ Edge!Now.do = "edit" /\ Edge!Now.on = "nginx"
         \/ at = 8 /\ Edge!Now.do = "edit" /\ Edge!Now.on = "caddy"
         \/ at = 9 /\ Edge!Now.do = "check"
         \/ at = 10 /\ Edge!Now.do = "mark" /\ Edge!Now.on = "caddy"
         \/ at = 11 /\ Edge!Now.do = "recreate" /\ Edge!Now.on = "caddy"
         \/ at = 12 /\ Edge!Now.do = "mark" /\ Edge!Now.on = "nginx"
         \/ at = 13 /\ Edge!Now.do = "recreate" /\ Edge!Now.on = "nginx"
         \/ at = 14 /\ Edge!Now.do = "check"
         \/ at = 15 /\ Edge!Now.do = "mark" /\ Edge!Now.on = "portainer"
         \/ at = 16 /\ Edge!Now.do = "down"
         \/ at = 17 /\ Edge!Now.do = "verify"
         \/ at = 18 /\ Edge!Now.do = "commit"
<1>1. Edge!Now = Edge!RemoveScript[at] /\ at \in 1..18
  BY DEF Edge!Now, Edge!Commands, Place
<1> QED BY <1>1, RemoveDoes

LEMMA NowUndeploying ==
  ASSUME Place, pc = "recover", job = "deploy"
  PROVE  \/ at = 1 /\ Edge!Now.do = "pending" /\ Edge!Now.on = "host"
         \/ at = 2 /\ Edge!Now.do = "restore" /\ Edge!Now.on = "caddy"
         \/ at = 3 /\ Edge!Now.do = "recreate" /\ Edge!Now.on = "caddy"
         \/ at = 4 /\ Edge!Now.do = "restore" /\ Edge!Now.on = "nginx"
         \/ at = 5 /\ Edge!Now.do = "recreate" /\ Edge!Now.on = "nginx"
         \/ at = 6 /\ Edge!Now.do = "down" /\ Edge!Now.on = "portainer"
         \/ at = 7 /\ Edge!Now.do = "back" /\ Edge!Now.on = "host"
         \/ at = 8 /\ Edge!Now.do = "forget" /\ Edge!Now.on = "host"
<1>1. Edge!Now = Edge!DeployRecovery[at] /\ at \in 1..8
  BY DEF Edge!Now, Edge!Commands, Place
<1>2. \/ at = 1 /\ Edge!Now.do = "pending"
      \/ at = 2 /\ Edge!Now.do = "restore"
      \/ at = 3 /\ Edge!Now.do = "recreate"
      \/ at = 4 /\ Edge!Now.do = "restore"
      \/ at = 5 /\ Edge!Now.do = "recreate"
      \/ at = 6 /\ Edge!Now.do = "down"
      \/ at = 7 /\ Edge!Now.do = "back"
      \/ at = 8 /\ Edge!Now.do = "forget"
  BY <1>1, DeployRecovers
<1>3. \/ at = 1 /\ Edge!Now.on = "host"
      \/ at = 2 /\ Edge!Now.on = "caddy"
      \/ at = 3 /\ Edge!Now.on = "caddy"
      \/ at = 4 /\ Edge!Now.on = "nginx"
      \/ at = 5 /\ Edge!Now.on = "nginx"
      \/ at = 6 /\ Edge!Now.on = "portainer"
      \/ at = 7 /\ Edge!Now.on = "host"
      \/ at = 8 /\ Edge!Now.on = "host"
  BY <1>1, DeployRecovers
<1> QED BY <1>2, <1>3

LEMMA NowReturning ==
  ASSUME Place, pc = "recover", job = "remove"
  PROVE  \/ at = 1 /\ Edge!Now.do = "pending" /\ Edge!Now.on = "host"
         \/ at = 2 /\ Edge!Now.do = "back" /\ Edge!Now.on = "host"
         \/ at = 3 /\ Edge!Now.do = "restore" /\ Edge!Now.on = "caddy"
         \/ at = 4 /\ Edge!Now.do = "recreate" /\ Edge!Now.on = "caddy"
         \/ at = 5 /\ Edge!Now.do = "restore" /\ Edge!Now.on = "nginx"
         \/ at = 6 /\ Edge!Now.do = "recreate" /\ Edge!Now.on = "nginx"
         \/ at = 7 /\ Edge!Now.do = "up" /\ Edge!Now.on = "portainer"
         \/ at = 8 /\ Edge!Now.do = "forget" /\ Edge!Now.on = "host"
<1>1. Edge!Now = Edge!RemoveRecovery[at] /\ at \in 1..8
  BY DEF Edge!Now, Edge!Commands, Place
<1>2. \/ at = 1 /\ Edge!Now.do = "pending"
      \/ at = 2 /\ Edge!Now.do = "back"
      \/ at = 3 /\ Edge!Now.do = "restore"
      \/ at = 4 /\ Edge!Now.do = "recreate"
      \/ at = 5 /\ Edge!Now.do = "restore"
      \/ at = 6 /\ Edge!Now.do = "recreate"
      \/ at = 7 /\ Edge!Now.do = "up"
      \/ at = 8 /\ Edge!Now.do = "forget"
  BY <1>1, RemoveRecovers
<1>3. \/ at = 1 /\ Edge!Now.on = "host"
      \/ at = 2 /\ Edge!Now.on = "host"
      \/ at = 3 /\ Edge!Now.on = "caddy"
      \/ at = 4 /\ Edge!Now.on = "caddy"
      \/ at = 5 /\ Edge!Now.on = "nginx"
      \/ at = 6 /\ Edge!Now.on = "nginx"
      \/ at = 7 /\ Edge!Now.on = "portainer"
      \/ at = 8 /\ Edge!Now.on = "host"
  BY <1>1, RemoveRecovers
<1> QED BY <1>2, <1>3

LEMMA Where ==
  ASSUME Place
  PROVE  /\ Edge!At("validate") => pc = "run" /\ at = 1
         /\ Edge!At("check") => pc = "run" /\ at \in IF job = "deploy" THEN {7} ELSE {9, 14}
         /\ Edge!At("clear") => pc = "run" /\ at = 2
         /\ Edge!At("copy") => pc = "run" /\ at = 3
         /\ Edge!At("mark") =>
              /\ pc = "run"
              /\ \/ at = (IF job = "deploy" THEN 4 ELSE 5) /\ Edge!Now.on = "pending"
                 \/ at = (IF job = "deploy" THEN 8 ELSE 15) /\ Edge!Now.on = "portainer"
                 \/ at = 10 /\ Edge!Now.on = "caddy"
                 \/ at = 12 /\ Edge!Now.on = "nginx"
         /\ Edge!At("old-sha") => pc = "run" /\ at = IF job = "deploy" THEN 5 ELSE 4
         /\ Edge!At("reset") => pc = "run" /\ at = 6
         /\ Edge!At("edit") =>
              /\ pc = "run" /\ job = "remove"
              /\ (at = 7 /\ Edge!Now.on = "nginx") \/ (at = 8 /\ Edge!Now.on = "caddy")
         /\ Edge!At("start") => pc = "run" /\ job = "deploy" /\ at = 9
         /\ Edge!At("recreate") =>
              /\ Edge!Now.on \in {"caddy", "nginx"}
              /\ at = (IF pc = "run" THEN ChangeOf(Edge!Now.on) ELSE RestoreOf(Edge!Now.on)) + 1
         /\ Edge!At("verify") => pc = "run" /\ at = IF job = "deploy" THEN 14 ELSE 17
         /\ Edge!At("commit") => pc = "run" /\ at = IF job = "deploy" THEN 15 ELSE 18
         /\ Edge!At("down") =>
              \/ pc = "run" /\ job = "remove" /\ at = 16
              \/ pc = "recover" /\ job = "deploy" /\ at = 6 /\ Edge!Now.on = "portainer"
         /\ Edge!At("pending") => pc = "recover" /\ at = 1
         /\ Edge!At("restore") => pc = "recover" /\ Edge!Now.on \in {"caddy", "nginx"} /\ at = RestoreOf(Edge!Now.on)
         /\ Edge!At("back") => pc = "recover" /\ at = IF job = "deploy" THEN 7 ELSE 2
         /\ Edge!At("up") => pc = "recover" /\ job = "remove" /\ at = 7
         /\ Edge!At("forget") => pc = "recover" /\ at = 8
         /\ pc = "recover" /\ at = 8 => Edge!At("forget") /\ Edge!Now.on = "host"
         /\ Edge!At("pending") => Edge!Now.on = "host"
         /\ pc = "recover" => \A e \in {"caddy", "nginx"} : at \in {RestoreOf(e), RestoreOf(e) + 1} => Edge!Now.on = e
<1>1. CASE pc = "run" /\ job = "deploy"
  BY <1>1, NowDeploying DEF Edge!At, RestoreOf, ChangeOf
<1>2. CASE pc = "run" /\ job = "remove"
  BY <1>2, NowRemoving DEF Edge!At, RestoreOf, ChangeOf
<1>3. CASE pc = "recover" /\ job = "deploy"
  BY <1>3, NowUndeploying DEF Edge!At, RestoreOf, ChangeOf
<1>4. CASE pc = "recover" /\ job = "remove"
  BY <1>4, NowReturning DEF Edge!At, RestoreOf, ChangeOf
<1>5. CASE pc \notin {"run", "recover"}
  BY <1>5 DEF Edge!At
<1> QED BY <1>1, <1>2, <1>3, <1>4, <1>5 DEF Place

----------------------------------------------------------------------------
(* The transaction directories, and what else a run remembers.              *)
Txn == [marks : SUBSET (Edge!Edges \cup {"pending", "portainer"}), copies : {<<>>} \cup [Edge!Edges -> Edge!File],
        old : {<<>>} \cup {<<c>> : c \in Commits}]

EdgeTypes ==
  /\ Place /\ failed \in BOOLEAN /\ own \in BOOLEAN /\ (pc = "run" => ~failed)
  /\ head \in Commits /\ target \in Commits
  /\ disk \in [Edge!Edges -> Edge!File] /\ live \in [Edge!Edges -> Edge!File]
  /\ up \subseteq Edge!Services /\ owed \subseteq {"deploy", "remove"} /\ restarted \subseteq Edge!Edges
  /\ txn \in [{"deploy", "remove"} -> Txn]
  /\ \A j \in {"deploy", "remove"} : txn[j].marks # {} => txn[j].copies # <<>>
  /\ start.disk \in [Edge!Edges -> Edge!File] /\ start.live \in [Edge!Edges -> Edge!File]

(* A run changes nothing before it has copied the files, and marks what it  *)
(* changes before it does.                                                 *)
Marked ==
  pc = "run" =>
    /\ at <= 3 =>
         /\ ~own /\ disk = start.disk
         /\ \A e \in Edge!Edges \ restarted : live[e] = start.live[e]
    /\ at = 3 => txn[job].marks = {}
    /\ at > 3 => own /\ txn[job].copies = start.disk
    /\ at > (IF job = "deploy" THEN 4 ELSE 5) => "pending" \in txn[job].marks
    /\ \A e \in Edge!Edges : at > ChangeOf(e) => e \in txn[job].marks

(* Marks and copies of a run stay until it has ended.                       *)
Kept ==
  own /\ pc \in {"run", "recover", "cut"} =>
    /\ txn[job].marks = {} \/ txn[job].copies = start.disk
    /\ \A e \in Edge!Edges \ restarted : live[e] # start.live[e] => {"pending", e} \subseteq txn[job].marks

(* A recovery restores an edge that is marked, file first.                  *)
Returned ==
  pc = "recover" =>
    /\ at > 1 => "pending" \in txn[job].marks
    /\ ~failed =>
         \A e \in Edge!Edges : e \in txn[job].marks =>
           /\ at = RestoreOf(e) + 1 => disk[e] = txn[job].copies[e]
           /\ at > RestoreOf(e) + 1 /\ e \notin restarted => live[e] = txn[job].copies[e]

(* What a run has done when it has come as far.                             *)
Achieved ==
  pc = "run" =>
    /\ \A e \in Edge!Edges : at > ChangeOf(e) + 1 => live[e] = disk[e]
    /\ job = "deploy" =>
         /\ at > 6 => head = target /\ disk = Edge!Committed(target)
         /\ at > 9 => up = Edge!Services
    /\ job = "remove" =>
         /\ at > 7 => ~disk["nginx"].route
         /\ at > 8 => ~disk["caddy"].route
         /\ at > 16 => up = {}

EdgeInv == EdgeTypes /\ Marked /\ Kept /\ Returned /\ Achieved /\ Edge!RoutesComeBack /\ Edge!GreenMeansDone

LEMMA EdgeInitial == Edge!DeployAssumption /\ Edge!Init => EdgeInv
<1> SUFFICES ASSUME Edge!DeployAssumption, Edge!Init PROVE EdgeInv
  OBVIOUS
<1>1. head \in Commits /\ disk = Edge!Committed(head) /\ live = disk /\ up \subseteq Edge!Services /\ pc = "idle"
  BY DEF Edge!Init
<1>2. disk \in [Edge!Edges -> Edge!File]
  BY <1>1 DEF Edge!Committed, Edge!File
<1>3. Edge!NoTxn \in Txn
  BY DEF Edge!NoTxn, Txn
<1>4. txn \in [{"deploy", "remove"} -> Txn]
  BY <1>3 DEF Edge!Init
<1>5. \A j \in {"deploy", "remove"} : txn[j].marks = {}
  BY DEF Edge!Init, Edge!NoTxn
<1>6. Place /\ failed \in BOOLEAN /\ own \in BOOLEAN /\ target \in Commits /\ owed = {} /\ restarted = {}
  BY DEF Edge!Init, Place
<1>7. start.disk = disk /\ start.live = live
  BY DEF Edge!Init
<1> QED
  BY <1>1, <1>2, <1>4, <1>5, <1>6, <1>7
  DEF EdgeInv, EdgeTypes, Marked, Kept, Returned, Achieved, Edge!RoutesComeBack, Edge!GreenMeansDone

(* A step of a run that is under way.                                       *)
OfRun == (Edge!Job /\ ~Edge!Begin) \/ Edge!Cut

(* How a run goes on: to the next command, to the recovery, or to its end.  *)
GoesOn ==
  /\ pc \in {"run", "recover"} /\ Edge!Now.do \notin {"commit", "forget"}
  /\ at' = at + 1 /\ pc' = pc /\ failed' = failed

Stops == pc \in {"run", "recover"} /\ pc' \in {"green", "red", "restored", "broken", "cut"} /\ at' = 1 /\ failed' = failed

Stumbles ==
  /\ pc \in {"run", "recover"} /\ Edge!Now.do \notin {"commit", "forget"}
  /\ Edge!Fails

LEMMA EdgeMoves ==
  ASSUME Place, OfRun
  PROVE  /\ UNCHANGED <<job, target, start, restarted>> /\ (GoesOn \/ Stumbles \/ Stops)
         /\ (own' = own) \/ (Edge!At("copy") /\ own' = TRUE)
         /\ GoesOn /\ Edge!At("copy") => own' = TRUE
<1> USE DEF Edge!Command, Edge!Rest, Edge!host, Edge!At, GoesOn, Stops, Stumbles
<1>1. CASE Edge!Check
  BY <1>1 DEF Edge!Check
<1>2. CASE Edge!Clear
  BY <1>2 DEF Edge!Clear
<1>3. CASE Edge!Copy
  BY <1>3 DEF Edge!Copy
<1>4. CASE Edge!Mark
  BY <1>4 DEF Edge!Mark
<1>5. CASE Edge!OldSha
  BY <1>5 DEF Edge!OldSha
<1>6. CASE Edge!Reset
  BY <1>6 DEF Edge!Reset
<1>7. CASE Edge!Edit
  BY <1>7 DEF Edge!Edit
<1>8. CASE Edge!Recreate
  BY <1>8 DEF Edge!Recreate
<1>9. CASE Edge!Started
  BY <1>9 DEF Edge!Started
<1>10. CASE Edge!Down
  BY <1>10 DEF Edge!Down
<1>11. CASE Edge!Verify
  BY <1>11 DEF Edge!Verify
<1>12. CASE Edge!Pending
  BY <1>12, Where DEF Edge!Pending, Edge!Goto
<1>13. CASE Edge!NotMarked
  BY <1>13, Where DEF Edge!NotMarked
<1>14. CASE Edge!Restore
  BY <1>14 DEF Edge!Restore
<1>15. CASE Edge!Back
  BY <1>15 DEF Edge!Back
<1>16. CASE Edge!UpPortainer
  BY <1>16 DEF Edge!UpPortainer
<1>17. CASE Edge!Commit
  BY <1>17 DEF Edge!Commit, Edge!Goto
<1>18. CASE Edge!Forget
  BY <1>18 DEF Edge!Forget, Edge!Goto
<1>19. CASE Edge!Cut
  BY <1>19 DEF Edge!Cut, Edge!Goto
<1> QED BY <1>1, <1>2, <1>3, <1>4, <1>5, <1>6, <1>7, <1>8, <1>9, <1>10, <1>11, <1>12, <1>13, <1>14, <1>15, <1>16, <1>17, <1>18, <1>19 DEF OfRun, Edge!Job

LEMMA EdgePlace ==
  ASSUME Jobs \subseteq {"deploy", "remove"}, Place, failed \in BOOLEAN, own \in BOOLEAN, target \in Commits, Edge!Next
  PROVE  Place' /\ failed' \in BOOLEAN /\ own' \in BOOLEAN /\ target' \in Commits
<1>1. CASE Edge!Begin
  <2>1. pc' = "run" /\ at' = 1 /\ job' \in {"deploy", "remove"} /\ target' \in Commits
    BY <1>1 DEF Edge!Begin
  <2>2. failed' = FALSE /\ own' = FALSE
    BY <1>1 DEF Edge!Begin
  <2>3. Place'
    BY <2>1 DEF Place
  <2> QED BY <2>1, <2>2, <2>3
<1>2. CASE OfRun
  <2>1. job' = job /\ target' = target /\ own' \in BOOLEAN
    BY <1>2, EdgeMoves
  <2>2. CASE GoesOn
    <3>1. at + 1 \in IF pc = "run" THEN 1..(IF job = "deploy" THEN 15 ELSE 18) ELSE 1..8
      BY <2>2, NowDeploying, NowRemoving, NowUndeploying, NowReturning DEF Place, GoesOn
    <3> QED BY <2>1, <2>2, <3>1 DEF Place, GoesOn
  <2>3. CASE Stumbles
    <3>1. at + 1 \in 1..8 \/ pc = "run"
      BY <2>3, NowUndeploying, NowReturning DEF Place, Stumbles
    <3>2. CASE pc = "run"
      BY <2>1, <2>3, <3>2 DEF Place, Stumbles, Edge!Fails, Edge!Goto
    <3>3. CASE pc = "recover"
      BY <2>1, <2>3, <3>1, <3>3 DEF Place, Stumbles, Edge!Fails
    <3> QED BY <2>3, <3>2, <3>3 DEF Stumbles
  <2>4. CASE Stops
    BY <2>1, <2>4 DEF Place, Stops
  <2> QED BY <1>2, EdgeMoves, <2>2, <2>3, <2>4
<1>3. CASE \E e \in Edge!Edges : Edge!Restart(e)
  BY <1>3 DEF Edge!Restart, Place
<1> QED BY <1>1, <1>2, <1>3 DEF Edge!Next, OfRun

(* What a step may do to the files, to what is served, to the containers,   *)
(* and what it has done when the run goes on.                              *)
DiskChange ==
  \/ UNCHANGED <<head, disk>>
  \/ Edge!At("reset") /\ head' = target /\ disk' = Edge!Committed(target)
  \/ Edge!At("edit") /\ UNCHANGED head /\ disk' = [disk EXCEPT ![Edge!Now.on].route = FALSE]
  \/ /\ Edge!At("restore") /\ Edge!Now.on \in txn[job].marks /\ UNCHANGED head
     /\ disk' = [disk EXCEPT ![Edge!Now.on] = txn[job].copies[Edge!Now.on]]
  \/ /\ Edge!At("back") /\ txn[job].old # <<>> 
     /\ head' = txn[job].old[1] /\ disk' = Edge!Committed(head')

GoesWell == GoesOn /\ ~failed'

DiskDone ==
  GoesWell =>
    /\ Edge!At("reset") => head' = target /\ disk' = Edge!Committed(target)
    /\ Edge!At("edit") => disk' = [disk EXCEPT ![Edge!Now.on].route = FALSE]
    /\ Edge!At("restore") /\ Edge!Now.on \in txn[job].marks =>
         disk' = [disk EXCEPT ![Edge!Now.on] = txn[job].copies[Edge!Now.on]]

LiveChange ==
  \/ UNCHANGED live
  \/ /\ Edge!At("recreate") /\ (pc = "recover" => Edge!Now.on \in txn[job].marks)
     /\ live' = [live EXCEPT ![Edge!Now.on] = disk[Edge!Now.on]]

LiveDone ==
  GoesWell /\ Edge!At("recreate") /\ (pc = "recover" => Edge!Now.on \in txn[job].marks) =>
    live' = [live EXCEPT ![Edge!Now.on] = disk[Edge!Now.on]]

UpChange ==
  \/ UNCHANGED up
  \/ Edge!At("start") /\ up' = Edge!Services
  \/ Edge!At("down") /\ up' = {}
  \/ Edge!At("up") /\ up' = up \cup {"portainer"}

OwedChange == owed' \in {owed, owed \ {job}, owed \cup {job}}

UpDone ==
  GoesWell =>
    /\ Edge!At("start") => up' = Edge!Services
    /\ Edge!At("down") /\ (pc = "recover" => Edge!Now.on \in txn[job].marks) => up' = {}

TxnChange ==
  \/ UNCHANGED txn
  \/ /\ Edge!At("clear") \/ (Edge!At("commit") /\ pc' = "green") \/ (Edge!At("forget") /\ pc' = "restored")
     /\ txn' = [txn EXCEPT ![job] = Edge!NoTxn]
  \/ Edge!At("copy") /\ txn' = [txn EXCEPT ![job].copies = disk]
  \/ Edge!At("mark") /\ txn' = [txn EXCEPT ![job].marks = @ \cup {Edge!Now.on}]
  \/ Edge!At("old-sha") /\ txn' = [txn EXCEPT ![job].old = <<head>>]

TxnDone ==
  GoesWell =>
    /\ Edge!At("clear") => txn' = [txn EXCEPT ![job] = Edge!NoTxn]
    /\ Edge!At("copy") => txn' = [txn EXCEPT ![job].copies = disk]
    /\ Edge!At("mark") => txn' = [txn EXCEPT ![job].marks = @ \cup {Edge!Now.on}]

EndDone ==
  /\ Edge!At("pending") /\ pc' = "recover" => "pending" \in txn[job].marks
  /\ pc' = "restored" => Edge!At("forget") /\ ~failed
  /\ pc' = "green" => Edge!At("commit")

LEMMA EdgeDoes ==
  ASSUME Place, OfRun
  PROVE  (DiskChange /\ DiskDone) /\ (LiveChange /\ LiveDone) /\ (UpChange /\ UpDone) /\ OwedChange
         /\ (TxnChange /\ TxnDone) /\ EndDone
<1> USE DEF Edge!Command, Edge!Fails, Edge!host, Edge!At, Edge!Checkout, GoesOn, GoesWell,
           DiskChange, DiskDone, LiveChange, LiveDone, UpChange, UpDone, OwedChange, TxnChange, TxnDone, EndDone, Edge!Goto
<1>1. CASE Edge!Check
  BY <1>1 DEF Edge!Check
<1>2. CASE Edge!Clear
  BY <1>2 DEF Edge!Clear
<1>3. CASE Edge!Copy
  BY <1>3 DEF Edge!Copy
<1>4. CASE Edge!Mark
  BY <1>4 DEF Edge!Mark
<1>5. CASE Edge!OldSha
  BY <1>5 DEF Edge!OldSha
<1>6. CASE Edge!Reset
  BY <1>6 DEF Edge!Reset
<1>7. CASE Edge!Edit
  BY <1>7 DEF Edge!Edit
<1>8. CASE Edge!Recreate
  BY <1>8 DEF Edge!Recreate
<1>9. CASE Edge!Started
  BY <1>9 DEF Edge!Started
<1>10. CASE Edge!Down
  BY <1>10 DEF Edge!Down
<1>11. CASE Edge!Verify
  BY <1>11 DEF Edge!Verify
<1>12. CASE Edge!Pending
  BY <1>12 DEF Edge!Pending
<1>13. CASE Edge!NotMarked
  BY <1>13, Where DEF Edge!NotMarked
<1>14. CASE Edge!Restore
  BY <1>14 DEF Edge!Restore
<1>15. CASE Edge!Back
  BY <1>15 DEF Edge!Back
<1>16. CASE Edge!UpPortainer
  BY <1>16 DEF Edge!UpPortainer
<1>17. CASE Edge!Commit
  BY <1>17 DEF Edge!Commit
<1>18. CASE Edge!Forget
  BY <1>18 DEF Edge!Forget
<1>19. CASE Edge!Cut
  BY <1>19 DEF Edge!Cut
<1> QED BY <1>1, <1>2, <1>3, <1>4, <1>5, <1>6, <1>7, <1>8, <1>9, <1>10, <1>11, <1>12, <1>13, <1>14, <1>15, <1>16, <1>17, <1>18, <1>19 DEF OfRun, Edge!Job

(* The directory of the run after a step.                                   *)
Grows ==
  LET t == txn[job]
      u == txn'[job]
  IN  /\ \/ u = t
         \/ u = Edge!NoTxn /\ ((pc = "run" /\ at = 2) \/ pc' \in {"green", "restored"})
         \/ Edge!At("copy") /\ u = [t EXCEPT !.copies = disk]
         \/ Edge!At("mark") /\ u = [t EXCEPT !.marks = @ \cup {Edge!Now.on}]
         \/ Edge!At("old-sha") /\ u = [t EXCEPT !.old = <<head>>]
      /\ GoesWell =>
           /\ Edge!At("clear") => u = Edge!NoTxn
           /\ Edge!At("copy") => u = [t EXCEPT !.copies = disk]
           /\ Edge!At("mark") => u = [t EXCEPT !.marks = @ \cup {Edge!Now.on}]
      /\ txn' = [txn EXCEPT ![job] = u]

LEMMA TxnGrows ==
  ASSUME EdgeTypes, OfRun
  PROVE  Grows
<1>1. Place /\ txn \in [{"deploy", "remove"} -> Txn] /\ job \in {"deploy", "remove"}
  BY DEF EdgeTypes, Place
<1>2. TxnChange /\ TxnDone
  BY <1>1, EdgeDoes
<1> QED BY <1>1, <1>2, Where DEF TxnChange, TxnDone, Grows

LEMMA TwoFiles ==
  ASSUME NEW f \in [Edge!Edges -> Edge!File]
  PROVE  f # <<>> /\ f["caddy"] \in Edge!File /\ f["nginx"] \in Edge!File
<1>1. "caddy" \in DOMAIN f /\ "caddy" \notin DOMAIN <<>>
  BY DEF Edge!Edges
<1> QED BY <1>1 DEF Edge!Edges

LEMMA CommitsFiles ==
  ASSUME NEW c \in Commits
  PROVE  /\ Edge!Committed(c) \in [Edge!Edges -> Edge!File]
         /\ \A e \in Edge!Edges : Edge!Committed(c)[e] = [of |-> c, route |-> c \in Routed]
<1>1. [of |-> c, route |-> c \in Routed] \in Edge!File
  BY DEF Edge!File
<1> QED BY <1>1 DEF Edge!Committed

LEMMA DiskTyped ==
  ASSUME EdgeTypes, OfRun
  PROVE  head' \in Commits /\ disk' \in [Edge!Edges -> Edge!File]
<1>1. DiskChange
  BY EdgeDoes DEF EdgeTypes
<1>2. /\ Place /\ head \in Commits /\ target \in Commits /\ disk \in [Edge!Edges -> Edge!File]
      /\ job \in {"deploy", "remove"} /\ txn[job] \in Txn
      /\ txn[job].marks # {} => txn[job].copies # <<>>
  BY DEF EdgeTypes, Place
<1>3. CASE UNCHANGED <<head, disk>>
  BY <1>2, <1>3
<1>4. CASE head' = target /\ disk' = Edge!Committed(target)
  BY <1>2, <1>4, CommitsFiles
<1>5. CASE Edge!At("edit") /\ UNCHANGED head /\ disk' = [disk EXCEPT ![Edge!Now.on].route = FALSE]
  <2>1. Edge!Now.on \in Edge!Edges
    BY <1>2, <1>5, Where DEF Edge!Edges
  <2>2. [disk[Edge!Now.on] EXCEPT !.route = FALSE] \in Edge!File
    BY <1>2, <2>1 DEF Edge!File
  <2> QED BY <1>2, <1>5, <2>1, <2>2
<1>6. CASE /\ Edge!At("restore") /\ Edge!Now.on \in txn[job].marks /\ UNCHANGED head
           /\ disk' = [disk EXCEPT ![Edge!Now.on] = txn[job].copies[Edge!Now.on]]
  <2>1. Edge!Now.on \in Edge!Edges
    BY <1>2, <1>6, Where DEF Edge!Edges
  <2>2. txn[job].copies \in [Edge!Edges -> Edge!File]
    BY <1>2, <1>6 DEF Txn
  <2> QED BY <1>2, <1>6, <2>1, <2>2
<1>7. CASE txn[job].old # <<>> /\ head' = txn[job].old[1] /\ disk' = Edge!Committed(head')
  <2>1. head' \in Commits
    BY <1>2, <1>7 DEF Txn
  <2> QED BY <1>7, <2>1, CommitsFiles
<1> QED BY <1>1, <1>3, <1>4, <1>5, <1>6, <1>7 DEF DiskChange

LEMMA TxnTyped ==
  ASSUME EdgeTypes, Marked, OfRun
  PROVE  /\ txn' \in [{"deploy", "remove"} -> Txn]
         /\ \A j \in {"deploy", "remove"} : txn'[j].marks # {} => txn'[j].copies # <<>>
<1>1. Grows /\ Place
  BY TxnGrows DEF EdgeTypes
<1> DEFINE t == txn[job]
           u == txn'[job]
<1>2. t \in Txn /\ (t.marks # {} => t.copies # <<>>) /\ disk \in [Edge!Edges -> Edge!File] /\ head \in Commits
  BY <1>1 DEF EdgeTypes, Place
<1>3. u \in Txn /\ (u.marks # {} => u.copies # <<>>)
  <2> HIDE DEF t, u
  <2>1. CASE u = t
    BY <1>2, <2>1
  <2>2. CASE u = Edge!NoTxn
    BY <2>2 DEF Edge!NoTxn, Txn
  <2>3. CASE u = [t EXCEPT !.copies = disk]
    BY <1>2, <2>3, TwoFiles DEF Txn
  <2>4. CASE Edge!At("mark") /\ u = [t EXCEPT !.marks = @ \cup {Edge!Now.on}]
    <3>1. Edge!Now.on \in Edge!Edges \cup {"pending", "portainer"} /\ pc = "run" /\ at > 3
      BY <1>1, <2>4, Where DEF Edge!Edges
    <3>2. t.copies # <<>>
      BY <3>1, TwoFiles DEF Marked, EdgeTypes, t
    <3> QED BY <1>2, <2>4, <3>1, <3>2 DEF Txn
  <2>5. CASE u = [t EXCEPT !.old = <<head>>]
    BY <1>2, <2>5 DEF Txn
  <2> QED BY <1>1, <2>1, <2>2, <2>3, <2>4, <2>5 DEF Grows, t, u
<1>4. txn' = [txn EXCEPT ![job] = u]
  BY <1>1 DEF Grows
<1> QED BY <1>1, <1>3, <1>4 DEF EdgeTypes, Place

LEMMA LiveTyped ==
  ASSUME EdgeTypes, OfRun
  PROVE  /\ live' \in [Edge!Edges -> Edge!File] /\ up' \subseteq Edge!Services
         /\ owed' \subseteq {"deploy", "remove"}
<1>1. LiveChange /\ UpChange /\ OwedChange
  BY EdgeDoes DEF EdgeTypes
<1>2. Place /\ live \in [Edge!Edges -> Edge!File] /\ disk \in [Edge!Edges -> Edge!File] /\ up \subseteq Edge!Services
  BY DEF EdgeTypes
<1>3. live' \in [Edge!Edges -> Edge!File]
  BY <1>1, <1>2, Where DEF LiveChange, Edge!Edges
<1>4. up' \subseteq Edge!Services
  BY <1>1, <1>2 DEF UpChange, Edge!Services
<1>5. owed' \subseteq {"deploy", "remove"}
  BY <1>1 DEF OwedChange, EdgeTypes, Place
<1> QED BY <1>3, <1>4, <1>5

LEMMA EdgeTyped ==
  ASSUME Edge!DeployAssumption, EdgeTypes, Marked, Edge!Next
  PROVE  EdgeTypes'
<1>1. Place' /\ failed' \in BOOLEAN /\ own' \in BOOLEAN /\ target' \in Commits
  BY EdgePlace DEF EdgeTypes, Edge!DeployAssumption
<1>2. CASE Edge!Begin
  <2>1. /\ UNCHANGED <<head, disk, live, up, txn, owed>> /\ failed' = FALSE /\ restarted' = {}
        /\ start' = [disk |-> disk, live |-> live, up |-> up]
    BY <1>2 DEF Edge!Begin, Edge!host
  <2>2. start'.disk = disk /\ start'.live = live
    BY <2>1
  <2> QED BY <1>1, <2>1, <2>2 DEF EdgeTypes
<1>3. CASE OfRun
  <2>1. UNCHANGED <<start, restarted>> /\ (GoesOn \/ Stumbles \/ Stops)
    BY <1>3, EdgeMoves DEF EdgeTypes
  <2>2. pc' = "run" => ~failed'
    <3>1. CASE pc = "run"
      BY <2>1, <3>1 DEF EdgeTypes, GoesOn, Stumbles, Stops, Edge!Fails, Edge!Goto
    <3>2. CASE pc # "run"
      BY <2>1, <3>2 DEF GoesOn, Stumbles, Stops, Edge!Fails
    <3> QED BY <3>1, <3>2
  <2> QED BY <1>1, <1>3, <2>1, <2>2, DiskTyped, LiveTyped, TxnTyped DEF EdgeTypes
<1>4. ASSUME NEW e \in Edge!Edges, Edge!Restart(e)
      PROVE  EdgeTypes'
  <2>1. /\ UNCHANGED <<head, disk, up, txn, owed, start, pc, failed>>
        /\ live' = [live EXCEPT ![e] = disk[e]] /\ restarted' = restarted \cup {e}
    BY <1>4 DEF Edge!Restart
  <2>2. live' \in [Edge!Edges -> Edge!File] /\ restarted' \subseteq Edge!Edges
    BY <2>1 DEF EdgeTypes
  <2> QED BY <1>1, <2>1, <2>2 DEF EdgeTypes
<1> QED BY <1>2, <1>3, <1>4 DEF Edge!Next, OfRun

----------------------------------------------------------------------------
(* Which command is next, by the place in the script.                       *)
LEMMA ThereInRun ==
  ASSUME Place, pc = "run"
  PROVE  /\ at = 2 => Edge!At("clear")
         /\ at = 3 => Edge!At("copy")
         /\ at = (IF job = "deploy" THEN 4 ELSE 5) => Edge!At("mark") /\ Edge!Now.on = "pending"
         /\ \A e \in Edge!Edges :
              /\ at = ChangeOf(e) => Edge!At("mark") /\ Edge!Now.on = e
              /\ at = ChangeOf(e) + 1 => Edge!At("recreate") /\ Edge!Now.on = e
         /\ at = 6 => Edge!At("reset")
         /\ job = "deploy" /\ at = 9 => Edge!At("start")
         /\ job = "remove" =>
              /\ at = 7 => Edge!At("edit") /\ Edge!Now.on = "nginx"
              /\ at = 8 => Edge!At("edit") /\ Edge!Now.on = "caddy"
              /\ at = 16 => Edge!At("down")
<1>1. CASE job = "deploy"
  BY <1>1, NowDeploying DEF Edge!At, ChangeOf, Edge!Edges
<1>2. CASE job = "remove"
  BY <1>2, NowRemoving DEF Edge!At, ChangeOf, Edge!Edges
<1> QED BY <1>1, <1>2 DEF Place

LEMMA ThereInRecovery ==
  ASSUME Place, pc = "recover"
  PROVE  /\ at = 1 => Edge!At("pending")
         /\ \A e \in Edge!Edges :
              /\ at = RestoreOf(e) => Edge!At("restore") /\ Edge!Now.on = e
              /\ at = RestoreOf(e) + 1 => Edge!At("recreate") /\ Edge!Now.on = e
<1>1. CASE job = "deploy"
  BY <1>1, NowUndeploying DEF Edge!At, RestoreOf, Edge!Edges
<1>2. CASE job = "remove"
  BY <1>2, NowReturning DEF Edge!At, RestoreOf, Edge!Edges
<1> QED BY <1>1, <1>2 DEF Place

(* A run that goes on has not failed, and a recovery stays with its job.    *)
LEMMA RunGoesWell ==
  ASSUME EdgeTypes, OfRun, pc' = "run"
  PROVE  pc = "run" /\ GoesWell /\ at' = at + 1
<1>1. GoesOn \/ Stumbles \/ Stops
  BY EdgeMoves DEF EdgeTypes
<1>2. pc = "run"
  BY <1>1 DEF GoesOn, Stumbles, Stops, Edge!Fails, Edge!Goto
<1>3. GoesOn
  BY <1>1, <1>2 DEF Stumbles, Stops, Edge!Fails, Edge!Goto
<1> QED BY <1>2, <1>3 DEF GoesOn, GoesWell, EdgeTypes

(* The directory of the run between its copy and its end.                   *)
LEMMA TxnKeeps ==
  ASSUME EdgeTypes, OfRun, pc' \in {"run", "recover", "cut"}, ~(pc = "run" /\ at \in {2, 3})
  PROVE  /\ txn'[job].copies = txn[job].copies /\ txn[job].marks \subseteq txn'[job].marks
         /\ txn'[job].marks # txn[job].marks => pc = "run" /\ at > 3
<1> DEFINE t == txn[job]
           u == txn'[job]
<1>1. Grows /\ Place /\ t \in Txn
  BY TxnGrows DEF EdgeTypes, Place
<1>2. u = t \/ (Edge!At("mark") /\ u = [t EXCEPT !.marks = @ \cup {Edge!Now.on}]) \/ u = [t EXCEPT !.old = <<head>>]
  BY <1>1, Where DEF Grows
<1>3. Edge!At("mark") => pc = "run" /\ at > 3
  BY <1>1, Where
<1> QED BY <1>1, <1>2, <1>3 DEF Txn

LEMMA MarkedStep ==
  ASSUME EdgeInv, OfRun
  PROVE  Marked'
<1> SUFFICES ASSUME pc' = "run"
             PROVE  Marked'
  BY DEF Marked
<1> DEFINE t == txn[job]
           u == txn'[job]
<1>1. EdgeTypes /\ Marked /\ Place
  BY DEF EdgeInv, EdgeTypes
<1>2. pc = "run" /\ GoesWell /\ at' = at + 1 /\ at \in 1..18
  BY <1>1, RunGoesWell DEF Place
<1>3. UNCHANGED <<job, target, start, restarted>> /\ (own' = own \/ Edge!At("copy")) /\ (at = 3 => own' = TRUE)
  BY <1>1, <1>2, EdgeMoves, ThereInRun DEF GoesWell
<1>4. at' <= 3 =>
        /\ ~own' /\ disk' = start.disk
        /\ \A e \in Edge!Edges \ restarted : live'[e] = start.live[e]
  <2> SUFFICES ASSUME at <= 2
               PROVE  ~own' /\ disk' = disk /\ live' = live
    BY <1>1, <1>2 DEF Marked
  <2>1. ~own'
    BY <1>1, <1>2, <1>3, Where DEF Marked
  <2>2. disk' = disk
    BY <1>1, <1>2, EdgeDoes, Where DEF DiskChange
  <2>3. live' = live
    BY <1>1, <1>2, EdgeDoes, Where DEF LiveChange, ChangeOf
  <2> QED BY <2>1, <2>2, <2>3
<1>5. at' = 3 => u.marks = {}
  BY <1>1, <1>2, TxnGrows, ThereInRun DEF Grows, Edge!NoTxn
<1>6. at' > 3 => own' /\ u.copies = start.disk
  <2>1. CASE at = 3
    <3>1. u = [t EXCEPT !.copies = disk] /\ t \in Txn
      BY <1>1, <1>2, <2>1, TxnGrows, ThereInRun DEF Grows, EdgeTypes, Place
    <3> QED BY <1>1, <1>2, <1>3, <2>1, <3>1 DEF Marked, Txn
  <2>2. CASE at > 3
    <3>1. own /\ txn[job].copies = start.disk
      BY <1>1, <1>2, <2>2 DEF Marked
    <3>2. ~Edge!At("copy")
      BY <1>1, <2>2, Where
    <3>3. own'
      BY <1>3, <3>1, <3>2
    <3> QED BY <1>1, <1>2, <2>2, <3>1, <3>3, TxnKeeps
  <2> QED BY <1>2, <2>1, <2>2
<1>7. ASSUME Edge!At("mark")
      PROVE  Edge!Now.on \in u.marks
  <2>1. u = [t EXCEPT !.marks = @ \cup {Edge!Now.on}] /\ t \in Txn
    BY <1>1, <1>2, <1>7, TxnGrows DEF Grows, EdgeTypes, Place
  <2> QED BY <2>1 DEF Txn
<1>8. at > 3 => t.marks \subseteq u.marks
  BY <1>1, <1>2, TxnKeeps
<1>9. at' > (IF job = "deploy" THEN 4 ELSE 5) => "pending" \in u.marks
  BY <1>1, <1>2, <1>7, <1>8, ThereInRun DEF Marked
<1>10. \A e \in Edge!Edges : at' > ChangeOf(e) => e \in u.marks
  BY <1>1, <1>2, <1>7, <1>8, ThereInRun DEF Marked, ChangeOf
<1> QED BY <1>2, <1>3, <1>4, <1>5, <1>6, <1>9, <1>10 DEF Marked, ChangeOf

LEMMA KeptStep ==
  ASSUME EdgeInv, OfRun
  PROVE  Kept'
<1> SUFFICES ASSUME own', pc' \in {"run", "recover", "cut"}
             PROVE  /\ txn'[job].marks = {} \/ txn'[job].copies = start.disk
                    /\ \A e \in Edge!Edges \ restarted :
                         live'[e] # start.live[e] => {"pending", e} \subseteq txn'[job].marks
  BY EdgeMoves DEF Kept, EdgeInv, EdgeTypes
<1>1. EdgeTypes /\ Marked /\ Kept /\ Returned /\ Place /\ pc \in {"run", "recover"}
  BY EdgeMoves DEF EdgeInv, EdgeTypes, GoesOn, Stumbles, Stops
<1>2. (own' = own) \/ Edge!At("copy")
  BY <1>1, EdgeMoves
<1>3. CASE Edge!At("copy")
  <2>1. pc = "run" /\ at = 3
    BY <1>1, <1>3, Where
  <2>2. txn[job].marks = {} /\ \A e \in Edge!Edges \ restarted : live[e] = start.live[e]
    BY <1>1, <2>1 DEF Marked
  <2>3. live' = live
    BY <1>1, <2>1, EdgeDoes, Where DEF LiveChange, ChangeOf
  <2>4. txn'[job] = txn[job] \/ txn'[job] = [txn[job] EXCEPT !.copies = disk]
    BY <1>1, <1>3, <2>1, TxnGrows, Where DEF Grows
  <2>5. txn'[job].marks = {}
    BY <1>1, <2>2, <2>4 DEF EdgeTypes, Place, Txn
  <2> QED BY <2>2, <2>3, <2>5
<1>4. CASE ~Edge!At("copy")
  <2>1. own /\ (pc = "run" => at > 3)
    <3>1. own
      BY <1>2, <1>4
    <3>2. pc = "run" => at \in 1..18 /\ ~(at <= 3)
      BY <1>1, <3>1 DEF Marked, Place
    <3> QED BY <3>1, <3>2
  <2>2. /\ txn'[job].copies = txn[job].copies /\ txn[job].marks \subseteq txn'[job].marks
        /\ txn'[job].marks # txn[job].marks => pc = "run" /\ at > 3
    BY <1>1, <2>1, TxnKeeps
  <2>3. txn'[job].marks = {} \/ txn'[job].copies = start.disk
    BY <1>1, <2>1, <2>2 DEF Kept, Marked
  <2>4. ASSUME NEW e \in Edge!Edges \ restarted, live'[e] # start.live[e]
        PROVE  {"pending", e} \subseteq txn[job].marks
    <3>1. CASE live'[e] = live[e]
      BY <1>1, <2>1, <2>4, <3>1 DEF Kept
    <3>2. CASE live'[e] # live[e]
      <4>1. Edge!At("recreate") /\ Edge!Now.on = e /\ (pc = "recover" => e \in txn[job].marks)
        BY <1>1, <3>2, EdgeDoes, Where DEF LiveChange, EdgeTypes, Edge!Edges
      <4>2. CASE pc = "run"
        BY <1>1, <4>1, <4>2, Where DEF Marked, ChangeOf
      <4>3. CASE pc = "recover"
        BY <1>1, <4>1, <4>3, Where DEF Returned, RestoreOf
      <4> QED BY <1>1, <4>2, <4>3
    <3> QED BY <3>1, <3>2
  <2> QED BY <2>2, <2>3, <2>4
<1> QED BY <1>3, <1>4

LEMMA ReturnedStep ==
  ASSUME EdgeInv, OfRun
  PROVE  Returned'
<1> SUFFICES ASSUME pc' = "recover"
             PROVE  Returned'
  BY DEF Returned
<1>1. EdgeTypes /\ Returned /\ Place
  BY DEF EdgeInv, EdgeTypes
<1>2. UNCHANGED <<job, target, start, restarted>> /\ (GoesOn \/ Stumbles \/ Stops)
  BY <1>1, EdgeMoves
<1>3. CASE pc = "run"
  <2>1. at' = 1
    BY <1>2, <1>3 DEF GoesOn, Stumbles, Stops, Edge!Fails, Edge!Goto
  <2> QED BY <1>2, <2>1 DEF Returned, RestoreOf
<1>4. CASE pc = "recover"
  <2>1. at' = at + 1 /\ (~failed' => GoesWell /\ ~failed) /\ at \in 1..8
    BY <1>1, <1>2, <1>4 DEF GoesOn, GoesWell, Stumbles, Stops, Edge!Fails, Place
  <2>2. txn'[job] = txn[job]
    BY <1>1, <1>4, TxnGrows, Where DEF Grows
  <2>3. at' > 1 => "pending" \in txn'[job].marks
    BY <1>1, <1>4, <2>1, <2>2, EdgeDoes, ThereInRecovery DEF EndDone, Returned
  <2>4. ASSUME ~failed', NEW e \in Edge!Edges, e \in txn[job].marks
        PROVE  /\ at' = RestoreOf(e) + 1 => disk'[e] = txn[job].copies[e]
               /\ at' > RestoreOf(e) + 1 /\ e \notin restarted => live'[e] = txn[job].copies[e]
    <3>1. GoesWell /\ ~failed /\ RestoreOf(e) \in Nat
      BY <2>1, <2>4 DEF RestoreOf
    <3>2. CASE at = RestoreOf(e)
      <4>1. disk' = [disk EXCEPT ![e] = txn[job].copies[e]]
        BY <1>1, <1>4, <2>4, <3>1, <3>2, EdgeDoes, ThereInRecovery DEF DiskDone
      <4>2. disk'[e] = txn[job].copies[e]
        BY <1>1, <4>1 DEF EdgeTypes
      <4> QED BY <2>1, <3>1, <3>2, <4>2
    <3>3. CASE at = RestoreOf(e) + 1
      <4>1. live' = [live EXCEPT ![e] = disk[e]]
        BY <1>1, <1>4, <2>4, <3>1, <3>3, EdgeDoes, ThereInRecovery DEF LiveDone
      <4>2. live'[e] = disk[e] /\ disk[e] = txn[job].copies[e]
        BY <1>1, <1>4, <2>4, <3>1, <3>3, <4>1 DEF EdgeTypes, Returned
      <4> QED BY <2>1, <3>1, <3>3, <4>2
    <3>4. CASE at > RestoreOf(e) + 1
      <4>1. Edge!At("recreate") => Edge!Now.on # e
        BY <1>1, <1>4, <3>1, <3>4, Where
      <4>2. live'[e] = live[e]
        BY <1>1, <4>1, EdgeDoes DEF LiveChange, EdgeTypes
      <4> QED BY <1>1, <1>4, <2>1, <2>4, <3>1, <3>4, <4>2 DEF Returned
    <3> QED BY <2>1, <3>1, <3>2, <3>3, <3>4
  <2> QED BY <1>2, <2>2, <2>3, <2>4 DEF Returned, RestoreOf
<1> QED BY <1>2, <1>3, <1>4 DEF GoesOn, Stumbles, Stops

LEMMA AchievedStep ==
  ASSUME EdgeInv, OfRun
  PROVE  Achieved'
<1> SUFFICES ASSUME pc' = "run"
             PROVE  Achieved'
  BY DEF Achieved
<1>1. EdgeTypes /\ Achieved /\ Place
  BY DEF EdgeInv, EdgeTypes
<1>2. pc = "run" /\ GoesWell /\ at' = at + 1 /\ at \in 1..18
  BY <1>1, RunGoesWell DEF Place
<1>3. UNCHANGED <<job, target>>
  BY <1>1, EdgeMoves
<1>4. (DiskChange /\ DiskDone) /\ (LiveChange /\ LiveDone) /\ (UpChange /\ UpDone)
  BY <1>1, EdgeDoes
<1>5. ASSUME NEW e \in Edge!Edges, at' > ChangeOf(e) + 1
      PROVE  live'[e] = disk'[e]
  <2>1. disk' = disk /\ at > 8
    BY <1>1, <1>2, <1>4, <1>5, Where DEF DiskChange, ChangeOf
  <2>2. CASE at = ChangeOf(e) + 1
    BY <1>1, <1>2, <1>4, <2>1, <2>2, ThereInRun DEF LiveDone, EdgeTypes
  <2>3. CASE at # ChangeOf(e) + 1
    <3>1. live'[e] = live[e]
      BY <1>1, <1>2, <1>4, <2>3, Where DEF LiveChange, EdgeTypes
    <3> QED BY <1>1, <1>2, <1>5, <2>1, <2>3, <3>1 DEF Achieved, ChangeOf
  <2> QED BY <2>2, <2>3
<1>6. ASSUME job = "deploy"
      PROVE  /\ at' > 6 => head' = target /\ disk' = Edge!Committed(target)
             /\ at' > 9 => up' = Edge!Services
  <2>1. at' > 6 => head' = target /\ disk' = Edge!Committed(target)
    <3>1. CASE at = 6
      BY <1>1, <1>2, <1>4, <3>1, ThereInRun DEF DiskDone
    <3>2. CASE at > 6
      BY <1>1, <1>2, <1>4, <1>6, <3>2, Where DEF DiskChange, Achieved
    <3> QED BY <1>2, <3>1, <3>2
  <2>2. at' > 9 => up' = Edge!Services
    <3>1. CASE at = 9
      BY <1>1, <1>2, <1>4, <1>6, <3>1, ThereInRun DEF UpDone
    <3>2. CASE at > 9
      BY <1>1, <1>2, <1>4, <1>6, <3>2, Where DEF UpChange, Achieved
    <3> QED BY <1>2, <3>1, <3>2
  <2> QED BY <2>1, <2>2
<1>7. ASSUME job = "remove"
      PROVE  /\ at' > 7 => ~disk'["nginx"].route
             /\ at' > 8 => ~disk'["caddy"].route
             /\ at' > 16 => up' = {}
  <2>1. at = 7 => disk' = [disk EXCEPT !["nginx"].route = FALSE]
    BY <1>1, <1>2, <1>4, <1>7, ThereInRun DEF DiskDone
  <2>2. at = 8 => disk' = [disk EXCEPT !["caddy"].route = FALSE]
    BY <1>1, <1>2, <1>4, <1>7, ThereInRun DEF DiskDone
  <2>3. at > 8 => disk' = disk
    BY <1>1, <1>2, <1>4, <1>7, Where DEF DiskChange
  <2>4. at' > 7 => ~disk'["nginx"].route
    <3>1. CASE at = 7
      BY <1>1, <2>1, <3>1 DEF EdgeTypes, Edge!Edges, Edge!File
    <3>2. CASE at = 8
      BY <1>1, <1>2, <1>7, <2>2, <3>2 DEF Achieved, EdgeTypes, Edge!Edges
    <3>3. CASE at > 8
      BY <1>1, <1>2, <1>7, <2>3, <3>3 DEF Achieved
    <3> QED BY <1>2, <3>1, <3>2, <3>3
  <2>5. at' > 8 => ~disk'["caddy"].route
    <3>1. CASE at = 8
      BY <1>1, <2>2, <3>1 DEF EdgeTypes, Edge!Edges, Edge!File
    <3>2. CASE at > 8
      BY <1>1, <1>2, <1>7, <2>3, <3>2 DEF Achieved
    <3> QED BY <1>2, <3>1, <3>2
  <2>6. at' > 16 => up' = {}
    <3>1. CASE at = 16
      BY <1>1, <1>2, <1>4, <1>7, <3>1, ThereInRun DEF UpDone
    <3>2. CASE at > 16
      BY <1>1, <1>2, <1>4, <1>7, <3>2, Where DEF UpChange, Achieved
    <3> QED BY <1>2, <3>1, <3>2
  <2> QED BY <2>4, <2>5, <2>6
<1> QED BY <1>3, <1>5, <1>6, <1>7 DEF Achieved, ChangeOf

LEMMA RoutesStep ==
  ASSUME EdgeInv, OfRun
  PROVE  Edge!RoutesComeBack'
<1> SUFFICES ASSUME pc' = "restored", Edge!Clean'
             PROVE  Edge!RoutesComeBack'
  BY DEF Edge!RoutesComeBack
<1>1. EdgeTypes /\ Kept /\ Returned /\ Place
  BY DEF EdgeInv, EdgeTypes
<1>2. Edge!At("forget") /\ ~failed
  BY <1>1, EdgeDoes DEF EndDone
<1>3. pc = "recover" /\ at = 8
  BY <1>1, <1>2, Where
<1>4. UNCHANGED <<start, restarted>> /\ own' = own
  BY <1>1, <1>3, EdgeMoves, Where
<1>5. own /\ start.disk = start.live
  BY <1>4 DEF Edge!Clean
<1>6. live' = live
  BY <1>1, <1>3, EdgeDoes, Where DEF LiveChange, RestoreOf
<1>7. ASSUME NEW e \in Edge!Edges \ restarted
      PROVE  live[e] = start.live[e]
  <2>1. CASE e \in txn[job].marks
    BY <1>1, <1>2, <1>3, <1>5, <2>1 DEF Kept, Returned, RestoreOf
  <2>2. CASE e \notin txn[job].marks
    BY <1>1, <1>3, <1>5, <2>2 DEF Kept
  <2> QED BY <2>1, <2>2
<1> QED BY <1>4, <1>6, <1>7 DEF Edge!RoutesComeBack

LEMMA GreenStep ==
  ASSUME EdgeInv, OfRun
  PROVE  Edge!GreenMeansDone'
<1> SUFFICES ASSUME pc' = "green"
             PROVE  Edge!GreenMeansDone'
  BY DEF Edge!GreenMeansDone
<1>1. EdgeTypes /\ Achieved /\ Place
  BY DEF EdgeInv, EdgeTypes
<1>2. pc = "run" /\ at = IF job = "deploy" THEN 15 ELSE 18
  BY <1>1, EdgeDoes, Where DEF EndDone
<1>3. UNCHANGED <<head, disk, live, up, job, target>>
  BY <1>1, <1>2, EdgeMoves, EdgeDoes, Where DEF DiskChange, LiveChange, UpChange, ChangeOf
<1>4. \A e \in Edge!Edges : live[e] = disk[e]
  BY <1>1, <1>2 DEF Achieved, ChangeOf
<1>5. CASE job = "deploy"
  BY <1>1, <1>2, <1>3, <1>4, <1>5 DEF Achieved, Edge!GreenMeansDone, EdgeTypes
<1>6. CASE job = "remove"
  BY <1>1, <1>2, <1>3, <1>4, <1>6 DEF Achieved, Edge!GreenMeansDone, Edge!Edges
<1> QED BY <1>1, <1>5, <1>6 DEF Place

LEMMA BeginStep ==
  ASSUME Edge!DeployAssumption, EdgeInv, Edge!Begin
  PROVE  EdgeInv'
<1>1. EdgeTypes'
  BY EdgeTyped DEF EdgeInv, Edge!Next, Edge!Job
<1>2. /\ pc' = "run" /\ at' = 1 /\ own' = FALSE /\ restarted' = {} /\ UNCHANGED <<disk, live, txn>>
      /\ start' = [disk |-> disk, live |-> live, up |-> up]
  BY DEF Edge!Begin, Edge!host
<1>3. start'.disk = disk /\ start'.live = live
  BY <1>2
<1> QED BY <1>1, <1>2, <1>3
        DEF EdgeInv, Marked, Kept, Returned, Achieved, Edge!RoutesComeBack, Edge!GreenMeansDone, ChangeOf

LEMMA RestartStep ==
  ASSUME Edge!DeployAssumption, EdgeInv, NEW e \in Edge!Edges, Edge!Restart(e)
  PROVE  EdgeInv'
<1>1. EdgeTypes' /\ EdgeTypes
  BY EdgeTyped DEF EdgeInv, Edge!Next
<1>2. /\ UNCHANGED <<head, disk, up, txn, job, target, pc, at, failed, start, own>>
      /\ live' = [live EXCEPT ![e] = disk[e]] /\ restarted' = restarted \cup {e}
  BY DEF Edge!Restart
<1>3. \A f \in Edge!Edges : /\ f \notin restarted' => f \notin restarted /\ live'[f] = live[f]
                            /\ live'[f] = live[f] \/ live'[f] = disk[f]
  BY <1>1, <1>2 DEF EdgeTypes
<1>4. Marked'
  BY <1>1, <1>2, <1>3 DEF EdgeInv, Marked, ChangeOf
<1>5. Kept' /\ Edge!RoutesComeBack'
  BY <1>1, <1>2, <1>3 DEF EdgeInv, Kept, Edge!RoutesComeBack, Edge!Clean
<1>6. Returned'
  BY <1>1, <1>2, <1>3 DEF EdgeInv, Returned, RestoreOf
<1>7. Achieved'
  BY <1>1, <1>2, <1>3 DEF EdgeInv, Achieved, ChangeOf
<1>8. Edge!GreenMeansDone'
  BY <1>1, <1>2, <1>3 DEF EdgeInv, EdgeTypes, Edge!GreenMeansDone
<1> QED BY <1>1, <1>4, <1>5, <1>6, <1>7, <1>8 DEF EdgeInv

LEMMA EdgeStep == Edge!DeployAssumption /\ EdgeInv /\ [Edge!Next]_(Edge!vars) => EdgeInv'
<1> SUFFICES ASSUME Edge!DeployAssumption, EdgeInv, [Edge!Next]_(Edge!vars)
             PROVE  EdgeInv'
  OBVIOUS
<1>1. CASE OfRun
  BY <1>1, EdgeTyped, MarkedStep, KeptStep, ReturnedStep, AchievedStep, RoutesStep, GreenStep
  DEF EdgeInv, Edge!Next, OfRun
<1>2. CASE Edge!Begin
  BY <1>2, BeginStep
<1>3. CASE \E e \in Edge!Edges : Edge!Restart(e)
  BY <1>3, RestartStep
<1>4. CASE UNCHANGED Edge!vars
  BY <1>4
  DEF Edge!vars, Edge!host, Edge!count, Edge!history, EdgeInv, EdgeTypes, Place, Marked, Kept, Returned, Achieved,
      Edge!RoutesComeBack, Edge!GreenMeansDone, Edge!Clean, ChangeOf, RestoreOf
<1> QED BY <1>1, <1>2, <1>3, <1>4 DEF OfRun, Edge!Next, Edge!Job

(* What the invariant says of the properties.                               *)
LEMMA EdgeMeans == EdgeInv => Edge!TypeOK /\ Edge!RoutesComeBack /\ Edge!Recoverable /\ Edge!GreenMeansDone
<1> SUFFICES ASSUME EdgeInv
             PROVE  Edge!TypeOK /\ Edge!Recoverable
  BY DEF EdgeInv
<1>1. Edge!TypeOK
  BY DEF EdgeInv, EdgeTypes, Place, Txn, Edge!TypeOK
<1>2. Edge!Recoverable
  BY DEF EdgeInv, Kept, Edge!Recoverable, Edge!Clean
<1> QED BY <1>1, <1>2
=============================================================================
