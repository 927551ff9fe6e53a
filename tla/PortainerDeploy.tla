--------------------------- MODULE PortainerDeploy ---------------------------
(***************************************************************************)
(* deploy-portainer-vpn4.yml and rollback-portainer-vpn4.yml: two workflows *)
(* that change the checkout, the two edge containers and Portainer itself   *)
(* on vpn4, each with a transaction directory from which its last step      *)
(* recovers when an earlier one failed.  One runs at a time.  Any command   *)
(* may fail, a run may be cut short with no recovery (a cancelled or lost   *)
(* runner), and an edge container may be restarted by Docker.               *)
(*                                                                         *)
(* An edge reads its file only when it is created or restarted, so what it  *)
(* serves (live) and what is on disk are two things.                        *)
(***************************************************************************)
EXTENDS Integers, Sequences, FiniteSets

CONSTANTS
  Commits, Routed,  \* commits, and those whose edge files route to Portainer
  Jobs,             \* the workflows that are run
  Cuts,             \* a run can be cut short
  MaxJobs, MaxFaults, MaxRestarts     \* bounds

DeployAssumption ==
  /\ Commits \subseteq Nat /\ Routed \subseteq Commits /\ Jobs \subseteq {"deploy", "remove"}
  /\ Cuts \in BOOLEAN /\ {MaxJobs, MaxFaults, MaxRestarts} \subseteq Nat

VARIABLES
  head, disk,      \* the checkout's commit, and its two edge files
  live, up,        \* what each edge serves; the containers of portainer-vpn4
  txn,             \* the transaction directory of each workflow
  job, target,     \* the run's workflow and commit
  pc, at, failed,  \* its phase, next command, and ROLLBACK_FAILED
  jobs, faults, restarts,
  start, own, restarted, owed  \* history: see Begin, Copy, Restart and Forget

host == <<head, disk, live, up, txn>>
count == <<jobs, faults, restarts>>
history == <<start, own, restarted, owed>>
vars == <<host, job, target, pc, at, failed, count, history>>

Edges == {"caddy", "nginx"}
Services == {"portainer", "portainer-oauth2-proxy"}
File == [of : Commits, route : BOOLEAN]
Committed(c) == [e \in Edges |-> [of |-> c, route |-> c \in Routed]]
NoTxn == [marks |-> {}, copies |-> <<>>, old |-> <<>>]   \* no such directory

TypeOK ==
  /\ head \in Commits /\ disk \in [Edges -> File] /\ live \in [Edges -> File]
  /\ up \subseteq Services
  /\ \A j \in {"deploy", "remove"} :
       /\ txn[j].marks \subseteq Edges \cup {"pending", "portainer"}
       /\ txn[j].copies \in {<<>>} \cup [Edges -> File]
       /\ txn[j].old \in {<<>>} \cup {<<c>> : c \in Commits}
       /\ txn[j].marks # {} => txn[j].copies # <<>>
  /\ pc \in {"idle", "run", "recover", "green", "red", "restored", "broken", "cut"}
  /\ job \in {"deploy", "remove"} /\ target \in Commits /\ at \in Nat \ {0}
  /\ failed \in BOOLEAN /\ owed \subseteq {"deploy", "remove"}

(* With or without Portainer, as the commit has it.                        *)
Init ==
  /\ head \in Commits /\ disk = Committed(head) /\ live = disk
  /\ up = (IF head \in Routed THEN Services ELSE {})
  /\ txn = [j \in {"deploy", "remove"} |-> NoTxn]
  /\ job = "deploy" /\ target = head /\ pc = "idle" /\ at = 1 /\ failed = FALSE
  /\ jobs = 0 /\ faults = 0 /\ restarts = 0
  /\ start = [disk |-> disk, live |-> live, up |-> up]
  /\ own = FALSE /\ restarted = {} /\ owed = {}

----------------------------------------------------------------------------
(* The commands of each workflow, in order, and what each is done to.       *)
Do(c, on) == [do |-> c, on |-> on]

(* mutant: an edge is marked after it was recreated *)
ChangeMarkedLate(e) == <<Do("recreate", e), Do("mark", e)>>

Change(e) == <<Do("mark", e), Do("recreate", e)>>

(* mutant: the files are not copied first *)
DeployScriptNoCopy ==
  <<Do("validate", "host"), Do("clear", "host"), Do("mark", "pending"),
    Do("old-sha", "host"), Do("reset", "host"), Do("check", "host"), Do("mark", "portainer"), Do("start", "host")>>
  \o Change("caddy") \o Change("nginx") \o <<Do("verify", "host"), Do("commit", "host")>>

DeployScript ==
  <<Do("validate", "host"), Do("clear", "host"), Do("copy", "host"), Do("mark", "pending"),
    Do("old-sha", "host"), Do("reset", "host"), Do("check", "host"), Do("mark", "portainer"), Do("start", "host")>>
  \o Change("caddy") \o Change("nginx") \o <<Do("verify", "host"), Do("commit", "host")>>

(* mutant: the route stays in the Caddyfile *)
RemoveScriptNginxOnly ==
  <<Do("validate", "host"), Do("clear", "host"), Do("copy", "host"), Do("old-sha", "host"),
    Do("mark", "pending"), Do("reset", "host"), Do("edit", "nginx"), Do("check", "host")>>
  \o Change("caddy") \o Change("nginx")
  \o <<Do("check", "host"), Do("mark", "portainer"), Do("down", "host"), Do("verify", "host"), Do("commit", "host")>>

RemoveScript ==
  <<Do("validate", "host"), Do("clear", "host"), Do("copy", "host"), Do("old-sha", "host"),
    Do("mark", "pending"), Do("reset", "host"), Do("edit", "nginx"), Do("edit", "caddy"), Do("check", "host")>>
  \o Change("caddy") \o Change("nginx")
  \o <<Do("check", "host"), Do("mark", "portainer"), Do("down", "host"), Do("verify", "host"), Do("commit", "host")>>

Restored(e) == <<Do("restore", e), Do("recreate", e)>>

DeployRecovery ==
  <<Do("pending", "host")>> \o Restored("caddy") \o Restored("nginx")
  \o <<Do("down", "portainer"), Do("back", "host"), Do("forget", "host")>>

RemoveRecovery ==
  <<Do("pending", "host"), Do("back", "host")>> \o Restored("caddy") \o Restored("nginx")
  \o <<Do("up", "portainer"), Do("forget", "host")>>

Commands ==
  IF pc = "run" THEN (IF job = "deploy" THEN DeployScript ELSE RemoveScript)
  ELSE IF job = "deploy" THEN DeployRecovery ELSE RemoveRecovery

Now == Commands[at]
At(c) == pc \in {"run", "recover"} /\ Now.do = c

----------------------------------------------------------------------------
Rest == UNCHANGED <<job, target, jobs, restarts, start, restarted>>
Goto(p) == pc' = p /\ at' = 1 /\ UNCHANGED failed

(* A command that fails ends the script (set -e); in the recovery it is     *)
(* noted by rollback_run, which goes on.                                   *)
Fails ==
  IF pc = "run" THEN Goto("recover") ELSE failed' = TRUE /\ at' = at + 1 /\ UNCHANGED pc

Command(effect) ==
  \/ effect /\ at' = at + 1 /\ UNCHANGED <<pc, failed, faults>>
  \/ (effect \/ UNCHANGED host) /\ Fails /\ faults < MaxFaults /\ faults' = faults + 1

Begin ==
  /\ pc \notin {"run", "recover"} /\ jobs < MaxJobs /\ jobs' = jobs + 1
  /\ job' \in Jobs /\ target' \in Commits /\ pc' = "run" /\ at' = 1 /\ failed' = FALSE
  /\ start' = [disk |-> disk, live |-> live, up |-> up] /\ own' = FALSE /\ restarted' = {}
  /\ UNCHANGED <<host, faults, restarts, owed>>

(* Secrets, DNS, nginx -t, caddy validate, the members of the network, the  *)
(* containers running, the DERP probe.                                     *)
Check ==
  /\ (At("validate") \/ At("check")) /\ UNCHANGED <<own, owed>> /\ Rest
  /\ Command(UNCHANGED host)

Clear ==
  /\ At("clear") /\ UNCHANGED <<own, owed>> /\ Rest
  /\ Command(txn' = [txn EXCEPT ![job] = NoTxn] /\ UNCHANGED <<head, disk, live, up>>)

Copy ==
  /\ At("copy") /\ own' = TRUE /\ UNCHANGED owed /\ Rest
  /\ Command(txn' = [txn EXCEPT ![job].copies = disk] /\ UNCHANGED <<head, disk, live, up>>)

Mark ==
  /\ At("mark") /\ UNCHANGED <<own, owed>> /\ Rest
  /\ Command(txn' = [txn EXCEPT ![job].marks = @ \cup {Now.on}] /\ UNCHANGED <<head, disk, live, up>>)

OldSha ==
  /\ At("old-sha") /\ UNCHANGED <<own, owed>> /\ Rest
  /\ Command(txn' = [txn EXCEPT ![job].old = <<head>>] /\ UNCHANGED <<head, disk, live, up>>)

Checkout(c) == head' = c /\ disk' = Committed(c) /\ UNCHANGED <<live, up, txn>>

Reset == At("reset") /\ Command(Checkout(target)) /\ UNCHANGED <<own, owed>> /\ Rest

(* The route out of nginx.conf, remove-caddy-site.py: neither accepts a     *)
(* file without the route.                                                 *)
Edit ==
  /\ At("edit") /\ UNCHANGED <<own, owed>> /\ Rest
  /\ IF disk[Now.on].route
     THEN Command(disk' = [disk EXCEPT ![Now.on].route = FALSE] /\ UNCHANGED <<head, live, up, txn>>)
     ELSE Fails /\ UNCHANGED <<host, faults>>

Recreate ==
  /\ At("recreate") /\ (pc = "recover" => Now.on \in txn[job].marks)
  /\ Command(live' = [live EXCEPT ![Now.on] = disk[Now.on]] /\ UNCHANGED <<head, disk, up, txn>>)
  /\ UNCHANGED <<own, owed>> /\ Rest

Started ==
  /\ At("start") /\ UNCHANGED <<own, owed>> /\ Rest
  /\ Command(up' = Services /\ UNCHANGED <<head, disk, live, txn>>)

Down ==
  /\ At("down") /\ (pc = "recover" => Now.on \in txn[job].marks)
  /\ Command(up' = {} /\ UNCHANGED <<head, disk, live, txn>>)
  /\ UNCHANGED <<own, owed>> /\ Rest

(* A request from outside reaches the gate, which sends it to the login.    *)
Gated == (\A e \in Edges : live[e].route) /\ "portainer-oauth2-proxy" \in up
Reached == \A e \in Edges : live[e].route

Verify ==
  /\ At("verify") /\ UNCHANGED <<own, owed>> /\ Rest
  /\ IF (job = "deploy" /\ Gated /\ up = Services) \/ (job = "remove" /\ ~Reached /\ up = {})
     THEN Command(UNCHANGED host) ELSE Fails /\ UNCHANGED <<host, faults>>

(* The last step of a run that went well; nothing recovers if it fails.     *)
Commit ==
  /\ At("commit") /\ UNCHANGED own /\ Rest
  /\ \/ /\ txn' = [txn EXCEPT ![job] = NoTxn] /\ owed' = owed \ {job} /\ Goto("green")
        /\ UNCHANGED <<head, disk, live, up, faults>>
     \/ Goto("red") /\ faults < MaxFaults /\ faults' = faults + 1 /\ UNCHANGED <<host, owed>>

----------------------------------------------------------------------------
(* The recovery: only with a marker, and only what was marked.             *)
Pending ==
  /\ At("pending") /\ UNCHANGED <<host, faults, own, owed>> /\ Rest
  /\ IF "pending" \in txn[job].marks THEN at' = at + 1 /\ UNCHANGED <<pc, failed>> ELSE Goto("red")

NotMarked ==
  /\ pc = "recover" /\ Now.on \notin txn[job].marks \cup {"host"}
  /\ at' = at + 1 /\ UNCHANGED <<host, pc, failed, faults, own, owed>> /\ Rest

(* mutant: the file is left as it is *)
RestoreDisk ==
  /\ At("restore") /\ Now.on \in txn[job].marks /\ UNCHANGED <<own, owed>> /\ Rest
  /\ Command(UNCHANGED host)

Restore ==
  /\ At("restore") /\ Now.on \in txn[job].marks /\ UNCHANGED <<own, owed>> /\ Rest
  /\ Command(disk' = [disk EXCEPT ![Now.on] = txn[job].copies[Now.on]] /\ UNCHANGED <<head, live, up, txn>>)

(* git reset --hard; to an empty OLD_SHA it fails.                          *)
Back ==
  /\ At("back") /\ UNCHANGED <<own, owed>> /\ Rest
  /\ IF txn[job].old = <<>> THEN Fails /\ UNCHANGED <<host, faults>> ELSE Command(Checkout(txn[job].old[1]))

(* up -d portainer: one service of the two.                                *)
UpPortainer ==
  /\ At("up") /\ "portainer" \in txn[job].marks /\ UNCHANGED <<own, owed>> /\ Rest
  /\ Command(up' = up \cup {"portainer"} /\ UNCHANGED <<head, disk, live, txn>>)

(* owed: the workflows whose recovery failed and has not succeeded since.   *)
Forget ==
  /\ At("forget") /\ UNCHANGED <<head, disk, live, up, faults, own>> /\ Rest
  /\ IF failed THEN Goto("broken") /\ owed' = owed \cup {job} /\ UNCHANGED txn
     ELSE /\ Goto("restored") /\ owed' = owed \ {job} /\ txn' = [txn EXCEPT ![job] = NoTxn]

Cut ==
  /\ Cuts /\ pc \in {"run", "recover"} /\ Goto("cut")
  /\ faults < MaxFaults /\ faults' = faults + 1
  /\ UNCHANGED <<host, own, owed>> /\ Rest

Restart(e) ==
  /\ restarts < MaxRestarts /\ restarts' = restarts + 1
  /\ live' = [live EXCEPT ![e] = disk[e]] /\ restarted' = restarted \cup {e}
  /\ UNCHANGED <<head, disk, up, txn, job, target, pc, at, failed, jobs, faults, start, own, owed>>

Job ==
  \/ Begin \/ Check \/ Clear \/ Copy \/ Mark \/ OldSha \/ Reset \/ Edit \/ Recreate
  \/ Started \/ Down \/ Verify \/ Commit
  \/ Pending \/ NotMarked \/ Restore \/ Back \/ UpPortainer \/ Forget
Next == Job \/ Cut \/ \E e \in Edges : Restart(e)
Spec == Init /\ [][Next]_vars

----------------------------------------------------------------------------
Clean == own /\ start.disk = start.live

(* A run that failed and recovered leaves both edges serving what they      *)
(* served when it began, wherever it failed, if they served what was on     *)
(* disk then (test_portainer_vpn4.py:379 "Every failure after an ingress    *)
(* change must restore the old routes"); an edge that restarted meanwhile   *)
(* may have taken the candidate's file.                                    *)
RoutesComeBack ==
  pc = "restored" /\ Clean => \A e \in Edges \ restarted : live[e] = start.live[e]

(* Wherever a run is or was cut, an edge that no longer serves what it did  *)
(* is marked, and the directory has its old file.                          *)
Recoverable ==
  pc \in {"run", "recover", "cut"} /\ Clean =>
    \A e \in Edges \ restarted :
      live[e] # start.live[e] => {"pending", e} \subseteq txn[job].marks /\ txn[job].copies[e] = start.live[e]

(* A green deploy serves the commit, on disk and at both edges, with the    *)
(* gate and Portainer up; a green removal has taken away all four.          *)
GreenMeansDone ==
  pc = "green" =>
    IF job = "deploy" THEN head = target /\ disk = Committed(target) /\ live = disk /\ up = Services
    ELSE up = {} /\ \A e \in Edges : ~disk[e].route /\ ~live[e].route

----------------------------------------------------------------------------
(* test_portainer_vpn4.py:690 "rollback recovers original routes and        *)
(* portainer": what was up is up again after a failed removal.             *)
UpComesBack == pc = "restored" /\ Clean /\ job = "remove" => start.up \subseteq up

(* test_portainer_vpn4.py:506 "... leave disk at the candidate revision     *)
(* while Nginx and Caddy still run the old configuration. The next          *)
(* deployment would then treat the wrong files as its rollback baseline":   *)
(* after a recovery the files are those the edges serve.                   *)
DiskIsServed == pc = "restored" /\ Clean /\ restarted = {} => disk = live

(* test_portainer_vpn4.py:488 "leave the only route backups intact": until  *)
(* a recovery has succeeded, the copies of one that failed exist.          *)
BackupsKept == \A j \in owed : txn[j].copies # <<>>

(* deploy-portainer-vpn4.yml:238 "Rollback transaction if deployment or       *)
(* external verification failed": a run that fails before it has changed    *)
(* anything leaves the edges as an earlier, verified one made them.         *)
OnlyOwnChanges == pc \in {"restored", "broken"} /\ ~own /\ restarted = {} => live = start.live
=============================================================================
