------------------------------- MODULE Scripts -------------------------------
(***************************************************************************)
(* The scripts that deployments run, each against its own surroundings.    *)
(* They share no state, so one of them is chosen at the start and moves     *)
(* alone; what each does, and what may happen around it, is in its module. *)
(***************************************************************************)
EXTENDS Naturals

CONSTANTS
  Files, Email, Claude, Targets,                  \* QuotaFailover
  Keys, Wanted, FileKeys,                         \* KeySync
  Nodes,                                          \* Preflight
  Names, MaxRuns,                                 \* Beszel
  MaxVer,                                         \* Gateway
  Commits, Routed, Jobs, Cuts, MaxJobs, MaxRestarts,   \* PortainerDeploy
  KeyFiles, Secrets, WebKeys, FlowLists,          \* ConfigEdits
  Blocks, MaxBlocks,                              \* CaddyEdits
  MaxEdits, MaxFaults

VARIABLES
  script,                                                            \* the one that runs
  pc, at, left, edits, wrong, disk, faults,                          \* of several of them
  files, settings, keyok, list, seen, config, touched,               \* QuotaFailover
  keys, accepted, mgmt, dsn, present, rejected, second, gone,        \* KeySync
  mode, fleet, good, keyless, allowed, denied, errored, moved,       \* Preflight
  admin, systems, have, runs, refused,                                 \* Beszel
  cms, ver, dashboard, auth, ovpn, reporter, fetched,                \* Gateway
  head, live, up, txn, job, target, failed, jobs, restarts, start, own, restarted, owed,  \* PortainerDeploy
  text,                                                              \* ConfigEdits
  lines, blocks                                                      \* CaddyEdits

quota == <<files, settings, keyok, list, seen, config, touched>>
keysync == <<keys, accepted, mgmt, dsn, present, rejected, second, gone>>
preflight == <<mode, fleet, good, keyless, allowed, denied, errored, moved>>
beszel == <<admin, systems, have, runs, refused>>
gateway == <<cms, ver, dashboard, auth, ovpn, reporter, fetched>>
portainer == <<head, live, up, txn, job, target, failed, jobs, restarts, start, own, restarted, owed>>
caddy == <<lines, blocks>>
vars == <<script, pc, at, left, edits, wrong, disk, faults,
          quota, keysync, preflight, beszel, gateway, portainer, text, caddy>>

Quota == INSTANCE QuotaFailover
Sync == INSTANCE KeySync
Verify == INSTANCE Preflight
Hub == INSTANCE Beszel
Boot == INSTANCE Gateway
Edge == INSTANCE PortainerDeploy
Yaml == INSTANCE ConfigEdits
Caddy == INSTANCE CaddyEdits

ASSUME ScriptsAssumption ==
  /\ Quota!FailoverAssumption /\ Sync!KeySyncAssumption
  /\ Verify!PreflightAssumption /\ Hub!BeszelAssumption
  /\ Boot!GatewayAssumption /\ Edge!DeployAssumption
  /\ Yaml!ConfigAssumption /\ Caddy!CaddyAssumption

----------------------------------------------------------------------------
(* A variable no script that runs has.                                     *)
Off(v) == v = 0

Init ==
  /\ script \in {"quota", "keysync", "preflight", "beszel", "gateway", "portainer", "yaml", "caddy"}
  /\ IF script = "quota" THEN Quota!Init
     ELSE Off(files) /\ Off(settings) /\ Off(keyok) /\ Off(list) /\ Off(seen) /\ Off(config) /\ Off(touched)
  /\ IF script = "keysync" THEN Sync!Init
     ELSE /\ Off(keys) /\ Off(accepted) /\ Off(mgmt) /\ Off(dsn)
          /\ Off(present) /\ Off(rejected) /\ Off(second) /\ Off(gone)
  /\ IF script = "preflight" THEN Verify!Init
     ELSE /\ Off(mode) /\ Off(fleet) /\ Off(good) /\ Off(keyless)
          /\ Off(allowed) /\ Off(denied) /\ Off(errored) /\ Off(moved)
  /\ IF script = "beszel" THEN Hub!Init
     ELSE Off(admin) /\ Off(systems) /\ Off(have) /\ Off(runs) /\ Off(refused)
  /\ IF script = "gateway" THEN Boot!Init
     ELSE Off(cms) /\ Off(ver) /\ Off(dashboard) /\ Off(auth) /\ Off(ovpn) /\ Off(reporter) /\ Off(fetched)
  /\ IF script = "portainer" THEN Edge!Init
     ELSE /\ Off(head) /\ Off(live) /\ Off(up) /\ Off(txn) /\ Off(job) /\ Off(target) /\ Off(failed)
          /\ Off(jobs) /\ Off(restarts) /\ Off(start) /\ Off(own) /\ Off(restarted) /\ Off(owed)
  /\ IF script = "yaml" THEN Yaml!Init ELSE Off(text)
  /\ IF script = "caddy" THEN Caddy!Init ELSE Off(lines) /\ Off(blocks)
  /\ script \in {"yaml", "caddy"} => Off(pc)
  /\ script \notin {"quota", "portainer"} => Off(at)
  /\ script \notin {"keysync", "preflight", "beszel"} => Off(left)
  /\ script \notin {"quota", "keysync", "yaml", "caddy"} => Off(edits)
  /\ script \notin {"quota", "keysync"} => Off(wrong)
  /\ script \notin {"gateway", "portainer"} => Off(disk) /\ Off(faults)

Next ==
  \/ /\ script = "quota" /\ Quota!Next
     /\ UNCHANGED <<script, left, disk, faults, keysync, preflight, beszel, gateway, portainer, text, caddy>>
  \/ /\ script = "keysync" /\ Sync!Next
     /\ UNCHANGED <<script, at, disk, faults, quota, preflight, beszel, gateway, portainer, text, caddy>>
  \/ /\ script = "preflight" /\ Verify!Next
     /\ UNCHANGED <<script, at, edits, wrong, disk, faults, quota, keysync, beszel, gateway, portainer, text, caddy>>
  \/ /\ script = "beszel" /\ Hub!Next
     /\ UNCHANGED <<script, at, edits, wrong, disk, faults, quota, keysync, preflight, gateway, portainer, text, caddy>>
  \/ /\ script = "gateway" /\ Boot!Next
     /\ UNCHANGED <<script, at, left, edits, wrong, quota, keysync, preflight, beszel, portainer, text, caddy>>
  \/ /\ script = "portainer" /\ Edge!Next
     /\ UNCHANGED <<script, left, edits, wrong, quota, keysync, preflight, beszel, gateway, text, caddy>>
  \/ /\ script = "yaml" /\ Yaml!Next
     /\ UNCHANGED <<script, pc, at, left, wrong, disk, faults, quota, keysync, preflight, beszel, gateway, portainer, caddy>>
  \/ /\ script = "caddy" /\ Caddy!Next
     /\ UNCHANGED <<script, pc, at, left, wrong, disk, faults, quota, keysync, preflight, beszel, gateway, portainer, text>>

(* Liveness is stated of the gateway alone: its boot goes on, docker        *)
(* restarts it, and its reporter has its turns.                            *)
OfGateway(A) ==
  /\ script = "gateway" /\ A
  /\ UNCHANGED <<script, at, left, edits, wrong, quota, keysync, preflight, beszel, portainer, text, caddy>>

Spec == Init /\ [][Next]_vars /\ WF_vars(OfGateway(Boot!Boot)) /\ WF_vars(OfGateway(Boot!Report))

----------------------------------------------------------------------------
TypeOK ==
  /\ script = "quota" => Quota!TypeOK
  /\ script = "keysync" => Sync!TypeOK
  /\ script = "preflight" => Verify!TypeOK
  /\ script = "beszel" => Hub!TypeOK
  /\ script = "gateway" => Boot!TypeOK
  /\ script = "portainer" => Edge!TypeOK

(* A script that ends well has done what it is run for, though calls failed *)
(* or lost their answers, and though users, nodes and earlier runs changed  *)
(* things under it: every account and setting is in place, every key is let *)
(* in, every node passes, the hub has each system whose addition it did not *)
(* refuse, the edges serve the commit.                                     *)
GreenIsTrue ==
  /\ script = "quota" => Quota!GreenMeansSet
  /\ script = "keysync" => Sync!GreenMeansUsable
  /\ script = "preflight" => Verify!GreenMeansSafe
  /\ script = "beszel" => Hub!GreenMeansAdded
  /\ script = "portainer" => Edge!GreenMeansDone

(* Neither script that calls the management API sends a refused key five    *)
(* times, upon which the proxy would ban the address for half an hour       *)
(* (quota-failover.py:62, pgstore-keys.py:204).                            *)
NeverBanned ==
  /\ script = "quota" => Quota!NeverBanned
  /\ script = "keysync" => Sync!NeverBanned

(* pgstore-keys.py takes no key away, nor one that a user added after it    *)
(* read the list (pgstore-keys.py:20-21), but for the change of stores.     *)
OnlyAdds ==
  [][script = "keysync" /\ Sync!Verify => keys \subseteq keys' \/ pc = "rollback"]_vars

(* The credentials and the client.ovpn of a gateway come from one answer    *)
(* of the dashboard or from the mounted files (entrypoint.sh:50-74).        *)
OneAnswer == script = "gateway" => Boot!OneAnswer

(* A gateway comes back whatever brought it down, once the dashboard holds  *)
(* a good file or gives no answer (entrypoint.sh:140).                     *)
ComesBack == <>[](script = "gateway" /\ Boot!Good) => <>[](script = "gateway" /\ pc = "up")

(* The edges serve what they served before a failed run, or can be brought  *)
(* back to it from what is on disk, wherever the run was cut short          *)
(* (test_portainer_vpn4.py:379).                                           *)
Recovers == script = "portainer" => Edge!RoutesComeBack /\ Edge!Recoverable

(* The scripts that edit text, line by line, change what they are to change *)
(* and nothing else: the affinity, the keys in block and flow form, a whole *)
(* render; the plugin's own switch where its section has the form that      *)
(* merge knows; a site of a Caddyfile whose comments have at most one brace *)
(* too many, with which the file is left alone or changed rightly.          *)
EditsAreTrue ==
  /\ script = "yaml" => Yaml!MergeIsTrue /\ Yaml!AffinityIsTrue /\ Yaml!KeysAreFound /\ Yaml!RenderIsTrue
  /\ script = "caddy" => Caddy!RemoveIsExact /\ Caddy!ReplaceIsExact
=============================================================================
