------------------------------- MODULE Gateway -------------------------------
(***************************************************************************)
(* vpn-gw/entrypoint.sh: the container of the VPN gateway boots, asks the  *)
(* dashboard for its credentials and its client.ovpn, falls back to the    *)
(* files mounted into it, starts tinyproxy and openvpn, and reports.  The  *)
(* reporter compares the dashboard's configVersion with the one the boot   *)
(* wrote down and kills the container to have a new one loaded; docker     *)
(* starts a container that ended again, with the files it has written.     *)
(*                                                                         *)
(* A configuration is known by its version; 0 is the mounted file, or no   *)
(* version at all.                                                         *)
(***************************************************************************)
EXTENDS Integers

CONSTANTS
  MaxVer,          \* bound on the admin's edits
  MaxFaults        \* bound on deploys and on failures of tinyproxy

GatewayAssumption == MaxVer \in Nat /\ MaxFaults \in Nat

Versions == 1..MaxVer
Contents == [auth : BOOLEAN, ovpn : {"none", "good", "bad"}]

VARIABLES
  cms,             \* external: what each version holds, once written
  ver,             \* external: the version the dashboard has now
  dashboard,       \* external: how it answers
  pc,              \* where the boot is
  auth, ovpn,      \* OVPN_AUTH, OVPN_CONFIG
  disk,            \* the files of STATE_DIR
  reporter,        \* the loop has not been started, runs, has ended
  fetched,         \* history: the version this boot was answered
  faults           \* deploys and failures so far

world == <<cms, ver, dashboard>>
boot == <<pc, auth, ovpn, disk, reporter, fetched>>
vars == <<world, boot, faults>>

NoFiles == [auth |-> 0, ovpn |-> 0, version |-> 0]

TypeOK ==
  /\ cms \in [Versions -> Contents] /\ ver \in 0..MaxVer
  /\ dashboard \in {"answers", "error", "silent"}
  /\ pc \in {"down", "fetch", "proxy", "vpn", "up"}
  /\ auth \in 0..MaxVer /\ ovpn \in 0..MaxVer
  /\ disk \in [auth : 0..MaxVer, ovpn : 0..MaxVer, version : 0..MaxVer]
  /\ reporter \in {"none", "on", "ended"} /\ (reporter = "none" <=> pc # "up")
  /\ fetched \in 0..MaxVer /\ faults \in 0..MaxFaults

Init ==
  /\ cms \in [Versions -> Contents] /\ ver = 0 /\ dashboard = "answers"
  /\ pc = "fetch" /\ auth = 0 /\ ovpn = 0 /\ disk = NoFiles
  /\ reporter = "none" /\ fetched = 0 /\ faults = 0

----------------------------------------------------------------------------
(* mutant: the reporter outlives the container *)
EndsAlone == pc' = "down" /\ UNCHANGED reporter

(* The script ends, and every process of the container with it.             *)
Ends == pc' = "down" /\ reporter' = "none"

Static == auth' = 0 /\ ovpn' = 0 /\ fetched' = 0 /\ UNCHANGED disk

Given == ver > 0 /\ dashboard = "answers"

(* mutant: a file an earlier boot wrote is used where the answer has none *)
ApplyLeft ==
  /\ disk' = [auth |-> IF cms[ver].auth THEN ver ELSE disk.auth,
              ovpn |-> IF cms[ver].ovpn # "none" THEN ver ELSE disk.ovpn,
              version |-> ver]
  /\ auth' = disk'.auth /\ ovpn' = disk'.ovpn
  /\ fetched' = ver

(* The files of an answer: what it does not hold is taken from the mounted  *)
(* file, and what an earlier boot wrote is not used.                        *)
Apply ==
  /\ auth' = IF cms[ver].auth THEN ver ELSE 0
  /\ ovpn' = IF cms[ver].ovpn # "none" THEN ver ELSE 0
  /\ disk' = [auth |-> IF cms[ver].auth THEN ver ELSE disk.auth,
              ovpn |-> IF cms[ver].ovpn # "none" THEN ver ELSE disk.ovpn,
              version |-> ver]
  /\ fetched' = ver

(* mutant: a boot that finds the files of an earlier one does not ask *)
FetchOnce ==
  /\ pc = "fetch" /\ UNCHANGED <<world, reporter, faults>>
  /\ pc' = "proxy"
  /\ IF disk.version # 0
     THEN auth' = disk.auth /\ ovpn' = disk.ovpn /\ UNCHANGED <<disk, fetched>>
     ELSE IF Given THEN Apply ELSE Static

(* fetch_agent_config.  An answer without configVersion makes its last      *)
(* command, a test, fail, and set -e ends the script.                       *)
Fetch ==
  /\ pc = "fetch" /\ UNCHANGED <<world, faults>>
  /\ \/ dashboard = "silent" /\ Static /\ pc' = "proxy" /\ UNCHANGED reporter
     \/ dashboard # "silent" /\ ~Given /\ Static /\ Ends
     \/ Given /\ Apply /\ pc' = "proxy" /\ UNCHANGED reporter

Proxy ==
  /\ pc = "proxy" /\ pc' = "vpn"
  /\ UNCHANGED <<world, auth, ovpn, disk, reporter, fetched, faults>>

(* openvpn rejects a file it cannot read; a tunnel that does not come up is *)
(* only logged.  The reporter is started last.                              *)
Vpn ==
  /\ pc = "vpn" /\ UNCHANGED <<world, auth, ovpn, disk, fetched, faults>>
  /\ IF ovpn # 0 /\ cms[ovpn].ovpn = "bad" THEN Ends ELSE pc' = "up" /\ reporter' = "on"

(* External: process 1 of a PID namespace gets no SIGKILL from inside it.   *)
Kill == UNCHANGED pc

(* One turn of report_loop that finds another version: both known, and      *)
(* different.  The loop exits behind its kill.                              *)
Report ==
  /\ pc = "up" /\ reporter = "on" /\ Given /\ disk.version \notin {0, ver}
  /\ Kill /\ reporter' = "ended"
  /\ UNCHANGED <<world, auth, ovpn, disk, fetched, faults>>

(* tinyproxy does not start, or the supervisor finds it dead.               *)
ProxyDies ==
  /\ pc \in {"proxy", "up"} /\ faults < MaxFaults /\ faults' = faults + 1
  /\ Ends /\ UNCHANGED <<world, auth, ovpn, disk, fetched>>

----------------------------------------------------------------------------
(* External: docker restarts the container (unless-stopped), a deploy makes *)
(* a new one, the admin edits, the dashboard comes and goes.                *)
Restart ==
  /\ pc = "down" /\ pc' = "fetch"
  /\ UNCHANGED <<world, auth, ovpn, disk, reporter, fetched, faults>>

Recreate ==
  /\ faults < MaxFaults /\ faults' = faults + 1
  /\ pc' = "fetch" /\ reporter' = "none" /\ disk' = NoFiles
  /\ UNCHANGED <<world, auth, ovpn, fetched>>

Edit == ver < MaxVer /\ ver' = ver + 1 /\ UNCHANGED <<cms, dashboard, boot, faults>>

Turn ==
  /\ dashboard' \in {"answers", "error", "silent"} \ {dashboard}
  /\ UNCHANGED <<cms, ver, boot, faults>>

Boot == Restart \/ Fetch \/ Proxy \/ Vpn
Next == Boot \/ Report \/ ProxyDies \/ Recreate \/ Edit \/ Turn
Spec == Init /\ [][Next]_vars

(* The boot goes on, docker restarts, and the loop has its turns.           *)
FairSpec == Spec /\ WF_vars(Boot) /\ WF_vars(Report)

----------------------------------------------------------------------------
(* What openvpn runs with comes from one answer, the one whose version is   *)
(* written down (entrypoint.sh:50-74): never the credentials of one edit    *)
(* with the client.ovpn of another, across any restarts.                    *)
OneAnswer == pc = "up" => {auth, ovpn} \subseteq {0, disk.version}

(* A gateway brought down by a bad client.ovpn, a dead proxy or an answer   *)
(* without a version comes back, once the dashboard holds a good file or    *)
(* gives no answer: each boot asks again (entrypoint.sh:140).               *)
Good == dashboard = "silent" \/ (Given /\ cms[ver].ovpn # "bad")
ComesBack == <>[]Good => <>[](pc = "up")

(* entrypoint.sh:32-34 "Fallback ve file tinh [...] neu khong goi duoc API  *)
(* hoac gateway chua duoc cau hinh qua CMS -- KHONG lam hong hanh vi cu":   *)
(* asking for a configuration never ends the boot.                         *)
FallsBack == [][pc = "fetch" => pc' # "down"]_vars

(* entrypoint.sh:34 "Ghi configVersion da ap dung": the version written     *)
(* down is the one the running container has applied.                      *)
VersionIsApplied == pc = "up" => disk.version = fetched

(* entrypoint.sh:296 "SIGKILL luon luon giet duoc, kha ca PID 1": a         *)
(* container whose reporter found a new version is restarted.              *)
KillRestarts == reporter = "ended" ~> pc # "up"
=============================================================================
