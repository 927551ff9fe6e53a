------------------------------ MODULE RouteAgent ------------------------------
(***************************************************************************)
(* vpn-gw/route-agent.sh: a oneshot script that a systemd timer runs every *)
(* 10 s on the gateway's host.  It probes the VPN, reads the routes the    *)
(* node advertises, and advertises or withdraws them with hysteresis, a    *)
(* hold time and a lock against flapping.  Its memory is a few files, so a *)
(* run is cut at every file write and every command: the admin, the VPN,   *)
(* the clock and a restart of the node's container come in between, and    *)
(* the run may be killed there.                                            *)
(*                                                                         *)
(* Epochs are kept as ages in units of the timer period.  An age stops at  *)
(* the largest value the script can tell from a larger one.                *)
(***************************************************************************)
EXTENDS Integers, Sequences, FiniteSets

CONSTANTS
  Routes,                \* prefixes
  Wide,                  \* those wider than /24, which the script skips
  Fallback,              \* VPN_GW_ROUTES
  Lists,                 \* the lists an admin may choose on the dashboard
  FailThreshold, OkThreshold,
  Hold,                  \* MIN_HOLD_SEC
  Hour,                  \* the window in which flaps are counted
  MaxFlaps,              \* MAX_FLAPS_PER_HOUR
  MayFail,               \* curl and docker exec may fail
  MayCrash,              \* a run may be killed
  MayReset,              \* the node's container restarts with --advertise-routes=
  MayUnlock              \* an operator removes the lock file

ASSUME AgentAssumption ==
  /\ Wide \subseteq Routes /\ Fallback \subseteq Routes
  /\ Lists \subseteq SUBSET Routes /\ Lists # {}
  /\ FailThreshold \in Nat \ {0} /\ OkThreshold \in Nat \ {0}
  /\ Hold \in Nat \ {0} /\ Hour \in Nat \ {0} /\ MaxFlaps \in Nat \ {0}
  /\ {MayFail, MayCrash, MayReset, MayUnlock} \subseteq BOOLEAN

VARIABLES
  admin,     \* external: the list on the dashboard
  alive,     \* external: TCP through the VPN to PROBE_TARGET works
  node,      \* external: the routes the node advertises
  ok, fail,  \* the streak files, stopped at their thresholds
  lastAge,   \* age of last_change_epoch, stopped at Hold
  flaps,     \* ages of the epochs in the flaps file, oldest first
  locked,    \* the lock file exists
  pc,        \* where the run is
  want,      \* want_routes
  probe,     \* this run's probe
  cur,       \* cur_routes
  held,      \* now - last >= MIN_HOLD_SEC
  age,       \* age of this run's `now`
  due,       \* the timer has elapsed
  okRun, failRun,  \* history: probes in a row that succeeded, that failed
  down,      \* history: age of `now` at the agent's last own withdrawal
  unsaid,    \* history: its command failed all the same, or its run was killed next
  killed     \* history: a run has been killed

world == <<admin, alive, node>>
files == <<ok, fail, lastAge, flaps, locked>>
run == <<pc, want, probe, cur, held, age, due>>
history == <<okRun, failRun, down, unsaid, killed>>
vars == <<world, files, run, history>>

AgeCap == IF Hold > Hour THEN Hold ELSE Hour
Points == {"idle", "ok", "fail", "prefs", "decide", "emptied", "withdrawn", "downflap",
            "advertised", "upflap", "lock"}
Sets == SUBSET Routes

FlagsOK ==
  /\ alive \in BOOLEAN /\ locked \in BOOLEAN /\ probe \in BOOLEAN
  /\ held \in BOOLEAN /\ due \in BOOLEAN /\ unsaid \in BOOLEAN /\ killed \in BOOLEAN

DataOK ==
  /\ admin \in Lists /\ node \in Sets
  /\ ok \in 0..OkThreshold /\ fail \in 0..FailThreshold
  /\ lastAge \in 0..Hold /\ flaps \in Seq(0..Hour)
  /\ pc \in Points /\ want \in Sets /\ cur \in Sets /\ age \in 0..AgeCap
  /\ okRun \in 0..OkThreshold /\ failRun \in 0..FailThreshold /\ down \in 0..Hold

TypeOK == FlagsOK /\ DataOK

Init ==
  /\ admin \in Lists /\ alive \in BOOLEAN /\ node = {}
  /\ ok = 0 /\ fail = 0 /\ lastAge = Hold /\ flaps = <<>> /\ locked = FALSE
  /\ pc = "idle" /\ want = {} /\ probe = FALSE /\ cur = {} /\ held = FALSE /\ age = 0 /\ due = TRUE
  /\ okRun = 0 /\ failRun = 0 /\ down = Hold /\ unsaid = FALSE /\ killed = FALSE

UpTo(cap, n) == IF n > cap THEN cap ELSE n
Safe(list) == list \ Wide
Goto(from, to) == pc = from /\ pc' = to

----------------------------------------------------------------------------
(* The list comes from the dashboard, or from VPN_GW_ROUTES if the call     *)
(* fails; then the probe, through the gateway's network namespace.          *)
Begin ==
  /\ due /\ due' = FALSE /\ Goto("idle", "ok")
  /\ want' \in {Safe(admin)} \cup (IF MayFail THEN {Safe(Fallback)} ELSE {})
  /\ probe' = alive
  /\ okRun' = IF alive THEN UpTo(OkThreshold, okRun + 1) ELSE 0
  /\ failRun' = IF alive THEN 0 ELSE UpTo(FailThreshold, failRun + 1)
  /\ UNCHANGED <<world, files, cur, held, age, down, unsaid, killed>>

(* mutant: a failure does not end the streak of successes *)
WriteOkKeeps ==
  /\ Goto("ok", "fail")
  /\ ok' = IF probe THEN UpTo(OkThreshold, ok + 1) ELSE ok
  /\ UNCHANGED <<world, fail, lastAge, flaps, locked, want, probe, cur, held, age, due, history>>

(* mutant: the branches are swapped *)
WriteOkSwapped ==
  /\ Goto("ok", "fail")
  /\ ok' = IF probe THEN 0 ELSE UpTo(OkThreshold, ok + 1)
  /\ UNCHANGED <<world, fail, lastAge, flaps, locked, want, probe, cur, held, age, due, history>>

(* The two streak files are written one after the other. *)
WriteOk ==
  /\ Goto("ok", "fail")
  /\ ok' = IF probe THEN UpTo(OkThreshold, ok + 1) ELSE 0
  /\ UNCHANGED <<world, fail, lastAge, flaps, locked, want, probe, cur, held, age, due, history>>

WriteFail ==
  /\ Goto("fail", "prefs")
  /\ fail' = IF probe THEN 0 ELSE UpTo(FailThreshold, fail + 1)
  /\ UNCHANGED <<world, ok, lastAge, flaps, locked, want, probe, cur, held, age, due, history>>

(* The node's own routes, not a file; if docker exec fails they read empty. *)
(* Flaps that are an hour old or older, the file's first, leave it.         *)
InHour == Cardinality({i \in DOMAIN flaps : flaps[i] < Hour})

ReadPrefs ==
  /\ Goto("prefs", "decide")
  /\ cur' \in {node} \cup (IF MayFail THEN {{}} ELSE {})
  /\ age' = 0 /\ held' = (lastAge >= Hold)
  /\ flaps' = SubSeq(flaps, Len(flaps) - InHour + 1, Len(flaps))
  /\ UNCHANGED <<world, ok, fail, lastAge, locked, want, probe, due, history>>

(* tailscale set.  A command that reports failure is only logged, and it    *)
(* may have taken effect: docker exec can lose the answer.                  *)
Apply(routes, then) == Goto("decide", then) /\ node' = routes
ApplyFails(routes) == MayFail /\ Goto("decide", "idle") /\ node' \in {node, routes}

WithdrawnNow(silently) == node' = {} /\ down' = UpTo(Hold, age) /\ unsaid' = silently
NotWithdrawn == UNCHANGED <<down, unsaid>>

Deciding == UNCHANGED <<admin, alive, files, want, probe, cur, held, age, due, okRun, failRun, killed>>

EmptyList == want = {} /\ cur # {}
(* mutant: withdrawing waits for the hold time too *)
WithdrawHeld == want # {} /\ ~locked /\ held /\ fail >= FailThreshold /\ cur = want
Withdraw == want # {} /\ ~locked /\ fail >= FailThreshold /\ cur = want
(* mutant: the lock is not looked at before advertising *)
AdvertiseUnderLock == want # {} /\ ~Withdraw /\ ok >= OkThreshold /\ cur # want
Advertise == want # {} /\ ~locked /\ ~Withdraw /\ ok >= OkThreshold /\ cur # want

(* An empty list withdraws at once, whatever the lock says, and notes the   *)
(* change even if the command failed, with or without effect.               *)
DecideEmpty ==
  /\ EmptyList /\ Goto("decide", "emptied")
  /\ WithdrawnNow(FALSE) \/ (MayFail /\ node' = node /\ NotWithdrawn)
  /\ Deciding

DecideWithdraw ==
  /\ Withdraw
  /\ \/ Apply({}, "withdrawn") /\ WithdrawnNow(FALSE)
     \/ ApplyFails({}) /\ (WithdrawnNow(TRUE) \/ (node' = node /\ NotWithdrawn))
  /\ Deciding

DecideAdvertise ==
  /\ Advertise /\ held
  /\ Apply(want, "advertised") \/ ApplyFails(want)
  /\ NotWithdrawn /\ Deciding

(* nothing to do: no list, locked, cooling down, or the state is as wanted  *)
DecideNothing ==
  /\ Goto("decide", "idle")
  /\ ~EmptyList /\ ~Withdraw /\ ~(Advertise /\ held)
  /\ UNCHANGED node /\ NotWithdrawn /\ Deciding

(* After a change: the epoch, then a line of the flaps file if the change   *)
(* was the agent's own, then perhaps the lock, one write after the other.   *)
Written == Goto("emptied", "idle") \/ Goto("advertised", "upflap") \/ Goto("withdrawn", "downflap")

(* mutant: last_change_epoch is not written *)
RecordNoHold ==
  /\ Written
  /\ UNCHANGED <<world, files, want, probe, cur, held, age, due, history>>

(* mutant: the epoch at which the hold ends is written *)
RecordDeadline ==
  /\ Written /\ lastAge' = UpTo(Hold, age) - Hold
  /\ UNCHANGED <<world, ok, fail, flaps, locked, want, probe, cur, held, age, due, history>>

Record ==
  /\ Written /\ lastAge' = UpTo(Hold, age)
  /\ UNCHANGED <<world, ok, fail, flaps, locked, want, probe, cur, held, age, due, history>>

RecordFlap ==
  /\ Goto("upflap", "idle") \/ Goto("downflap", "lock")
  /\ flaps' = Append(flaps, UpTo(Hour, age))
  /\ UNCHANGED <<world, ok, fail, lastAge, locked, want, probe, cur, held, age, due, history>>

(* mutant: the count read before this change is compared, and beyond the limit *)
LockLate ==
  /\ Goto("lock", "idle")
  /\ locked' = (locked \/ Len(flaps) > MaxFlaps + 1)
  /\ UNCHANGED <<world, ok, fail, lastAge, flaps, want, probe, cur, held, age, due, history>>

Lock ==
  /\ Goto("lock", "idle")
  /\ locked' = (locked \/ Len(flaps) >= MaxFlaps)
  /\ UNCHANGED <<world, ok, fail, lastAge, flaps, want, probe, cur, held, age, due, history>>

----------------------------------------------------------------------------
(* The surroundings.                                                       *)
Clock ==
  /\ due' = TRUE
  /\ lastAge' = UpTo(Hold, lastAge + 1)
  /\ down' = UpTo(Hold, down + 1)
  /\ age' = UpTo(AgeCap, age + 1)
  /\ flaps' = [i \in DOMAIN flaps |-> UpTo(Hour, flaps[i] + 1)]
  /\ UNCHANGED <<world, ok, fail, locked, pc, want, probe, cur, held, okRun, failRun, unsaid, killed>>

Edit ==
  /\ \E l \in Lists \ {admin} : admin' = l
  /\ UNCHANGED <<alive, node, files, run, history>>

VpnTurns ==
  /\ alive' = ~alive
  /\ UNCHANGED <<admin, node, files, run, history>>

Reset ==
  /\ MayReset /\ node # {} /\ node' = {}
  /\ UNCHANGED <<admin, alive, files, run, history>>

Unlock ==
  /\ MayUnlock /\ locked /\ locked' = FALSE
  /\ UNCHANGED <<world, ok, fail, lastAge, flaps, run, history>>

Crash ==
  /\ MayCrash /\ pc # "idle" /\ pc' = "idle" /\ killed' = TRUE
  /\ unsaid' = (unsaid \/ pc \in {"withdrawn", "emptied"})
  /\ UNCHANGED <<world, files, want, probe, cur, held, age, due, okRun, failRun, down>>

Step ==
  \/ WriteOk \/ WriteFail \/ ReadPrefs
  \/ DecideEmpty \/ DecideWithdraw \/ DecideAdvertise \/ DecideNothing
  \/ Record \/ RecordFlap \/ Lock

Next ==
  \/ Begin \/ Step
  \/ Clock \/ Edit \/ VpnTurns \/ Reset \/ Unlock \/ Crash

Spec == Init /\ [][Next]_vars

(* The timer fires, and a run that has begun ends.                         *)
FairSpec == Spec /\ WF_vars(Clock) /\ WF_vars(Begin) /\ WF_vars(Step)

----------------------------------------------------------------------------
(* While the lock file exists the agent's node advertises nothing: the lock *)
(* is only ever set in the withdrawn state and nothing is advertised under  *)
(* it, wherever runs are killed and whatever the admin does                 *)
(* (route-agent.sh:135-166).                                                *)
LockedMeansWithdrawn == locked => node = {}

(* As long as no run was killed, the node goes up, or changes what it       *)
(* advertises, only after OkThreshold probes in a row succeeded: the streak *)
(* files are as good as the probes (route-agent.sh:98-100, 154-166).        *)
UpOnlyWhenHealthy ==
  [][node' # node /\ node' # {} /\ ~killed => okRun = OkThreshold]_vars

(* ... and only Hold or longer after the agent's own last withdrawal, over  *)
(* lists edited, runs killed and commands that fail, with two exceptions:   *)
(* that withdrawal's command reported failure and took effect, or its run   *)
(* was killed before it wrote last_change_epoch (route-agent.sh:41, 120-159).*)
UpOnlyAfterHold ==
  [][node' # node /\ node' # {} /\ ~unsaid => down = Hold]_vars

(* Without the exceptions, refuted by either: route-agent.sh:41 "giu it      *)
(* nhat 5' sau khi rut".                                                    *)
UpAlwaysAfterHold ==
  [][node' # node /\ node' # {} => down = Hold]_vars

(* route-agent.sh:42 "vuot -> khoa o trang thai rut": more changes in an    *)
(* hour than MAX_FLAPS, and the agent is locked.                            *)
ManyFlapsLock == pc = "idle" /\ InHour > MaxFlaps => locked

(* A run that ends with FailThreshold failures behind it leaves nothing     *)
(* advertised (route-agent.sh:39 "3 lan fail lien tiep -> rut").            *)
DeadIsWithdrawn == pc = "idle" /\ failRun = FailThreshold => node = {}

(* If the VPN stays up, the list ends up advertised unless the agent is     *)
(* locked (route-agent.sh:154-166).                                         *)
HealthyIsAdvertised ==
  (<>[]alive) => <>[](locked \/ node = Safe(admin))
=============================================================================
