--------------------------- MODULE RouteAgentProofs ---------------------------
(***************************************************************************)
(* Proofs about RouteAgent, for every set of routes and lists, every       *)
(* threshold, hold time and window.  The lock's invariant holds whatever   *)
(* fails or is killed; the rule on good probes holds until a run is        *)
(* killed, the rule on the hold time after every withdrawal that the       *)
(* script knows of and noted.                                              *)
(***************************************************************************)
EXTENDS RouteAgent, FiniteSetTheorems, SequenceTheorems, TLAPS

LEMMA UpToFacts ==
  ASSUME NEW cap \in Nat, NEW n \in Nat
  PROVE  UpTo(cap, n) \in 0..cap /\ UpTo(cap, n) <= n
                /\ (n <= cap => UpTo(cap, n) = n) /\ (n >= cap => UpTo(cap, n) = cap)
BY DEF UpTo

LEMMA Bounds == Hold \in Nat /\ Hour \in Nat /\ AgeCap \in Nat /\ AgeCap >= Hold
                  /\ AgeCap >= Hour /\ OkThreshold \in Nat /\ FailThreshold \in Nat
BY AgentAssumption DEF AgeCap

LEMMA AgeFacts ==
  ASSUME age \in 0..AgeCap
  PROVE  UpTo(Hold, age) \in 0..Hold /\ UpTo(Hour, age) \in 0..Hour
<1>1. age \in Nat
  BY Bounds
<1> QED BY <1>1, UpToFacts, Bounds

LEMMA InHourFacts ==
  ASSUME flaps \in Seq(0..Hour)
  PROVE  InHour \in 0..Len(flaps)
<1> DEFINE Recent == {i \in DOMAIN flaps : flaps[i] < Hour}
<1>1. Recent \subseteq 1..Len(flaps)
  OBVIOUS
<1>2. IsFiniteSet(1..Len(flaps)) /\ Cardinality(1..Len(flaps)) = Len(flaps)
  <2>1. Len(flaps) \in Nat
    OBVIOUS
  <2> QED BY <2>1, FS_Interval
<1>3. IsFiniteSet(Recent) /\ Cardinality(Recent) <= Len(flaps)
  BY <1>1, <1>2, FS_Subset
<1> QED BY <1>3, FS_CardinalityType DEF InHour

LEMMA PrunedType ==
  ASSUME flaps \in Seq(0..Hour)
  PROVE  SubSeq(flaps, Len(flaps) - InHour + 1, Len(flaps)) \in Seq(0..Hour)
<1>1. Len(flaps) \in Nat /\ Len(flaps) - InHour + 1 \in 1..Len(flaps) + 1
  BY InHourFacts
<1>2. \A i \in 1..Len(flaps) : flaps[i] \in 0..Hour
  BY ElementOfSeq
<1> QED BY <1>1, <1>2, SubSeqProperties

LEMMA AgedType ==
  ASSUME flaps \in Seq(0..Hour)
  PROVE  [i \in DOMAIN flaps |-> UpTo(Hour, flaps[i] + 1)] \in Seq(0..Hour)
<1>1. \A i \in 1..Len(flaps) : UpTo(Hour, flaps[i] + 1) \in 0..Hour
  <2> TAKE i \in 1..Len(flaps)
  <2>1. flaps[i] \in 0..Hour /\ Hour \in Nat
    BY Bounds
  <2> QED BY <2>1 DEF UpTo
<1>2. DOMAIN flaps = 1..Len(flaps) /\ Len(flaps) \in Nat
  OBVIOUS
<1>3. [i \in 1..Len(flaps) |-> UpTo(Hour, flaps[i] + 1)] \in Seq(0..Hour)
  BY <1>1, <1>2
<1> QED BY <1>2, <1>3

(* Every action keeps every variable in its type; the streak files, the     *)
(* ages and the flaps file stay within the values that the script can tell  *)
(* apart (route-agent.sh:98-118).                                           *)
LEMMA FlagsStep ==
  ASSUME FlagsOK, [Next]_vars
  PROVE  FlagsOK'
<1> USE DEF FlagsOK, world, files, run, history, Goto
<1>1. CASE Begin
  BY <1>1, ZenonT(30) DEF Begin
<1>2. CASE WriteOk \/ WriteFail
  BY <1>2 DEF WriteOk, WriteFail
<1>3. CASE ReadPrefs
  BY <1>3 DEF ReadPrefs
<1>4. CASE DecideEmpty \/ DecideWithdraw \/ DecideAdvertise \/ DecideNothing
  BY <1>4 DEF DecideEmpty, DecideWithdraw, DecideAdvertise, DecideNothing, Deciding, Apply, ApplyFails, WithdrawnNow, NotWithdrawn
<1>5. CASE Record \/ RecordFlap
  BY <1>5 DEF Record, Written, RecordFlap
<1>6. CASE Lock
  BY <1>6 DEF Lock
<1>7. CASE Clock
  BY <1>7 DEF Clock
<1>8. CASE Edit \/ VpnTurns \/ Reset
  BY <1>8 DEF Edit, VpnTurns, Reset
<1>9. CASE Unlock \/ Crash
  BY <1>9 DEF Unlock, Crash
<1>10. CASE UNCHANGED vars
  BY <1>10 DEF vars
<1> QED BY <1>1, <1>2, <1>3, <1>4, <1>5, <1>6, <1>7, <1>8, <1>9, <1>10 DEF Next, Step

LEMMA DataStep ==
  ASSUME DataOK, [Next]_vars
  PROVE  DataOK'
<1> USE DEF DataOK, Points, Sets, Goto, world, files, run, history
<1>1. CASE Begin
  <2>1. want' \in SUBSET Routes
    BY <1>1, AgentAssumption DEF Begin, Safe
  <2>2. okRun + 1 \in Nat /\ failRun + 1 \in Nat
    BY Bounds
  <2>3. UpTo(OkThreshold, okRun + 1) \in 0..OkThreshold
    BY <2>2, Bounds DEF UpTo
  <2>4. UpTo(FailThreshold, failRun + 1) \in 0..FailThreshold
    BY <2>2, Bounds DEF UpTo
  <2>5. okRun' \in 0..OkThreshold /\ failRun' \in 0..FailThreshold
    BY <1>1, <2>3, <2>4, Bounds DEF Begin
  <2> QED BY <1>1, <2>1, <2>5 DEF Begin
<1>2. CASE WriteOk
  <2>1. ok' \in 0..OkThreshold
    BY <1>2, UpToFacts, Bounds DEF WriteOk
  <2> QED BY <1>2, <2>1 DEF WriteOk
<1>3. CASE WriteFail
  <2>1. fail' \in 0..FailThreshold
    BY <1>3, UpToFacts, Bounds DEF WriteFail
  <2> QED BY <1>3, <2>1 DEF WriteFail
<1>4. CASE ReadPrefs
  <2>1. flaps' \in Seq(0..Hour)
    BY <1>4, PrunedType DEF ReadPrefs
  <2>2. cur' \in SUBSET Routes
    BY <1>4 DEF ReadPrefs
  <2> QED BY <1>4, <2>1, <2>2, Bounds DEF ReadPrefs
<1>5. CASE DecideEmpty \/ DecideWithdraw
  <2>1. UpTo(Hold, age) \in 0..Hold
    BY AgeFacts
  <2> QED BY <1>5, <2>1 DEF DecideEmpty, DecideWithdraw, Deciding, Apply, ApplyFails, WithdrawnNow, NotWithdrawn
<1>6. CASE DecideAdvertise \/ DecideNothing
  BY <1>6 DEF DecideAdvertise, DecideNothing, Deciding, Apply, ApplyFails, WithdrawnNow, NotWithdrawn
<1>7. CASE Record \/ RecordFlap
  <2>1. UpTo(Hour, age) \in 0..Hour /\ UpTo(Hold, age) \in 0..Hold
    BY AgeFacts
  <2>2. Append(flaps, UpTo(Hour, age)) \in Seq(0..Hour)
    BY <2>1
  <2>3. flaps' \in Seq(0..Hour)
    BY <1>7, <2>2 DEF Record, RecordFlap
  <2> QED BY <1>7, <2>1, <2>3 DEF Record, Written, RecordFlap
<1>8. CASE Lock
  BY <1>8 DEF Lock
<1>9. CASE Clock
  <2>1. flaps' \in Seq(0..Hour)
    BY <1>9, AgedType DEF Clock
  <2>2. lastAge + 1 \in Nat /\ down + 1 \in Nat /\ age + 1 \in Nat
    BY Bounds
  <2>3. /\ UpTo(Hold, lastAge + 1) \in 0..Hold /\ UpTo(Hold, down + 1) \in 0..Hold
        /\ UpTo(AgeCap, age + 1) \in 0..AgeCap
    BY <2>2, Bounds DEF UpTo
  <2> QED BY <1>9, <2>1, <2>3 DEF Clock
<1>10. CASE Edit \/ VpnTurns \/ Reset
  BY <1>10 DEF Edit, VpnTurns, Reset
<1>11. CASE Unlock \/ Crash
  BY <1>11 DEF Unlock, Crash
<1>12. CASE UNCHANGED vars
  BY <1>12 DEF vars
<1> QED BY <1>1, <1>2, <1>3, <1>4, <1>5, <1>6, <1>7, <1>8, <1>9, <1>10, <1>11, <1>12
        DEF Next, Step

(* Every variable keeps its type (route-agent.sh:86-166). *)
THEOREM TypeCorrect == Spec => []TypeOK
<1>1. Init => FlagsOK
  BY DEF Init, FlagsOK
<1>2. Init => DataOK
  BY Bounds DEF Init, DataOK, Points, Sets
<1>3. TypeOK /\ [Next]_vars => TypeOK'
  BY FlagsStep, DataStep DEF TypeOK
<1> QED BY <1>1, <1>2, <1>3, PTL DEF Spec, TypeOK

----------------------------------------------------------------------------
(* The lock: set only after a withdrawal, and nothing goes up under it.    *)
LockInv ==
  /\ locked => node = {}
  /\ pc \in {"withdrawn", "downflap", "lock"} => node = {}

(* While the lock file exists the node advertises nothing, whatever fails,  *)
(* is killed or edited (route-agent.sh:135-166).                            *)
THEOREM LockHolds == Spec => []LockedMeansWithdrawn
<1>1. Init => LockInv
  BY DEF Init, LockInv
<1>2. LockInv /\ [Next]_vars => LockInv'
  <2> SUFFICES ASSUME LockInv, [Next]_vars PROVE LockInv'
    OBVIOUS
  <2> USE DEF LockInv, world, files, run, history, Goto
  <2>1. CASE Begin
    BY <2>1 DEF Begin
  <2>2. CASE WriteOk \/ WriteFail \/ ReadPrefs
    BY <2>2 DEF WriteOk, WriteFail, ReadPrefs
  <2>3. CASE DecideEmpty \/ DecideWithdraw \/ DecideNothing
    BY <2>3 DEF DecideEmpty, DecideWithdraw, DecideNothing, Deciding, Apply, ApplyFails, WithdrawnNow, NotWithdrawn
  <2>4. CASE DecideAdvertise
    BY <2>4 DEF DecideAdvertise, Advertise, Deciding, Apply, ApplyFails, WithdrawnNow, NotWithdrawn
  <2>5. CASE Record \/ RecordFlap
    BY <2>5 DEF Record, Written, RecordFlap
  <2>6. CASE Lock
    BY <2>6 DEF Lock
  <2>7. CASE Clock
    BY <2>7 DEF Clock
  <2>8. CASE Edit \/ VpnTurns \/ Reset
    BY <2>8 DEF Edit, VpnTurns, Reset
  <2>9. CASE Unlock \/ Crash
    BY <2>9 DEF Unlock, Crash
  <2>10. CASE UNCHANGED vars
    BY <2>10 DEF vars
  <2> QED BY <2>1, <2>2, <2>3, <2>4, <2>5, <2>6, <2>7, <2>8, <2>9, <2>10 DEF Next, Step
<1>3. LockInv => LockedMeansWithdrawn
  BY DEF LockInv, LockedMeansWithdrawn
<1> QED BY <1>1, <1>2, <1>3, PTL DEF Spec

----------------------------------------------------------------------------
(* Going up.  A run that ends in one piece leaves the streak file equal to *)
(* the true streak, and last_change_epoch no older than its last change.   *)
StreakInv == ~killed =>
  /\ pc # "ok" => okRun = ok
  /\ pc = "ok" /\ probe => okRun = UpTo(OkThreshold, ok + 1)
  /\ pc = "ok" /\ ~probe => okRun = 0

LEMMA KilledStays ==
  ASSUME [Next]_vars, ~killed'
  PROVE  ~killed
BY DEF Next, Step, vars, world, files, run, history, Begin, WriteOk, WriteFail, ReadPrefs, DecideEmpty,
       DecideWithdraw, DecideAdvertise, DecideNothing, Deciding, Record, Written, RecordFlap, Lock, Clock, Edit,
       VpnTurns, Reset, Unlock, Crash

LEMMA StreakStep ==
  ASSUME StreakInv, [Next]_vars
  PROVE  StreakInv'
<1> SUFFICES ASSUME ~killed' PROVE StreakInv'
  BY DEF StreakInv
<1>a. ~killed
  BY KilledStays
<1> USE <1>a DEF StreakInv, world, files, run, history, Goto
<1>1. CASE Begin
  <2>1. okRun = ok /\ ok' = ok /\ pc' = "ok" /\ probe' = alive
    BY <1>1 DEF Begin
  <2>2. alive => okRun' = UpTo(OkThreshold, okRun + 1)
    BY <1>1 DEF Begin
  <2>3. ~alive => okRun' = 0
    BY <1>1 DEF Begin
  <2> QED BY <2>1, <2>2, <2>3
<1>2. CASE WriteOk
  <2>1. ok' = okRun
    BY <1>2 DEF WriteOk
  <2> QED BY <1>2, <2>1 DEF WriteOk
<1>3. CASE WriteFail \/ ReadPrefs
  BY <1>3 DEF WriteFail, ReadPrefs
<1>4. CASE DecideEmpty \/ DecideWithdraw \/ DecideAdvertise \/ DecideNothing
  BY <1>4 DEF DecideEmpty, DecideWithdraw, DecideAdvertise, DecideNothing, Deciding, Apply, ApplyFails, WithdrawnNow, NotWithdrawn
<1>5. CASE Record \/ RecordFlap \/ Lock
  BY <1>5 DEF Record, Written, RecordFlap, Lock
<1>6. CASE Clock
  BY <1>6 DEF Clock
<1>7. CASE Edit \/ VpnTurns \/ Reset \/ Unlock
  BY <1>7 DEF Edit, VpnTurns, Reset, Unlock
<1>8. CASE UNCHANGED vars
  BY <1>8 DEF vars
<1>9. CASE Crash
  BY <1>9 DEF Crash
<1> QED BY <1>1, <1>2, <1>3, <1>4, <1>5, <1>6, <1>7, <1>8, <1>9 DEF Next, Step

(* Only DecideAdvertise makes the node advertise something else than {}.   *)
LEMMA OnlyAdvertiseGoesUp ==
  ASSUME [Next]_vars, node' # node, node' # {}
  PROVE  DecideAdvertise
BY DEF Next, Step, vars, world, files, run, history, Begin, WriteOk, WriteFail, ReadPrefs, DecideEmpty,
       DecideWithdraw, DecideNothing, Deciding, Apply, ApplyFails, WithdrawnNow, NotWithdrawn, Record, Written, RecordFlap, Lock, Clock, Edit,
       VpnTurns, Reset, Unlock, Crash

(* As long as no run was killed, the node goes up, or changes what it       *)
(* advertises, only after OkThreshold probes in a row succeeded (route-agent.sh:98-166).*)
THEOREM UpMeansHealthy == Spec => UpOnlyWhenHealthy
<1>1. Init => StreakInv
  BY DEF Init, StreakInv
<1>2. StreakInv /\ [Next]_vars => StreakInv'
  BY StreakStep
<1>3. TypeOK /\ StreakInv /\ [Next]_vars
        => [node' # node /\ node' # {} /\ ~killed => okRun = OkThreshold]_vars
  <2> SUFFICES ASSUME TypeOK, StreakInv, [Next]_vars, node' # node, node' # {}, ~killed
               PROVE  okRun = OkThreshold
    OBVIOUS
  <2>1. pc = "decide" /\ ok >= OkThreshold
    BY OnlyAdvertiseGoesUp DEF DecideAdvertise, Advertise, Apply, ApplyFails, WithdrawnNow, NotWithdrawn, Goto
  <2>2. okRun = ok
    BY <2>1 DEF StreakInv
  <2>3. ok \in 0..OkThreshold
    BY DEF TypeOK, DataOK
  <2> QED BY <2>1, <2>2, <2>3, Bounds
<1> QED BY <1>1, <1>2, <1>3, TypeCorrect, PTL DEF Spec, UpOnlyWhenHealthy

HoldInv ==
  /\ pc \notin {"emptied", "withdrawn"} /\ ~unsaid => lastAge <= down
  /\ pc \in {"decide", "emptied", "withdrawn", "advertised"} => UpTo(Hold, age) <= down
  /\ pc = "decide" /\ held /\ ~unsaid => down = Hold

LEMMA HoldStep ==
  ASSUME DataOK, FlagsOK, HoldInv, [Next]_vars
  PROVE  HoldInv'
<1> USE DEF HoldInv, world, files, run, history, Goto
<1>1. CASE Begin \/ WriteOk \/ WriteFail
  BY <1>1 DEF Begin, WriteOk, WriteFail
<1>2. CASE ReadPrefs
  <2>1. /\ ~unsaid => lastAge <= down
        /\ down \in 0..Hold /\ pc' = "decide" /\ UNCHANGED <<lastAge, down, unsaid>>
    BY <1>2 DEF ReadPrefs, DataOK
  <2>2. UpTo(Hold, age') = 0
    BY <1>2, Bounds DEF ReadPrefs, UpTo
  <2>3. held' => lastAge >= Hold
    BY <1>2 DEF ReadPrefs
  <2>4. held' /\ ~unsaid => down = Hold
    BY <2>1, <2>3, Bounds DEF DataOK
  <2>5. UpTo(Hold, age') <= down
    BY <2>1, <2>2, Bounds
  <2> QED BY <2>1, <2>4, <2>5
<1>3. CASE DecideEmpty \/ DecideWithdraw
  <2>1. /\ pc = "decide" /\ UpTo(Hold, age) <= down /\ (~unsaid => lastAge <= down)
        /\ UNCHANGED <<lastAge, age>>
    BY <1>3 DEF DecideEmpty, DecideWithdraw, Deciding, Apply, ApplyFails
  <2>2. \/ down' = UpTo(Hold, age) /\ (pc' \in {"emptied", "withdrawn"} \/ (pc' = "idle" /\ unsaid' = TRUE))
        \/ pc' \in {"emptied", "idle"} /\ UNCHANGED <<down, unsaid>>
    <3>1. CASE DecideEmpty
      BY <3>1 DEF DecideEmpty, WithdrawnNow, NotWithdrawn
    <3>2. CASE DecideWithdraw
      <4>1. \/ pc' = "withdrawn" /\ down' = UpTo(Hold, age)
            \/ pc' = "idle" /\ WithdrawnNow(TRUE)
            \/ pc' = "idle" /\ NotWithdrawn
        BY <3>2 DEF DecideWithdraw, Apply, ApplyFails, WithdrawnNow
      <4>2. WithdrawnNow(TRUE) => down' = UpTo(Hold, age) /\ unsaid' = TRUE
        BY DEF WithdrawnNow
      <4> QED BY <4>1, <4>2 DEF NotWithdrawn
    <3> QED BY <1>3, <3>1, <3>2
  <2>3. UpTo(Hold, age) \in 0..Hold
    BY AgeFacts DEF DataOK
  <2> QED BY <2>1, <2>2, <2>3, Bounds
<1>4. CASE DecideAdvertise \/ DecideNothing
  BY <1>4 DEF DecideAdvertise, DecideNothing, Deciding, Apply, ApplyFails, NotWithdrawn
<1>5. CASE Record
  <2>1. /\ lastAge' = UpTo(Hold, age) /\ pc' \in {"idle", "upflap", "downflap"}
        /\ UNCHANGED <<down, unsaid>>
    BY <1>5 DEF Record, Written
  <2>2. UpTo(Hold, age) <= down
    BY <1>5 DEF Record, Written
  <2> QED BY <2>1, <2>2
<1>6. CASE RecordFlap \/ Lock
  BY <1>6 DEF RecordFlap, Lock
<1>7. CASE Clock
  <2>1. /\ lastAge' = UpTo(Hold, lastAge + 1) /\ down' = UpTo(Hold, down + 1)
        /\ age' = UpTo(AgeCap, age + 1) /\ UNCHANGED <<pc, held, unsaid>>
    BY <1>7 DEF Clock
  <2>2. lastAge \in 0..Hold /\ down \in 0..Hold /\ age \in 0..AgeCap
    BY DEF DataOK
  <2>3. lastAge <= down => lastAge' <= down'
    BY <2>1, <2>2, Bounds DEF UpTo
  <2>4. UpTo(Hold, age) <= down => UpTo(Hold, age') <= down'
    BY <2>1, <2>2, Bounds DEF UpTo
  <2>5. down = Hold => down' = Hold
    BY <2>1, <2>2, Bounds DEF UpTo
  <2> QED BY <2>1, <2>3, <2>4, <2>5
<1>8. CASE Edit \/ VpnTurns \/ Reset \/ Unlock
  BY <1>8 DEF Edit, VpnTurns, Reset, Unlock
<1>9. CASE UNCHANGED vars
  BY <1>9 DEF vars
<1>10. CASE Crash
  <2>1. pc' = "idle" /\ unsaid' = (unsaid \/ pc \in {"withdrawn", "emptied"})
        /\ UNCHANGED <<lastAge, down>>
    BY <1>10 DEF Crash
  <2>2. ~unsaid' => lastAge <= down
    BY <2>1 DEF FlagsOK
  <2> QED BY <2>1, <2>2
<1> QED BY <1>1, <1>2, <1>3, <1>4, <1>5, <1>6, <1>7, <1>8, <1>9, <1>10 DEF Next, Step

(* The node goes up only Hold or longer after the agent's own last          *)
(* withdrawal, whatever is edited, fails or is killed, unless that          *)
(* withdrawal's command reported failure and took effect or its run was     *)
(* killed before it noted the time (route-agent.sh:41, 120-159).            *)
THEOREM UpMeansHeld == Spec => UpOnlyAfterHold
<1>1. Init => HoldInv
  BY Bounds DEF Init, HoldInv
<1>2. TypeOK /\ HoldInv /\ [Next]_vars => HoldInv'
  BY HoldStep DEF TypeOK
<1>3. HoldInv /\ [Next]_vars => [node' # node /\ node' # {} /\ ~unsaid => down = Hold]_vars
  <2> SUFFICES ASSUME HoldInv, [Next]_vars, node' # node, node' # {}, ~unsaid PROVE down = Hold
    OBVIOUS
  <2>1. pc = "decide" /\ held
    BY OnlyAdvertiseGoesUp DEF DecideAdvertise, Apply, ApplyFails, Goto
  <2> QED BY <2>1 DEF HoldInv
<1> QED BY <1>1, <1>2, <1>3, TypeCorrect, PTL DEF Spec, UpOnlyAfterHold

----------------------------------------------------------------------------
(* What the header of the script promises of a dead VPN and of flapping    *)
(* holds as long as the list is never edited, no command fails and no run  *)
(* is killed: the node then advertises the list or nothing.                *)
OnlyList(l) ==
  /\ admin = l /\ ~killed
  /\ pc # "idle" => want = Safe(l)
  /\ node \in {{}, Safe(l)}
  /\ pc = "decide" => cur \in {{}, Safe(l)} /\ (cur # Safe(l) => node = {})
  /\ pc # "emptied" /\ (pc \in {"withdrawn", "downflap", "lock"} => node = {})

LEMMA OnlyListStep ==
  ASSUME NEW l, Lists = {l}, ~MayFail, ~MayCrash, OnlyList(l), [Next]_vars
  PROVE  OnlyList(l)'
<1> USE DEF OnlyList, world, files, run, history, Goto
<1>1. CASE Begin
  BY <1>1 DEF Begin
<1>2. CASE WriteOk \/ WriteFail \/ ReadPrefs
  BY <1>2 DEF WriteOk, WriteFail, ReadPrefs
<1>3. CASE DecideEmpty
  BY <1>3 DEF DecideEmpty, EmptyList
<1>4. CASE DecideWithdraw \/ DecideAdvertise \/ DecideNothing
  BY <1>4 DEF DecideWithdraw, DecideAdvertise, DecideNothing, Deciding, Apply, ApplyFails, WithdrawnNow, NotWithdrawn
<1>5. CASE Record \/ RecordFlap \/ Lock
  BY <1>5 DEF Record, Written, RecordFlap, Lock
<1>6. CASE Clock
  BY <1>6 DEF Clock
<1>7. CASE Edit \/ VpnTurns \/ Reset \/ Unlock \/ Crash
  BY <1>7 DEF Edit, VpnTurns, Reset, Unlock, Crash
<1>8. CASE UNCHANGED vars
  BY <1>8 DEF vars
<1> QED BY <1>1, <1>2, <1>3, <1>4, <1>5, <1>6, <1>7, <1>8 DEF Next, Step

(* The other streak, and that one of the two is always broken when a run   *)
(* decides.                                                                *)
FailInv ==
  /\ pc \notin {"ok", "fail"} => failRun = fail /\ (ok = 0 \/ fail = 0)
  /\ pc \in {"ok", "fail"} /\ probe => failRun = 0
  /\ pc \in {"ok", "fail"} /\ ~probe => failRun = UpTo(FailThreshold, fail + 1)
  /\ pc = "fail" /\ ~probe => ok = 0
  /\ pc \in {"advertised", "upflap"} => failRun = 0
  /\ DeadIsWithdrawn

LEMMA FailStep ==
  ASSUME NEW l, Lists = {l}, ~MayFail, ~MayCrash, TypeOK, OnlyList(l), LockedMeansWithdrawn, FailInv, [Next]_vars
  PROVE  FailInv'
<1> USE DEF FailInv, DeadIsWithdrawn, world, files, run, history, Goto
<1>0. /\ FailThreshold \in Nat /\ FailThreshold > 0 /\ OkThreshold \in Nat /\ OkThreshold > 0
      /\ ok \in Nat /\ fail \in 0..FailThreshold /\ probe \in BOOLEAN
  BY AgentAssumption DEF TypeOK, FlagsOK, DataOK
<1>1. CASE Begin
  <2>1. failRun = fail /\ fail' = fail /\ ok' = ok /\ pc' = "ok" /\ probe' = alive
    BY <1>1 DEF Begin
  <2>2. (alive => failRun' = 0) /\ (~alive => failRun' = UpTo(FailThreshold, failRun + 1))
    BY <1>1 DEF Begin
  <2> QED BY <2>1, <2>2
<1>2. CASE WriteOk
  <2>1. pc = "ok" /\ pc' = "fail" /\ UNCHANGED <<fail, failRun, probe>> /\ (~probe => ok' = 0)
    BY <1>2 DEF WriteOk
  <2> QED BY <2>1
<1>3. CASE WriteFail
  <2>1. /\ pc = "fail" /\ pc' = "prefs" /\ UNCHANGED <<ok, failRun>>
        /\ (probe => fail' = 0) /\ (~probe => fail' = UpTo(FailThreshold, fail + 1))
    BY <1>3 DEF WriteFail
  <2> QED BY <1>0, <2>1
<1>4. CASE ReadPrefs
  BY <1>4 DEF ReadPrefs
<1>5. CASE DecideEmpty
  BY <1>5 DEF DecideEmpty, EmptyList, OnlyList
<1>6. CASE DecideWithdraw
  <2>1. pc = "decide" /\ pc' \in {"withdrawn"} /\ UNCHANGED <<ok, fail, failRun, probe>>
    BY <1>6 DEF DecideWithdraw, Deciding, Apply, ApplyFails, WithdrawnNow, NotWithdrawn
  <2> QED BY <2>1
<1>7. CASE DecideAdvertise
  <2>1. pc = "decide" /\ pc' = "advertised" /\ UNCHANGED <<ok, fail, failRun, probe>> /\ ok >= OkThreshold
    BY <1>7 DEF DecideAdvertise, Deciding, Apply, ApplyFails, WithdrawnNow, NotWithdrawn, Advertise
  <2>2. ok # 0
    BY <1>0, <2>1
  <2> QED BY <2>1, <2>2
<1>8. CASE DecideNothing
  <2>1. pc = "decide" /\ pc' = "idle" /\ UNCHANGED <<ok, fail, failRun, probe, node>> /\ ~Withdraw
    BY <1>8 DEF DecideNothing, Deciding, NotWithdrawn
  <2>2. failRun = FailThreshold => node = {}
    <3> SUFFICES ASSUME failRun = FailThreshold PROVE node = {}
      OBVIOUS
    <3>1. fail >= FailThreshold
      BY <1>0, <2>1
    <3>2. want = {} \/ locked \/ cur # want
      BY <2>1, <3>1 DEF Withdraw
    <3> QED BY <2>1, <3>2 DEF OnlyList, LockedMeansWithdrawn
  <2> QED BY <2>1, <2>2
<1>9. CASE Record \/ RecordFlap \/ Lock
  <2>1. UNCHANGED <<ok, fail, failRun, probe, node>>
    BY <1>9 DEF Record, RecordFlap, Lock
  <2>2. CASE pc = "lock" /\ pc' = "idle"
    BY <2>1, <2>2 DEF OnlyList
  <2>3. CASE pc = "upflap" /\ pc' = "idle"
    BY <1>0, <2>1, <2>3
  <2>4. CASE pc = "advertised" /\ pc' = "upflap"
    BY <2>1, <2>4
  <2>5. CASE pc \in {"withdrawn", "downflap"} /\ pc' \in {"downflap", "lock"}
    BY <2>1, <2>5
  <2> QED BY <1>9, <2>2, <2>3, <2>4, <2>5 DEF Record, Written, RecordFlap, Lock, OnlyList
<1>10. CASE Clock
  BY <1>10 DEF Clock
<1>11. CASE Edit \/ VpnTurns \/ Reset \/ Unlock \/ Crash
  BY <1>11 DEF Edit, VpnTurns, Reset, Unlock, Crash
<1>12. CASE UNCHANGED vars
  BY <1>12 DEF vars
<1> QED BY <1>1, <1>2, <1>3, <1>4, <1>5, <1>6, <1>7, <1>8, <1>9, <1>10, <1>11, <1>12 DEF Next, Step

LEMMA OnlyListInit == ASSUME NEW l, Lists = {l}, Init PROVE OnlyList(l)
  BY DEF Init, OnlyList

(* With one list, commands that work and runs that are not killed, a run   *)
(* that ends with FailThreshold failures behind it leaves nothing          *)
(* advertised, for any list, thresholds and hold time and whatever the     *)
(* container, the operator and the VPN do (route-agent.sh:39, 140-153).    *)
THEOREM DeadIsNeverKept ==
  ASSUME NEW l, Lists = {l}, ~MayFail, ~MayCrash
  PROVE  Spec => []DeadIsWithdrawn
<1>1. Init => OnlyList(l) /\ FailInv
  <2>1. FailThreshold > 0
    BY AgentAssumption
  <2> QED BY <2>1, OnlyListInit DEF Init, FailInv, DeadIsWithdrawn
<1>2. TypeOK /\ LockedMeansWithdrawn /\ OnlyList(l) /\ FailInv /\ [Next]_vars => (OnlyList(l) /\ FailInv)'
  BY OnlyListStep, FailStep
<1>3. FailInv => DeadIsWithdrawn
  BY DEF FailInv
<1> QED BY <1>1, <1>2, <1>3, TypeCorrect, LockHolds, PTL DEF Spec

----------------------------------------------------------------------------
(* The count of the flaps file.                                            *)
LEMMA CountBound ==
  ASSUME NEW f \in Seq(0..Hour)
  PROVE  Cardinality({i \in DOMAIN f : f[i] < Hour}) \in 0..Len(f)
<1>1. Len(f) \in Nat
  OBVIOUS
<1>2. IsFiniteSet(1..Len(f)) /\ Cardinality(1..Len(f)) = Len(f)
  BY <1>1, FS_Interval
<1> DEFINE Recent == {i \in DOMAIN f : f[i] < Hour}
<1>3. Recent \subseteq 1..Len(f)
  OBVIOUS
<1>4. IsFiniteSet(Recent) /\ Cardinality(Recent) <= Len(f)
  BY <1>2, <1>3, FS_Subset
<1> QED BY <1>1, <1>4, FS_CardinalityType

LEMMA CountAged ==
  ASSUME flaps \in Seq(0..Hour), flaps' = [i \in DOMAIN flaps |-> UpTo(Hour, flaps[i] + 1)]
  PROVE  InHour' <= InHour
<1> DEFINE Before == {i \in DOMAIN flaps : flaps[i] < Hour}
           After == {i \in DOMAIN flaps' : flaps'[i] < Hour}
<1>1. DOMAIN flaps' = DOMAIN flaps /\ DOMAIN flaps = 1..Len(flaps) /\ Len(flaps) \in Nat
  OBVIOUS
<1>2. \A i \in DOMAIN flaps : flaps'[i] < Hour => flaps[i] < Hour
  BY Bounds DEF UpTo
<1>3. After \subseteq Before
  BY <1>1, <1>2
<1>4. IsFiniteSet(Before)
  <2>1. IsFiniteSet(1..Len(flaps))
    <3>1. Len(flaps) \in Nat
      BY <1>1
    <3> QED BY <3>1, FS_Interval
  <2>2. Before \subseteq 1..Len(flaps)
    BY <1>1
  <2> QED BY <2>1, <2>2, FS_Subset
<1>5. Cardinality(After) <= Cardinality(Before)
  BY <1>3, <1>4, FS_Subset
<1> QED BY <1>5 DEF InHour

LEMMA CountAppended ==
  ASSUME flaps \in Seq(0..Hour), NEW e \in 0..Hour, flaps' = Append(flaps, e)
  PROVE  InHour' <= InHour + 1
<1> DEFINE Before == {i \in DOMAIN flaps : flaps[i] < Hour}
           After == {i \in DOMAIN flaps' : flaps'[i] < Hour}
<1>1. DOMAIN flaps' = 1..(Len(flaps) + 1) /\ DOMAIN flaps = 1..Len(flaps) /\ Len(flaps) \in Nat
  OBVIOUS
<1>2. \A i \in 1..Len(flaps) : flaps'[i] = flaps[i]
  OBVIOUS
<1>3. After \subseteq Before \cup {Len(flaps) + 1}
  BY <1>1, <1>2
<1>4. IsFiniteSet(Before)
  <2>1. IsFiniteSet(1..Len(flaps))
    <3>1. Len(flaps) \in Nat
      BY <1>1
    <3> QED BY <3>1, FS_Interval
  <2>2. Before \subseteq 1..Len(flaps)
    BY <1>1
  <2> QED BY <2>1, <2>2, FS_Subset
<1> HIDE DEF Before, After
<1>5. /\ IsFiniteSet(Before \cup {Len(flaps) + 1}) /\ Cardinality(Before) \in Nat
      /\ Cardinality(Before \cup {Len(flaps) + 1}) <= Cardinality(Before) + 1
  <2>1. /\ IsFiniteSet(Before \cup {Len(flaps) + 1})
        /\ Cardinality(Before \cup {Len(flaps) + 1}) =
             IF Len(flaps) + 1 \in Before THEN Cardinality(Before) ELSE Cardinality(Before) + 1
    BY <1>4, FS_AddElement
  <2>2. Cardinality(Before) \in Nat
    BY <1>4, FS_CardinalityType
  <2> QED BY <2>1, <2>2
<1>6. Cardinality(After) <= Cardinality(Before \cup {Len(flaps) + 1})
  BY <1>3, <1>5, FS_Subset
<1>7. Cardinality(After) \in Nat /\ Cardinality(Before \cup {Len(flaps) + 1}) \in Nat
  BY <1>3, <1>5, FS_Subset, FS_CardinalityType
<1>8. Cardinality(After) <= Cardinality(Before) + 1
  BY <1>5, <1>6, <1>7
<1> QED BY <1>8 DEF InHour, Before, After

LEMMA CountPruned ==
  ASSUME flaps \in Seq(0..Hour), flaps' \in Seq(0..Hour),
         flaps' = SubSeq(flaps, Len(flaps) - InHour + 1, Len(flaps))
  PROVE  InHour' <= InHour
<1>1. InHour \in 0..Len(flaps) /\ Len(flaps) \in Nat
  BY InHourFacts
<1>2. Len(flaps') = InHour
  <2>1. Len(flaps) - InHour + 1 \in 1..(Len(flaps) + 1)
    BY <1>1
  <2> QED BY <1>1, <2>1, SubSeqProperties
<1>3. InHour' \in 0..Len(flaps')
  BY CountBound DEF InHour
<1> QED BY <1>1, <1>2, <1>3

(* Below the limit while withdrawn and unlocked, at it at most while       *)
(* advertised: changes alternate, and only a withdrawal locks.             *)
FlapInv == ~locked =>
  /\ pc \in {"advertised", "upflap"} => InHour < MaxFlaps /\ node # {}
  /\ pc \notin {"advertised", "upflap", "withdrawn", "downflap", "lock"} =>
       InHour <= MaxFlaps /\ (node = {} => InHour < MaxFlaps)

LEMMA CountType ==
  ASSUME TypeOK
  PROVE  InHour \in 0..Len(flaps) /\ Len(flaps) \in Nat /\ InHour \in Int /\ MaxFlaps \in Nat /\ MaxFlaps > 0
<1>1. flaps \in Seq(0..Hour)
  BY DEF TypeOK, DataOK
<1>2. InHour \in 0..Len(flaps) /\ Len(flaps) \in Nat
  BY <1>1, InHourFacts
<1> QED BY <1>2, AgentAssumption

LEMMA FlapStep ==
  ASSUME NEW l, Lists = {l}, ~MayFail, ~MayCrash, ~MayReset, ~MayUnlock,
         TypeOK, TypeOK', OnlyList(l), FlapInv, [Next]_vars
  PROVE  FlapInv'
<1> USE DEF FlapInv, world, files, run, history, Goto
<1>0. /\ flaps \in Seq(0..Hour) /\ flaps' \in Seq(0..Hour)
      /\ InHour \in Int /\ MaxFlaps \in Nat /\ MaxFlaps > 0 /\ locked \in BOOLEAN
  BY CountType DEF TypeOK, DataOK, FlagsOK
<1>a. InHour' \in Int /\ InHour' <= Len(flaps')
  <2>1. InHour' \in 0..Len(flaps')
    BY <1>0, CountBound DEF InHour
  <2>2. Len(flaps') \in Nat
    BY <1>0
  <2> QED BY <2>1, <2>2
<1>b. flaps' = flaps => InHour' = InHour
  BY DEF InHour
<1>1. CASE Begin \/ WriteOk \/ WriteFail
  BY <1>1, <1>b DEF Begin, WriteOk, WriteFail
<1>2. CASE ReadPrefs
  <2>1. InHour' <= InHour
    BY <1>0, <1>2, CountPruned DEF ReadPrefs
  <2>2. pc = "prefs" /\ pc' = "decide" /\ node' = node /\ locked' = locked
    BY <1>2 DEF ReadPrefs
  <2> QED BY <1>0, <1>a, <2>1, <2>2
<1>3. CASE DecideEmpty
  BY <1>3 DEF DecideEmpty, EmptyList, OnlyList
<1>4. CASE DecideWithdraw
  BY <1>4, <1>b DEF DecideWithdraw, Deciding, Apply, ApplyFails, WithdrawnNow, NotWithdrawn
<1>5. CASE DecideAdvertise
  <2>1. /\ pc = "decide" /\ pc' = "advertised" /\ locked' = locked /\ InHour' = InHour
        /\ cur # want /\ node' # {}
    BY <1>5, <1>b DEF DecideAdvertise, Advertise, Deciding, Apply, ApplyFails, WithdrawnNow, NotWithdrawn
  <2>2. node = {}
    BY <2>1 DEF OnlyList
  <2> QED BY <2>1, <2>2
<1>6. CASE DecideNothing
  BY <1>6, <1>b DEF DecideNothing, Deciding, NotWithdrawn
<1>7. CASE Record
  BY <1>7, <1>b DEF Record, Written, OnlyList
<1>8. CASE RecordFlap
  <2>1. CASE pc = "downflap" /\ pc' = "lock"
    BY <2>1
  <2>2. CASE pc = "upflap" /\ pc' = "idle"
    <3>1. UpTo(Hour, age) \in 0..Hour
      BY AgeFacts DEF TypeOK, DataOK
    <3>2. InHour' <= InHour + 1
      BY <1>0, <1>8, <3>1, CountAppended DEF RecordFlap
    <3>3. node' = node /\ locked' = locked /\ (~locked => node # {})
      BY <1>8, <2>2 DEF RecordFlap
    <3> QED BY <1>0, <1>a, <2>2, <3>2, <3>3
  <2> QED BY <1>8, <2>1, <2>2 DEF RecordFlap
<1>9. CASE Lock
  <2>1. pc' = "idle" /\ flaps' = flaps /\ (~locked' => ~(Len(flaps) >= MaxFlaps))
    BY <1>9 DEF Lock
  <2>2. Len(flaps) \in Nat
    BY <1>0
  <2> QED BY <1>0, <1>a, <2>1, <2>2
<1>10. CASE Clock
  <2>1. InHour' <= InHour
    BY <1>0, <1>10, CountAged DEF Clock
  <2>2. UNCHANGED <<pc, node, locked>>
    BY <1>10 DEF Clock
  <2> QED BY <1>0, <1>a, <2>1, <2>2
<1>11. CASE Edit \/ VpnTurns \/ Reset \/ Unlock \/ Crash
  BY <1>11, <1>b DEF Edit, VpnTurns, Reset, Unlock, Crash, OnlyList
<1>12. CASE UNCHANGED vars
  BY <1>12, <1>b DEF vars
<1> QED BY <1>1, <1>2, <1>3, <1>4, <1>5, <1>6, <1>7, <1>8, <1>9, <1>10, <1>11, <1>12 DEF Next, Step

(* With one list, commands that work, runs that are not killed, a node     *)
(* whose container does not restart and a lock that nobody removes, more   *)
(* than MAX_FLAPS changes within an hour lock the agent, for any limit,    *)
(* window, thresholds and hold time (route-agent.sh:42, 110-118, 140-153). *)
THEOREM FlappingLocks ==
  ASSUME NEW l, Lists = {l}, ~MayFail, ~MayCrash, ~MayReset, ~MayUnlock
  PROVE  Spec => []ManyFlapsLock
<1>1. Init => OnlyList(l) /\ FlapInv
  <2> SUFFICES ASSUME Init PROVE OnlyList(l) /\ FlapInv
    OBVIOUS
  <2>1. InHour = 0
    <3>1. {i \in DOMAIN flaps : flaps[i] < Hour} = {}
      BY DEF Init
    <3> QED BY <3>1, FS_EmptySet DEF InHour
  <2>2. MaxFlaps \in Nat /\ MaxFlaps > 0
    BY AgentAssumption
  <2>3. FlapInv
    BY <2>1, <2>2 DEF Init, FlapInv
  <2> QED BY <2>3, OnlyListInit
<1>2. TypeOK /\ TypeOK' /\ OnlyList(l) /\ FlapInv /\ [Next]_vars => (OnlyList(l) /\ FlapInv)'
  BY OnlyListStep, FlapStep
<1>3. TypeOK /\ FlapInv => ManyFlapsLock
  <2>1. TypeOK => InHour \in Int /\ MaxFlaps \in Nat
    BY CountType
  <2> QED BY <2>1 DEF FlapInv, ManyFlapsLock, TypeOK, FlagsOK
<1> QED BY <1>1, <1>2, <1>3, TypeCorrect, PTL DEF Spec
=============================================================================
