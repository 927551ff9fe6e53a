------------------------------- MODULE KeySync -------------------------------
(***************************************************************************)
(* The end of pgstore.sh's verify, call by call: pgstore-keys.py `sync`    *)
(* appends the wanted API keys that are missing, `check` calls the proxy    *)
(* with each, and a failure of either brings the proxy back to its files    *)
(* and does both again.  PgStore takes each for one step; here users edit   *)
(* keys and the management key between any two calls, a call may fail or    *)
(* lose its answer, and the proxy accepts a key only after it has reloaded. *)
(***************************************************************************)
EXTENDS Integers, FiniteSets

CONSTANTS
  Keys, Wanted,     \* API keys, and those of .keys-wanted
  FileKeys,         \* those of config.yaml
  MaxEdits          \* bound on what users change

KeySyncAssumption ==
  MaxEdits \in Nat /\ Wanted \subseteq Keys /\ Wanted # {} /\ FileKeys \subseteq Keys

VARIABLES
  keys, accepted,   \* keys of the configuration, and those calls are let in with
  mgmt, dsn,        \* the management key is right; the store is on
  pc, present, left,    \* next call; keys as read, keys still to add or call
  rejected, second,     \* MGMT_REJECTED; this is the rollback's turn
  edits, gone, wrong   \* history: see Web, Refused

proxy == <<keys, accepted, mgmt>>
script == <<pc, present, left, rejected, second, dsn>>
vars == <<proxy, script, edits, gone, wrong>>

TypeOK ==
  /\ keys \subseteq Keys /\ accepted \subseteq Keys /\ mgmt \in BOOLEAN /\ dsn \in BOOLEAN
  /\ pc \in {"ready", "read", "patch", "reread", "check", "rollback", "green", "red"}
  /\ present \subseteq Keys /\ left \subseteq Wanted
  /\ rejected \in BOOLEAN /\ second \in BOOLEAN
  /\ edits \in 0..MaxEdits /\ gone \subseteq Keys /\ wrong \in Nat
  /\ second => dsn

(* The proxy has just been created: it accepts the keys it has read.       *)
Init ==
  /\ keys \in SUBSET Keys /\ accepted = keys /\ mgmt \in BOOLEAN /\ dsn \in BOOLEAN
  /\ pc = "ready" /\ present = {} /\ left = {} /\ rejected = FALSE /\ second = FALSE
  /\ edits = 0 /\ gone = {} /\ wrong = 0

----------------------------------------------------------------------------
Goto(p, l) == pc' = p /\ left' = l

(* mutant: rolled back although no store was turned on *)
FailedAlways(next) == IF second THEN next ELSE Goto("rollback", {})

(* An exit code other than 0 and 3 of sync, or any of check: verify rolls   *)
(* back or is red; the rollback's own sync and check are `|| true`.         *)
Failed(next) == IF second THEN next ELSE IF dsn THEN Goto("rollback", {}) ELSE Goto("red", {})
SyncFailed == Failed(Goto("check", Wanted))
CheckFailed == Failed(Goto("red", {}))

Ready ==
  /\ pc = "ready"
  /\ Goto("read", {}) \/ SyncFailed
  /\ UNCHANGED <<proxy, present, rejected, second, dsn, edits, gone, wrong>>

(* Exit code 3, in GET only: verify goes on to the check.                   *)
Refused == ~mgmt /\ wrong' = wrong + 1
Answered == mgmt /\ UNCHANGED wrong

Read ==
  /\ pc = "read" /\ UNCHANGED <<proxy, second, dsn, edits, gone>>
  /\ \/ Refused /\ rejected' = TRUE /\ Goto("check", Wanted) /\ UNCHANGED present
     \/ Answered /\ SyncFailed /\ UNCHANGED <<present, rejected>>
     \/ Answered /\ present' = keys /\ Goto("patch", Wanted \ keys) /\ UNCHANGED rejected

(* mutant: the list is put as it was read, with the missing keys *)
PatchPut ==
  /\ pc = "patch" /\ left # {} /\ UNCHANGED <<accepted, mgmt, present, rejected, second, dsn, edits, gone>>
  /\ Answered /\ keys' = present \cup left /\ Goto("patch", {})

(* mutant: a refused PATCH is made again *)
PatchAgain ==
  /\ pc = "patch" /\ left # {} /\ UNCHANGED <<accepted, mgmt, present, rejected, second, dsn, edits, gone>>
  /\ \E k \in left :
       \/ Refused /\ wrong < 9 /\ UNCHANGED <<keys, pc, left>>
       \/ Answered /\ keys' = keys \cup {k} /\ Goto("patch", left \ {k})

(* One key, added to those the proxy has then, whatever was read.           *)
Patch ==
  /\ pc = "patch" /\ left # {} /\ UNCHANGED <<accepted, mgmt, present, rejected, second, dsn, edits, gone>>
  /\ \E k \in left :
       \/ Refused /\ SyncFailed /\ UNCHANGED keys
       \/ Answered /\ (keys' = keys \cup {k} \/ UNCHANGED keys) /\ SyncFailed
       \/ Answered /\ keys' = keys \cup {k} /\ Goto("patch", left \ {k})

Patched ==
  /\ pc = "patch" /\ left = {} /\ Goto("reread", {})
  /\ UNCHANGED <<proxy, present, rejected, second, dsn, edits, gone, wrong>>

Reread ==
  /\ pc = "reread" /\ UNCHANGED <<proxy, second, dsn, edits, gone>>
  /\ \/ Refused /\ rejected' = TRUE /\ Goto("check", Wanted) /\ UNCHANGED present
     \/ Answered /\ SyncFailed /\ UNCHANGED <<present, rejected>>
     \/ Answered /\ Wanted \subseteq keys /\ Goto("check", Wanted) /\ present' = keys /\ UNCHANGED rejected

----------------------------------------------------------------------------
(* check: each key until it was let in once, or the time is up.             *)
Call ==
  /\ pc = "check"
  /\ \E k \in left \cap accepted : Goto("check", left \ {k})
  /\ UNCHANGED <<proxy, present, rejected, second, dsn, edits, gone, wrong>>

(* mutant: one key that was let in is enough *)
CheckedAny ==
  /\ pc = "check" /\ left # Wanted /\ Goto(IF second THEN "red" ELSE "green", {})
  /\ UNCHANGED <<proxy, present, rejected, second, dsn, edits, gone, wrong>>

Checked ==
  /\ pc = "check" /\ left = {} /\ Goto(IF second THEN "red" ELSE "green", {})
  /\ UNCHANGED <<proxy, present, rejected, second, dsn, edits, gone, wrong>>

TimeUp ==
  /\ pc = "check" /\ left # {} /\ CheckFailed
  /\ UNCHANGED <<proxy, present, rejected, second, dsn, edits, gone, wrong>>

(* rollback: the proxy is created again on its files, which the seeding run *)
(* left alone and any other run first brings up to date; a management key   *)
(* that was refused with code 3 is not tried again.                         *)
Rollback ==
  /\ pc = "rollback" /\ second' = TRUE
  /\ keys' \in {FileKeys, keys} /\ accepted' = keys'
  /\ IF rejected THEN Goto("check", Wanted) ELSE Goto("ready", {})
  /\ UNCHANGED <<mgmt, present, rejected, dsn, edits, gone, wrong>>

----------------------------------------------------------------------------
(* External: the proxy reloads its configuration some time after a change;  *)
(* users add and remove keys and change the management key.                *)
Reload ==
  /\ accepted # keys /\ accepted' = keys
  /\ UNCHANGED <<keys, mgmt, script, edits, gone, wrong>>

Web ==
  /\ edits < MaxEdits /\ edits' = edits + 1
  /\ \/ \E k \in Keys : keys' = keys \cup {k} /\ UNCHANGED <<mgmt, gone>>
     \/ \E k \in keys : keys' = keys \ {k} /\ gone' = gone \cup {k} /\ UNCHANGED mgmt
     \/ mgmt /\ mgmt' = FALSE /\ UNCHANGED <<keys, gone>>
  /\ UNCHANGED <<accepted, script, wrong>>

Verify == Ready \/ Read \/ Patch \/ Patched \/ Reread \/ Call \/ Checked \/ TimeUp \/ Rollback
Next == Verify \/ Reload \/ Web
Spec == Init /\ [][Next]_vars

----------------------------------------------------------------------------
(* Green means that every wanted key is in the configuration and is let in, *)
(* unless a user removed it since (pgstore-keys.py:2 and 245-246), whether  *)
(* sync added it, found it or was refused.                                 *)
GreenMeansUsable == pc = "green" => Wanted \ gone \subseteq keys \cap accepted

(* pgstore-keys.py:20-21 "Khong bao gio xoa khoa nao": but for the change   *)
(* of stores, no step of the script takes a key away, not even one a user   *)
(* added after sync read the list.                                         *)
OnlyAdds == [][Verify => keys \subseteq keys' \/ pc = "rollback"]_vars

(* pgstore-keys.py:204 "KHONG thu lai: sai management key 5 lan la IP bi    *)
(* ban 30 phut": not in the rollback either.                               *)
NeverBanned == wrong < 5

(* pgstore-keys.py:205 "Ma thoat 3 rieng de pgstore.sh phan biet voi loi    *)
(* kho (khong rollback)": a deploy whose only trouble is the management     *)
(* key does not roll the store back.                                       *)
NoRollbackForKey == [][pc' = "rollback" /\ pc # "check" => wrong' = wrong]_vars
=============================================================================
