---------------------------- MODULE PgStoreProofs ----------------------------
(***************************************************************************)
(* Proofs about PgStore: every safety property its run checks, for any     *)
(* keys, providers and tokens, any number of deploys and edits, and        *)
(* whether or not a seed can stop half-way.                                *)
(***************************************************************************)
EXTENDS PgStore, TLAPS

(* Where a deploy stands: before docker compose up, after it, and going    *)
(* back; a deploy that is "idle" or "failed" promises nothing.             *)
Early  == {"render", "snapshot", "store", "seed"}
Before == Early \cup {"seedauth", "plugin", "setconfig", "up"}
After  == {"verify", "sync", "check", "tokens", "green"}
Undone == {"back", "resync", "restored"}
Promised == Before \cup After \cup {"rollback"} \cup Undone

(* Unless a restart met an emptied database, the sample key is in no place *)
(* the proxy or a deploy takes keys from, because a store that is switched *)
(* on has a config.                                                        *)
Clean == Sample \notin files.cfg /\ Sample \notin spool.cfg /\ Sample \notin db.cfg

NoSample ==
  /\ ~reborn => Clean /\ Sample \notin copy
  /\ Sample \notin wanted
  /\ dsn => db.cfg # NoConfig
  /\ mode = "db" => spool.cfg # NoConfig
  /\ pc \in Early => copy # NoConfig
  /\ pc \in {"seedauth", "setconfig"} => db.cfg # NoConfig
  /\ pc = "setconfig" => copy # NoConfig

(* Which store is on follows from where the deploy stands.                 *)
Placed ==
  /\ pc \in After => mode = "file" \/ dsn
  /\ pc \in After /\ dsn => mode \in {"db", "down"}
  /\ pc \in After \ {"verify"} => mode # "down"
  /\ pc = "rollback" => dsn
  /\ pc \in Undone => ~dsn
  /\ pc \in {"resync", "restored"} => mode = "file"
  /\ pc = "setconfig" => dsn

(* What db held at the start of a deploy stays in it: only a seed of an    *)
(* empty db is undone, only what was dumped after the start is written     *)
(* back, and the proxy writes through a spool that agrees with db.         *)
Stored ==
  /\ DbIsKept
  /\ db.cfg = NoConfig => stored = {}
  /\ pc = "seedauth" => stored = {}
  /\ pc \in (Before \ {"render", "snapshot", "store"}) \cup After \cup {"rollback"} /\ Seeded
       => stored = {}
  /\ pc = "setconfig" => stored \ Tokens \subseteq copy
  /\ pc \in After \cup {"rollback"} /\ mode = "db" => spool.cfg = db.cfg

(* Every API key in use at the start is in a copy the snapshot reads, then *)
(* in .keys-wanted, then in use again.                                     *)
KeysKept ==
  /\ pc \in {"render", "snapshot"} => kept \cap Keys \subseteq copy \cup Contents(spool)
  /\ pc \in Promised \ {"render", "snapshot"} => kept \cap Keys \subseteq wanted
  /\ pc \in {"tokens", "green", "restored"} => kept \cap Keys \subseteq InUse
  /\ Sample \notin kept

(* A deploy that began with the store on has what it is to keep in the     *)
(* spool for as long as the DSN is set, and in the files afterwards.       *)
WebKept ==
  /\ began = "db" /\ pc \in Before \ {"up"} => dsn /\ mode = "db"
  /\ began = "db" /\ pc \in Promised => ~Seeded \/ pc \in {"render", "snapshot", "store"} \cup Undone
  /\ began = "db" /\ pc \in Promised
       => kept \cap stored \subseteq Contents(IF dsn THEN spool ELSE files)
  /\ began = "db" => pc # "seedauth"

(* A deploy that began with files keeps their tokens there, and one that   *)
(* turns an empty store on has them in db before the proxy reads it, and   *)
(* whenever it is restarted.                                               *)
TokensKept ==
  /\ began \in {"seed", "file"} => kept \cap Tokens \subseteq files.auths
  /\ began = "seed" /\ pc \in Before => mode = "file"
  /\ began = "seed" /\ pc \in Early => db = Empty
  /\ began = "seed" /\ pc = "seedauth" => half
  /\ began = "seed" /\ pc \in {"plugin", "setconfig", "up"} \cup After /\ dsn
       => kept \cap Tokens \subseteq db.auths
  /\ began = "seed" /\ mode = "db" /\ pc \in After => kept \cap Tokens \subseteq spool.auths

(* A seed is half-way only between its two halves, or after it stopped.    *)
HalfSeeded == half => pc = "seedauth" \/ SeedStops

StoreInv == /\ TypeOK /\ NoSample /\ Placed /\ Stored /\ KeysKept /\ WebKept /\ TokensKept
            /\ HalfSeeded

----------------------------------------------------------------------------
(* The sample key is a key and no token, and no config is the missing one. *)
LEMMA Names ==
  /\ Sample \in Keys /\ Sample \notin Tokens /\ Sample \notin Shared
  /\ Sample \notin NoConfig /\ NoConfig \notin Config
  /\ Shared \in Config /\ {Sample} \in Config /\ Shared # NoConfig /\ {Sample} # NoConfig
  /\ DeepSeek \subseteq Tokens /\ Keys \cap Tokens = {} /\ Providers \cap Tokens = {}
  /\ \A c \in Config : c # NoConfig
<1>1. Nothing \notin Keys \cup Providers
  BY PgStoreAssumption
<1>2. \A c \in Config : c # NoConfig
  BY <1>1 DEF Config, NoConfig
<1> QED
  BY <1>1, <1>2, PgStoreAssumption DEF Config, NoConfig

(* A config row that is not missing is a set of keys and providers.        *)
LEMMA Rows ==
  ASSUME TypeOK
  PROVE  /\ files.cfg \in Config /\ files.auths \subseteq Tokens
         /\ spool.auths \subseteq Tokens /\ db.auths \subseteq Tokens
         /\ spool.cfg # NoConfig => spool.cfg \in Config
         /\ db.cfg # NoConfig => db.cfg \in Config
         /\ files = [cfg |-> files.cfg, auths |-> files.auths]
         /\ spool = [cfg |-> spool.cfg, auths |-> spool.auths]
         /\ db = [cfg |-> db.cfg, auths |-> db.auths]
  BY DEF TypeOK, Store

(* What the proxy does with a store it saves.                              *)
LEMMA SaveDoes ==
  ASSUME TypeOK, NEW s \in [cfg : Config, auths : SUBSET Tokens], NEW auths \in SUBSET Tokens,
         Save(s, auths)
  PROVE  \/ mode = "file" /\ files' = s /\ spool' = spool /\ db' = db
         \/ /\ mode = "db" /\ spool' = s /\ files' = files /\ db' \in Store
            /\ db' = [cfg |-> IF s.cfg = spool.cfg THEN db.cfg ELSE s.cfg, auths |-> auths]
  BY Rows DEF Save, TypeOK, Store

(* What a user's edit may do: it touches one store, and what the user did  *)
(* not remove stays where it was.                                          *)
LEMMA EditDoes ==
  ASSUME TypeOK, NoSample, NEW x \in Keys \cup Providers \cup Tokens,
         (x # Sample /\ Add(x)) \/ Remove(x)
  PROVE  /\ UNCHANGED <<mode, dsn, state, wanted, copy, secret, pc, deploys, began, half, reborn>>
         /\ edits' \in 0..MaxEdits
         /\ files' \in Store /\ spool' \in Store /\ db' \in Store
         /\ \/ mode = "file" /\ spool' = spool /\ db' = db /\ files'.cfg \in Config
            \/ /\ mode = "db" /\ files' = files /\ spool'.cfg \in Config
               /\ db'.cfg = IF spool'.cfg = spool.cfg THEN db.cfg ELSE spool'.cfg
         /\ Clean => Clean'
         /\ kept' \subseteq kept /\ stored' = stored \cap Contents(db')
         /\ kept' \cap Contents(files) \subseteq Contents(files')
         /\ kept' \cap Contents(spool) \subseteq Contents(spool')
         /\ kept' \cap files.auths \subseteq files'.auths
         /\ kept' \cap spool.auths \subseteq spool'.auths
         /\ kept' \cap db.auths \subseteq db'.auths
<1>1. /\ Live \in [cfg : Config, auths : SUBSET Tokens]
      /\ Live = IF mode = "db" THEN spool ELSE files
  BY Names, Rows DEF NoSample, TypeOK, Store, Live
<1>2. /\ UNCHANGED <<mode, dsn, state, wanted, copy, secret, pc, deploys, began, half, reborn>>
      /\ edits' \in 0..MaxEdits /\ stored' = stored \cap Contents(db')
      /\ kept' = kept \/ kept' = kept \ {x}
  BY PgStoreAssumption DEF Add, Remove, Edited, TypeOK
<1>3. \E s \in [cfg : Config, auths : SUBSET Tokens], auths \in SUBSET Tokens :
         /\ Save(s, auths) /\ (Sample \in s.cfg => Sample \in Live.cfg)
         /\ kept' \cap Live.cfg \subseteq s.cfg /\ kept' \cap Live.auths \subseteq s.auths
         /\ kept' \cap db.auths \subseteq auths
  <2>1. CASE x # Sample /\ Add(x)
    <3>1. /\ Plus(Live, x) \in [cfg : Config, auths : SUBSET Tokens]
          /\ Live.cfg \subseteq Plus(Live, x).cfg /\ Live.auths \subseteq Plus(Live, x).auths
          /\ Sample \in Plus(Live, x).cfg => Sample \in Live.cfg
      BY <1>1, <2>1 DEF Plus, Config
    <3>2. Plus(db, x).auths \in SUBSET Tokens /\ db.auths \subseteq Plus(db, x).auths
      BY Rows DEF Plus
    <3> QED
      BY <2>1, <3>1, <3>2 DEF Add
  <2>2. CASE Remove(x)
    <3>1. /\ Minus(Live, x) \in [cfg : Config, auths : SUBSET Tokens]
          /\ Live.cfg \ {x} \subseteq Minus(Live, x).cfg
          /\ Live.auths \ {x} \subseteq Minus(Live, x).auths
          /\ Sample \in Minus(Live, x).cfg => Sample \in Live.cfg
      BY <1>1 DEF Minus, Config
    <3>2. Minus(db, x).auths \in SUBSET Tokens /\ db.auths \ {x} \subseteq Minus(db, x).auths
      BY Rows DEF Minus
    <3>3. kept' = kept \ {x}
      BY <2>2 DEF Remove
    <3> QED
      BY <2>2, <3>1, <3>2, <3>3 DEF Remove
  <2> QED
    BY <2>1, <2>2
<1>4. PICK s \in [cfg : Config, auths : SUBSET Tokens], auths \in SUBSET Tokens :
         /\ Save(s, auths) /\ (Sample \in s.cfg => Sample \in Live.cfg)
         /\ kept' \cap Live.cfg \subseteq s.cfg /\ kept' \cap Live.auths \subseteq s.auths
         /\ kept' \cap db.auths \subseteq auths
  BY <1>3
<1>5. CASE mode = "file"
  <2>1. files' = s /\ spool' = spool /\ db' = db /\ Live = files
    BY <1>1, <1>4, <1>5, SaveDoes
  <2> QED
    BY <1>2, <1>4, <1>5, <2>1, Names, Rows DEF TypeOK, NoSample, Contents, Store, Clean
<1>6. CASE mode = "db"
  <2>1. /\ files' = files /\ spool' = s /\ Live = spool /\ db' \in Store
        /\ db'.cfg = IF s.cfg = spool.cfg THEN db.cfg ELSE s.cfg
        /\ db'.auths = auths
    BY <1>1, <1>4, <1>6, SaveDoes
  <2> QED
    BY <1>2, <1>4, <1>6, <2>1, Names, Rows DEF TypeOK, NoSample, Contents, Store, Clean
<1> QED
  BY <1>4, <1>5, <1>6, SaveDoes

(* What adding keys does: they join the config in use, and the proxy       *)
(* writes it through.                                                      *)
Joined(ks) ==
  /\ files' \in Store /\ spool' \in Store /\ db' \in Store
  /\ files'.auths = files.auths /\ spool'.auths = spool.auths /\ db'.auths = db.auths
  /\ \/ mode = "file" /\ spool' = spool /\ db' = db /\ files'.cfg = files.cfg \cup ks
     \/ /\ mode = "db" /\ files' = files /\ spool'.cfg = spool.cfg \cup ks
        /\ db'.cfg = IF spool'.cfg = spool.cfg THEN db.cfg ELSE spool'.cfg
  /\ files'.cfg # NoConfig /\ (spool.cfg # NoConfig => spool'.cfg # NoConfig)
  /\ Clean => Clean'

LEMMA KeysDo ==
  ASSUME TypeOK, NoSample, NEW ks \in SUBSET wanted, AddKeys(ks)
  PROVE  Joined(ks)
<1>1. /\ Live \in [cfg : Config, auths : SUBSET Tokens]
      /\ Live = IF mode = "db" THEN spool ELSE files
  BY Names, Rows DEF NoSample, TypeOK, Store, Live
<1> DEFINE s == [Live EXCEPT !.cfg = @ \cup ks]
<1>2. ks \subseteq Keys /\ Sample \notin ks
  BY DEF TypeOK, NoSample
<1>3. /\ s = [cfg |-> Live.cfg \cup ks, auths |-> Live.auths]
      /\ s \in [cfg : Config, auths : SUBSET Tokens] /\ db.auths \in SUBSET Tokens
  BY <1>1, <1>2, Rows DEF Config
<1>4. Save(s, db.auths)
  BY DEF AddKeys
<1>5. CASE mode = "file"
  <2>1. files' = s /\ spool' = spool /\ db' = db /\ Live = files
    BY <1>1, <1>3, <1>4, <1>5, SaveDoes
  <2> QED
    BY <1>2, <1>3, <1>5, <2>1, Names DEF TypeOK, NoSample, Store, Joined, Clean
<1>6. CASE mode = "db"
  <2>1. /\ files' = files /\ spool' = s /\ Live = spool /\ db' \in Store
        /\ db' = [cfg |-> IF s.cfg = spool.cfg THEN db.cfg ELSE s.cfg, auths |-> db.auths]
    BY <1>1, <1>3, <1>4, <1>6, SaveDoes
  <2> QED
    BY <1>2, <1>3, <1>6, <2>1, Names DEF TypeOK, NoSample, Store, Joined, Clean
<1> QED
  BY <1>3, <1>4, <1>5, <1>6, SaveDoes

(* What a restart does: spool and db agree, tokens stay, and only a        *)
(* database without a config is given the sample.                          *)
LEMMA RestartDoes ==
  ASSUME TypeOK, NoSample, Restart
  PROVE  /\ UNCHANGED <<files, dsn, state, wanted, copy, secret, pc, deploys, edits, stored,
                        began, half>>
         /\ mode \in {"db", "down"} /\ mode' = "db" /\ spool' = db' /\ db' \in Store
         /\ db'.cfg # NoConfig /\ db'.auths = db.auths
         /\ db.cfg # NoConfig => db' = db
         /\ db.cfg = NoConfig => reborn' = TRUE
         /\ reborn' \in BOOLEAN /\ (reborn => reborn')
         /\ kept' \subseteq kept
         /\ pc \in {"render", "snapshot"} => kept' \subseteq copy \cup Contents(db')
<1>1. /\ UNCHANGED <<files, dsn, state, wanted, copy, secret, pc, deploys, edits, stored,
                     began, half>>
      /\ mode \in {"db", "down"} /\ mode' = "db" /\ spool' = db'
      /\ db' = IF db.cfg = NoConfig THEN [db EXCEPT !.cfg = {Sample}] ELSE db
  BY DEF Restart, ReadDb
<1>2. /\ reborn' = (reborn \/ (db.cfg = NoConfig /\ ~dsn)) /\ reborn \in BOOLEAN
      /\ db.cfg = NoConfig => ~dsn
  BY DEF Restart, TypeOK, NoSample
<1>3. /\ kept' \subseteq kept
      /\ pc \in {"render", "snapshot"} => kept' \subseteq copy \cup Contents(db')
  BY DEF Restart
<1>4. /\ db' \in Store /\ db'.cfg # NoConfig /\ db'.auths = db.auths
      /\ db.cfg # NoConfig => db' = db
  BY <1>1, Names, Rows DEF Store, TypeOK
<1>5. /\ db.cfg = NoConfig => reborn' = TRUE
      /\ reborn' \in BOOLEAN /\ (reborn => reborn')
  BY <1>2, Zenon
<1> QED
  BY <1>1, <1>3, <1>4, <1>5

(* What a sync may do: keys of .keys-wanted join the config in use, and    *)
(* only all that are missing make a deploy restored.                       *)
LEMMA SyncDoes ==
  ASSUME TypeOK, NoSample, Sync \/ Resync
  PROVE  /\ UNCHANGED <<mode, dsn, wanted, copy, half, secret, deploys, edits, history>>
         /\ \/ pc = "sync" /\ pc' \in {"check", IF dsn THEN "rollback" ELSE "failed"}
            \/ pc = "resync" /\ pc' = "failed" /\ UNCHANGED state
            \/ pc = "resync" /\ pc' = "restored" /\ UNCHANGED state /\ Joined(wanted \ Live.cfg)
         /\ state' = state \/ state' = [state EXCEPT !.rejected = TRUE]
         /\ UNCHANGED <<files, db, spool>> \/ \E ks \in SUBSET wanted : Joined(ks)
<1>1. \A ks \in SUBSET wanted : AddKeys(ks) => Joined(ks)
  BY KeysDo
<1> HIDE DEF AddKeys, Joined
<1> QED
  BY <1>1 DEF Sync, Resync, Missing, Fails, Same

(* The parts of TypeOK, by what they are about.                            *)
StoresTyped == files \in Store /\ files.cfg # NoConfig /\ db \in Store /\ spool \in Store
StateTyped ==
  state \in [cfg : {"unset", "0", "1"}, auth : {"unset", "0", "n"},
             failed : BOOLEAN, rejected : BOOLEAN]
PlaceTyped ==
  /\ mode \in {"file", "db", "down"} /\ dsn \in BOOLEAN /\ secret \in BOOLEAN
  /\ pc \in Ended \cup Running /\ began \in {"seed", "file", "db", "cut"} /\ half \in BOOLEAN
  /\ reborn \in BOOLEAN
RestTyped ==
  /\ wanted \subseteq Keys /\ copy \in Config \cup {NoConfig}
  /\ deploys \in 0..MaxDeploys /\ edits \in 0..MaxEdits
  /\ kept \subseteq Keys \cup Providers \cup Tokens
  /\ stored \subseteq Keys \cup Providers \cup Tokens

(* A step keeps the types.                                                *)
LEMMA TypedStep ==
  ASSUME StoreInv, [Next]_vars
  PROVE  TypeOK'
<1> USE Names, Rows
   DEF StoreInv, TypeOK, NoSample, Store, Empty, Fresh, Early, Same, Goto, history,
       Running, Ended
<1>0. TypeOK /\ StoresTyped /\ StateTyped /\ PlaceTyped /\ RestTyped
  BY Zenon DEF StoresTyped, StateTyped, PlaceTyped, RestTyped
<1>1. CASE CheckStore
  <2>1. /\ pc' \in {"seed", "plugin"}
        /\ UNCHANGED <<files, db, spool, mode, dsn, wanted, copy, half, secret, deploys, edits>>
        /\ UNCHANGED <<kept, stored, began, reborn>>
    BY <1>1 DEF CheckStore
  <2>2. state' \in [cfg : {"unset", "0", "1"}, auth : {"unset", "0", "n"},
                   failed : BOOLEAN, rejected : BOOLEAN]
    <3>1. \E ok \in BOOLEAN : state' = [Fresh EXCEPT !.failed = ~ok]
      BY <1>1 DEF CheckStore
    <3> HIDE Names, Rows DEF StoreInv, TypeOK, NoSample, Store, Empty, Early, Same, Goto, history
    <3> QED
      BY <3>1
  <2> HIDE Names, Rows DEF StoreInv, TypeOK, NoSample, Store, Empty, Fresh, Early, Same, Goto, history, Ended
  <2>3. StoresTyped'
    BY <1>0, <2>1 DEF StoresTyped
  <2>4. StateTyped'
    BY <1>0, <2>2 DEF StateTyped
  <2>5. PlaceTyped'
    BY <1>0, <2>1 DEF PlaceTyped, Running, Ended
  <2>6. RestTyped'
    BY <1>0, <2>1 DEF RestTyped
  <2> QED
    BY <2>3, <2>4, <2>5, <2>6, Zenon
       DEF TypeOK, StoresTyped, StateTyped, PlaceTyped, RestTyped
<1>2. CASE KeepStore
  BY <1>2 DEF KeepStore
<1>3. CASE Begin
  <2>1. InUse \subseteq Keys \cup Providers \cup Tokens
    BY DEF Config, InUse, Live, Contents
  <2>2. Contents(db) \subseteq Keys \cup Providers \cup Tokens
    BY DEF Config, Contents
  <2>3. files' \in Store /\ files'.cfg # NoConfig /\ deploys' \in 0..MaxDeploys
    BY <1>3, PgStoreAssumption DEF Begin
  <2> QED
    BY <1>3, <2>1, <2>2, <2>3 DEF Begin
<1>4. CASE SeedConfig
  BY <1>4 DEF SeedConfig, Source
<1>5. CASE SeedAuth
  <2>1. db' \in Store
    <3>1. db' = db \/ db' = [cfg |-> db.cfg, auths |-> db.auths \cup files.auths]
      BY <1>5 DEF SeedAuth
    <3> QED
      BY <3>1
  <2>2. state' \in [cfg : {"unset", "0", "1"}, auth : {"unset", "0", "n"},
                   failed : BOOLEAN, rejected : BOOLEAN]
    BY <1>5 DEF SeedAuth
  <2>3. /\ pc' = "plugin" /\ half' = FALSE /\ dsn' = TRUE
        /\ UNCHANGED <<files, spool, mode, wanted, copy, secret, deploys, edits>>
        /\ UNCHANGED <<kept, stored, began, reborn>>
    BY <1>5 DEF SeedAuth
  <2> HIDE Names, Rows DEF StoreInv, TypeOK, NoSample, Store, Empty, Fresh, Early, Same, Goto, history, Ended
  <2>4. StoresTyped'
    BY <1>0, <2>1, <2>3 DEF StoresTyped
  <2>5. StateTyped'
    BY <1>0, <2>2 DEF StateTyped
  <2>6. PlaceTyped'
    BY <1>0, <2>3 DEF PlaceTyped, Running, Ended
  <2>7. RestTyped'
    BY <1>0, <2>3 DEF RestTyped
  <2> QED
    BY <2>4, <2>5, <2>6, <2>7, Zenon
       DEF TypeOK, StoresTyped, StateTyped, PlaceTyped, RestTyped
<1>6. CASE Off
  BY <1>6 DEF Off, Pull
<1>7. CASE SetConfig
  BY <1>7 DEF SetConfig
<1>8. CASE Up
  BY <1>8 DEF Up, Recreate, ReadDb
<1>9. CASE Sync \/ Resync
  <2>1. /\ files' \in Store /\ files'.cfg # NoConfig
        /\ spool' \in Store /\ db' \in Store
    BY <1>9, SyncDoes DEF Joined
  <2>2. /\ UNCHANGED <<mode, dsn, wanted, copy, half, secret, deploys, edits>>
        /\ UNCHANGED <<kept, stored, began, reborn>>
    BY <1>9, SyncDoes
  <2>3. pc' \in {"check", "rollback", "failed", "restored"}
    BY <1>9, SyncDoes
  <2>4. state' \in [cfg : {"unset", "0", "1"}, auth : {"unset", "0", "n"},
                   failed : BOOLEAN, rejected : BOOLEAN]
    <3>1. state' = state \/ state' = [state EXCEPT !.rejected = TRUE]
      BY <1>9, SyncDoes
    <3> HIDE Names, Rows DEF StoreInv, NoSample, Store, Empty, Fresh, Early, Same, Goto, history
    <3> QED
      BY <1>0, <3>1
  <2> HIDE Names, Rows DEF StoreInv, TypeOK, NoSample, Store, Empty, Fresh, Early, Same, Goto, history, Ended
  <2>5. StoresTyped'
    BY <1>0, <2>1 DEF StoresTyped
  <2>6. StateTyped'
    BY <1>0, <2>4 DEF StateTyped
  <2>7. PlaceTyped'
    BY <1>0, <2>2, <2>3 DEF PlaceTyped, Running, Ended
  <2>8. RestTyped'
    BY <1>0, <2>2 DEF RestTyped
  <2> QED
    BY <2>5, <2>6, <2>7, <2>8, Zenon
       DEF TypeOK, StoresTyped, StateTyped, PlaceTyped, RestTyped
<1>10. CASE Rollback
  <2>1. Pull(spool, files) \in Store /\ Pull(spool, files).cfg # NoConfig
    BY DEF Pull
  <2>2. pc' = "back" /\ dsn' = FALSE /\ half' \in BOOLEAN
    BY <1>10 DEF Rollback
  <2>3. files' \in Store /\ files'.cfg # NoConfig /\ db' \in Store
    BY <1>10, <2>1 DEF Rollback
  <2>4. UNCHANGED <<spool, mode, state, wanted, copy, secret, deploys, edits, kept, stored, began,
                   reborn>>
    BY <1>10 DEF Rollback
  <2> HIDE Names, Rows DEF StoreInv, TypeOK, NoSample, Store, Empty, Fresh, Early, Same, Goto, history, Ended
  <2>5. StoresTyped'
    BY <1>0, <2>3, <2>4 DEF StoresTyped
  <2>6. StateTyped'
    BY <1>0, <2>4 DEF StateTyped
  <2>7. PlaceTyped'
    BY <1>0, <2>2, <2>4 DEF PlaceTyped, Running, Ended
  <2>8. RestTyped'
    BY <1>0, <2>2, <2>4 DEF RestTyped
  <2> QED
    BY <2>5, <2>6, <2>7, <2>8, Zenon
       DEF TypeOK, StoresTyped, StateTyped, PlaceTyped, RestTyped
<1>11. CASE Back
  BY <1>11 DEF Back, Recreate, ReadDb
<1>13. CASE Export
  BY <1>13 DEF Export, Pull
<1>14. CASE \/ Render \/ Snapshot \/ NoPlugin \/ DumpConfig \/ Started \/ CheckKeys
          \/ CheckTokens \/ Aborted
  BY <1>14
     DEF Render, Snapshot, NoPlugin, DumpConfig, Started, CheckKeys, CheckTokens, Aborted,
         Fails
<1>15. ASSUME NEW x \in Keys \cup Providers \cup Tokens,
              (x # Sample /\ Add(x)) \/ Remove(x)
       PROVE  TypeOK'
  BY <1>15, EditDoes
<1>16. CASE UNCHANGED vars
  BY <1>16 DEF vars
<1>17. CASE Restart
  <2>1. StoresTyped'
    BY <1>17, RestartDoes DEF StoresTyped
  <2>2. StateTyped'
    BY <1>0, <1>17, RestartDoes, Zenon DEF StateTyped
  <2>0. /\ UNCHANGED <<dsn, wanted, copy, secret, pc, deploys, edits, stored, began, half>>
        /\ mode' = "db" /\ reborn' \in BOOLEAN /\ kept' \subseteq kept
    BY <1>17, RestartDoes
  <2> HIDE Names, Rows DEF StoreInv, NoSample, Store, Empty, Fresh, Early, Same, Goto, history, Ended, Running
  <2>3. PlaceTyped'
    BY <1>0, <2>0 DEF PlaceTyped
  <2>4. RestTyped'
    BY <1>0, <2>0 DEF RestTyped
  <2> QED
    BY <2>1, <2>2, <2>3, <2>4, Zenon
       DEF TypeOK, StoresTyped, StateTyped, PlaceTyped, RestTyped
<1> QED
  BY <1>1, <1>2, <1>3, <1>4, <1>5, <1>6, <1>7, <1>8, <1>9, <1>10, <1>11, <1>13, <1>14,
     <1>15, <1>16, <1>17
     DEF Next, Deploy

(* No step takes the sample key, or a missing config, where a config is   *)
(* needed.                                                                 *)
LEMMA NoSampleStep ==
  ASSUME StoreInv, [Next]_vars
  PROVE  NoSample'
<1> USE Names, Rows
   DEF StoreInv, TypeOK, NoSample, Clean, Store, Empty, Fresh, Early, Placed, Same, Goto, history,
       Running, Ended
<1>1. CASE Begin
  BY <1>1 DEF Begin
<1>2. CASE SeedConfig
  BY <1>2 DEF SeedConfig, Source
<1>3. CASE Off
  BY <1>3 DEF Off, Pull
<1>4. CASE SetConfig
  BY <1>4 DEF SetConfig
<1>5. CASE Up
  BY <1>5 DEF Up, Recreate, ReadDb
<1>6. CASE Sync
  BY <1>6, SyncDoes DEF Joined
<1>7. CASE Rollback
  BY <1>7 DEF Rollback, Pull
<1>8. CASE Back
  BY <1>8 DEF Back, Recreate, ReadDb
<1>9. CASE Resync
  BY <1>9, SyncDoes DEF Joined
<1>10. CASE Export
  BY <1>10 DEF Export, Pull
<1>11. CASE \/ Render \/ Snapshot \/ CheckStore \/ KeepStore \/ SeedAuth \/ NoPlugin
          \/ DumpConfig \/ Started \/ CheckKeys \/ CheckTokens \/ Aborted
  BY <1>11
     DEF Render, Snapshot, CheckStore, KeepStore, SeedAuth, NoPlugin, DumpConfig, Started,
         CheckKeys, CheckTokens, Aborted, Fails
<1>12. ASSUME NEW x \in Keys \cup Providers \cup Tokens,
              (x # Sample /\ Add(x)) \/ Remove(x)
       PROVE  NoSample'
  BY <1>12, EditDoes
<1>13. CASE UNCHANGED vars
  BY <1>13 DEF vars
<1>14. CASE Restart
  BY <1>14, RestartDoes
<1> QED
  BY <1>1, <1>2, <1>3, <1>4, <1>5, <1>6, <1>7, <1>8, <1>9, <1>10, <1>11, <1>12, <1>13, <1>14
     DEF Next, Deploy

(* The mode of the proxy and the DSN change together with the deploy's pc. *)
LEMMA PlacedStep ==
  ASSUME StoreInv, [Next]_vars
  PROVE  Placed'
<1> USE Names, Rows
   DEF StoreInv, Placed, Before, After, Undone, Promised, Early, Same, Goto, history,
       Running, Ended
<1>1. CASE Up
  BY <1>1 DEF Up, Recreate, ReadDb
<1>2. CASE Sync
  BY <1>2, SyncDoes DEF Joined
<1>3. CASE Back
  BY <1>3 DEF Back, Recreate, ReadDb
<1>4. CASE Resync
  BY <1>4, SyncDoes DEF Joined
<1>5. CASE \/ Begin \/ Render \/ Snapshot \/ CheckStore \/ KeepStore \/ SeedConfig
          \/ SeedAuth \/ Off \/ NoPlugin \/ DumpConfig \/ SetConfig \/ Started
          \/ CheckKeys \/ CheckTokens \/ Rollback \/ Aborted \/ Export
  BY <1>5
     DEF Begin, Render, Snapshot, CheckStore, KeepStore, SeedConfig, SeedAuth, Off,
         NoPlugin, DumpConfig, SetConfig, Started, CheckKeys, CheckTokens, Rollback, Aborted,
         Export, Fails, FewerTokens, Missing, Pull, Source
<1>6. ASSUME NEW x \in Keys \cup Providers \cup Tokens,
              (x # Sample /\ Add(x)) \/ Remove(x)
       PROVE  Placed'
  BY <1>6, EditDoes
<1>7. CASE UNCHANGED vars
  BY <1>7 DEF vars
<1>8. CASE Restart
  BY <1>8, RestartDoes
<1> QED
  BY <1>1, <1>2, <1>3, <1>4, <1>5, <1>6, <1>7, <1>8 DEF Next, Deploy

(* No step takes out of db what it held when the deploy began.             *)
LEMMA StoredStep ==
  ASSUME StoreInv, [Next]_vars
  PROVE  Stored'
<1> USE Names, Rows
   DEF StoreInv, TypeOK, NoSample, Placed, Stored, DbIsKept, Contents, Store, Empty, Fresh,
       Seeded, Before, After, Undone, Early, Same, Goto, history, Running, Ended
<1>1. CASE CheckStore
  BY <1>1 DEF CheckStore
<1>2. CASE Off
  BY <1>2 DEF Off, Pull
<1>3. CASE Begin
  BY <1>3 DEF Begin
<1>4. CASE SeedConfig
  BY <1>4 DEF SeedConfig, Source
<1>5. CASE SeedAuth
  BY <1>5 DEF SeedAuth
<1>6. CASE SetConfig
  <2>1. copy # NoConfig /\ db' = [cfg |-> copy, auths |-> db.auths \cup DeepSeek]
    BY <1>6 DEF SetConfig
  <2>2. stored \cap Tokens \subseteq db.auths
    BY DEF Config
  <2>3. Contents(db') = db.auths \cup DeepSeek \cup copy
    BY <2>1
  <2> QED
    BY <1>6, <2>1, <2>2, <2>3 DEF SetConfig
<1>7. CASE Up
  BY <1>7 DEF Up, Recreate, ReadDb
<1>8. CASE Sync
  BY <1>8, SyncDoes DEF Joined
<1>9. CASE Rollback
  BY <1>9 DEF Rollback, Pull
<1>10. CASE Back
  BY <1>10 DEF Back, Recreate, ReadDb
<1>11. CASE Resync
  BY <1>11, SyncDoes DEF Joined
<1>12. CASE Render \/ Snapshot \/ KeepStore
  <2>1. CASE Render
    BY <2>1 DEF Render
  <2>2. CASE Snapshot
    BY <2>2 DEF Snapshot
  <2>3. CASE KeepStore
    BY <2>3 DEF KeepStore
  <2> QED
    BY <1>12, <2>1, <2>2, <2>3
<1>13. ASSUME NEW x \in Keys \cup Providers \cup Tokens,
              (x # Sample /\ Add(x)) \/ Remove(x)
       PROVE  Stored'
  BY <1>13, EditDoes
<1>14. CASE UNCHANGED vars
  BY <1>14 DEF vars
<1>15. CASE NoPlugin \/ DumpConfig \/ Started
  BY <1>15 DEF NoPlugin, DumpConfig, Started
<1>16. CASE CheckKeys \/ CheckTokens
  BY <1>16 DEF CheckKeys, CheckTokens, Fails
<1>17. CASE Aborted \/ Export
  BY <1>17 DEF Aborted, Export, Pull
<1>18. CASE Restart
  BY <1>18, RestartDoes
<1> QED
  BY <1>1, <1>2, <1>3, <1>4, <1>5, <1>6, <1>7, <1>8, <1>9, <1>10, <1>11, <1>12, <1>13,
     <1>14, <1>15, <1>16, <1>17, <1>18
     DEF Next, Deploy

(* No step but a user's takes away a key that was in use.                  *)
LEMMA KeysStep ==
  ASSUME StoreInv, [Next]_vars
  PROVE  KeysKept'
<1> USE Names, Rows
   DEF StoreInv, TypeOK, NoSample, Placed, KeysKept, Contents, InUse, Live, Store, Before,
       After, Undone, Promised, Early, Same, Goto, history, Running, Ended
<1>1. CASE Begin
  BY <1>1 DEF Begin
<1>2. CASE Snapshot
  BY <1>2 DEF Snapshot
<1>3. CASE Up
  BY <1>3 DEF Up, Recreate, ReadDb
<1>4. CASE Sync
  BY <1>4, SyncDoes DEF Joined
<1>5. CASE CheckKeys
  BY <1>5 DEF CheckKeys, Missing, Fails
<1>6. CASE Rollback
  BY <1>6 DEF Rollback, Pull
<1>7. CASE Back
  BY <1>7 DEF Back, Recreate, ReadDb
<1>8. CASE Resync
  BY <1>8, SyncDoes DEF Joined
<1>9. CASE \/ Render \/ CheckStore \/ KeepStore \/ SeedConfig \/ SeedAuth \/ Off
          \/ NoPlugin \/ DumpConfig \/ SetConfig \/ Started \/ CheckTokens \/ Aborted
          \/ Export
  BY <1>9
     DEF Render, CheckStore, KeepStore, SeedConfig, SeedAuth, Off, NoPlugin, DumpConfig,
         SetConfig, Started, CheckTokens, Aborted, Export, Pull, Source
<1>10. ASSUME NEW x \in Keys \cup Providers \cup Tokens,
              (x # Sample /\ Add(x)) \/ Remove(x)
       PROVE  KeysKept'
  BY <1>10, EditDoes
<1>11. CASE UNCHANGED vars
  BY <1>11 DEF vars
<1>12. CASE Restart
  <2>1. /\ UNCHANGED <<files, wanted, copy, pc>> /\ mode \in {"db", "down"} /\ mode' = "db"
        /\ spool' = db' /\ kept' \subseteq kept /\ db'.cfg # NoConfig
        /\ db.cfg # NoConfig => db' = db
        /\ pc \in {"render", "snapshot"} => kept' \subseteq copy \cup Contents(db')
    BY <1>12, RestartDoes
  <2>2. CASE pc \in {"tokens", "green", "restored"}
    <3>1. mode = "db" /\ spool.cfg = db.cfg /\ pc # "restored"
      BY <2>1, <2>2 DEF Stored
    <3>2. db' = db /\ spool'.cfg = spool.cfg
      BY <2>1, <3>1
    <3>3. kept \cap Keys \subseteq spool.cfg
      BY <2>2, <3>1
    <3> QED
      BY <2>1, <2>2, <3>2, <3>3
  <2> QED
    BY <2>1, <2>2
<1> QED
  BY <1>1, <1>2, <1>3, <1>4, <1>5, <1>6, <1>7, <1>8, <1>9, <1>10, <1>11, <1>12 DEF Next, Deploy

(* A deploy with the store on keeps what it found in spool or files.       *)
LEMMA WebStep ==
  ASSUME StoreInv, [Next]_vars
  PROVE  WebKept'
<1> USE Names, Rows
   DEF StoreInv, TypeOK, NoSample, Placed, Stored, DbIsKept, WebKept, Seeded, Fresh,
       Contents, InUse, Live, Store, Before, After, Undone, Promised, Early, Same, Goto,
       history, Running, Ended
<1>1. CASE Begin
  BY <1>1 DEF Begin
<1>2. CASE CheckStore
  BY <1>2 DEF CheckStore
<1>3. CASE KeepStore
  BY <1>3 DEF KeepStore
<1>4. CASE SeedConfig
  BY <1>4 DEF SeedConfig, Source
<1>5. CASE SeedAuth
  BY <1>5 DEF SeedAuth
<1>6. CASE Off
  BY <1>6 DEF Off, Pull
<1>7. CASE Up
  BY <1>7 DEF Up, Recreate, ReadDb
<1>8. CASE Sync
  BY <1>8, SyncDoes DEF Joined
<1>9. CASE Rollback
  BY <1>9 DEF Rollback, Pull
<1>10. CASE Back
  BY <1>10 DEF Back, Recreate, ReadDb
<1>11. CASE Resync
  BY <1>11, SyncDoes DEF Joined
<1>12. CASE \/ Render \/ Snapshot \/ NoPlugin \/ DumpConfig \/ SetConfig \/ Started
          \/ CheckKeys \/ CheckTokens \/ Aborted \/ Export
  BY <1>12
     DEF Render, Snapshot, NoPlugin, DumpConfig, SetConfig, Started, CheckKeys,
         CheckTokens, Aborted, Export, Fails, Pull
<1>13. ASSUME NEW x \in Keys \cup Providers \cup Tokens,
              (x # Sample /\ Add(x)) \/ Remove(x)
       PROVE  WebKept'
  BY <1>13, EditDoes
<1>14. CASE UNCHANGED vars
  BY <1>14 DEF vars
<1>15. CASE Restart
  <2>1. /\ UNCHANGED <<files, dsn, state, pc, stored, began>> /\ mode' = "db"
        /\ spool' = db' /\ kept' \subseteq kept /\ (db.cfg # NoConfig => db' = db)
    BY <1>15, RestartDoes
  <2>2. stored \subseteq Contents(spool')
    BY <2>1
  <2>3. Seeded' = Seeded
    BY <2>1
  <2> HIDE DEF TypeOK, NoSample, Stored, DbIsKept, Seeded, Fresh, Contents, InUse, Live, Store
  <2> QED
    BY <2>1, <2>2, <2>3
<1> QED
  BY <1>1, <1>2, <1>3, <1>4, <1>5, <1>6, <1>7, <1>8, <1>9, <1>10, <1>11, <1>12, <1>13,
     <1>14, <1>15
     DEF Next, Deploy

(* A deploy that began with files keeps their tokens.                      *)
LEMMA TokensStep ==
  ASSUME StoreInv, [Next]_vars
  PROVE  TokensKept'
<1> USE Names, Rows
   DEF StoreInv, TypeOK, NoSample, Placed, TokensKept, Contents, InUse, Live, Store, Empty,
       Before, After, Early, Same, Goto, history, Running, Ended
<1>1. CASE Begin
  <2>1. began' = "seed" => mode = "file" /\ db = Empty
    BY <1>1 DEF Begin
  <2>2. began' = "file" => mode = "file"
    BY <1>1 DEF Begin
  <2>3. mode = "file" => kept' \cap Tokens \subseteq files.auths
    BY <1>1 DEF Begin, Config
  <2>4. files'.auths = files.auths \cup DeepSeek /\ db' = db /\ mode' = mode /\ pc' = "render"
    BY <1>1 DEF Begin
  <2> QED
    BY <2>1, <2>2, <2>3, <2>4
<1>2. CASE SeedConfig
  <2>1. pc = "seed" /\ pc' = "seedauth"
    BY <1>2 DEF SeedConfig
  <2>2. began = "seed" => half'
    <3>1. began = "seed" => db.auths = {}
      BY <2>1
    <3>2. db.auths = {} => half'
      BY <1>2, Zenon DEF SeedConfig
    <3> QED
      BY <3>1, <3>2
  <2>3. UNCHANGED <<began, kept, files, mode, spool>>
    BY <1>2 DEF SeedConfig
  <2> QED
    BY <2>1, <2>2, <2>3
<1>3. CASE SeedAuth
  BY <1>3 DEF SeedAuth
<1>4. CASE Off
  BY <1>4 DEF Off, Pull
<1>5. CASE SetConfig
  BY <1>5 DEF SetConfig
<1>6. CASE Up
  BY <1>6 DEF Up, Recreate, ReadDb
<1>7. CASE Sync
  BY <1>7, SyncDoes DEF Joined
<1>8. CASE Rollback
  BY <1>8 DEF Rollback, Pull
<1>9. CASE Back
  <2>1. ~dsn /\ mode' = "file" /\ pc' = "resync"
    BY <1>9 DEF Back, Recreate, ReadDb, Undone
  <2>2. UNCHANGED <<began, kept, files>>
    BY <1>9 DEF Back
  <2> QED
    BY <2>1, <2>2
<1>10. CASE Resync
  BY <1>10, SyncDoes DEF Joined
<1>11. CASE \/ Render \/ Snapshot \/ CheckStore \/ KeepStore \/ NoPlugin \/ DumpConfig
          \/ Started \/ CheckKeys \/ CheckTokens \/ Aborted \/ Export
  BY <1>11
     DEF Render, Snapshot, CheckStore, KeepStore, NoPlugin, DumpConfig, Started, CheckKeys,
         CheckTokens, Aborted, Export, Fails, Pull
<1>12. ASSUME NEW x \in Keys \cup Providers \cup Tokens,
              (x # Sample /\ Add(x)) \/ Remove(x)
       PROVE  TokensKept'
  BY <1>12, EditDoes
<1>13. CASE UNCHANGED vars
  BY <1>13 DEF vars
<1>14. CASE Restart
  BY <1>14, RestartDoes
<1> QED
  BY <1>1, <1>2, <1>3, <1>4, <1>5, <1>6, <1>7, <1>8, <1>9, <1>10, <1>11, <1>12, <1>13, <1>14
     DEF Next, Deploy

(* Only a stop between the halves of a seed leaves it half-way.            *)
LEMMA HalfStep ==
  ASSUME StoreInv, [Next]_vars
  PROVE  HalfSeeded'
<1> USE Names, Rows DEF StoreInv, HalfSeeded, Same, Goto, history, Running, Ended
<1>1. CASE Sync
  BY <1>1, SyncDoes DEF Joined
<1>2. CASE Resync
  BY <1>2, SyncDoes DEF Joined
<1>3. CASE \/ Begin \/ Render \/ Snapshot \/ CheckStore \/ KeepStore \/ SeedConfig
          \/ SeedAuth \/ Off \/ NoPlugin \/ DumpConfig \/ SetConfig \/ Up
          \/ Started \/ CheckKeys \/ CheckTokens \/ Rollback \/ Back \/ Aborted
          \/ Export
  BY <1>3
     DEF Begin, Render, Snapshot, CheckStore, KeepStore, SeedConfig, SeedAuth, Off,
         NoPlugin, DumpConfig, SetConfig, Up, Started, CheckKeys, CheckTokens, Rollback, Back,
         Aborted, Export, Fails, Pull, Recreate, ReadDb, Source
<1>4. ASSUME NEW x \in Keys \cup Providers \cup Tokens,
              (x # Sample /\ Add(x)) \/ Remove(x)
       PROVE  HalfSeeded'
  BY <1>4, EditDoes
<1>5. CASE UNCHANGED vars
  BY <1>5 DEF vars
<1>6. CASE Restart
  BY <1>6, RestartDoes
<1> QED
  BY <1>1, <1>2, <1>3, <1>4, <1>5, <1>6 DEF Next, Deploy

----------------------------------------------------------------------------
(* The inductive invariant holds in every reachable state.                 *)
LEMMA StoreInitial == Init => StoreInv
<1> SUFFICES ASSUME Init PROVE StoreInv
  OBVIOUS
<1> USE Names DEF Init, Empty, Contents
<1>1. TypeOK
  <2>1. PICK x \in SUBSET ((Keys \cup Providers) \ {Sample}) : files.cfg = Shared \cup x
    OBVIOUS
  <2>2. files.cfg \in Config /\ files.auths \in SUBSET Tokens /\ files \in Store
    BY <2>1 DEF Config, Store
  <2>3. db \in Store /\ spool \in Store
    BY DEF Store
  <2>4. state \in [cfg : {"unset", "0", "1"}, auth : {"unset", "0", "n"},
                   failed : BOOLEAN, rejected : BOOLEAN]
    BY DEF Fresh
  <2>5. files.cfg # NoConfig /\ deploys \in 0..MaxDeploys /\ edits \in 0..MaxEdits
    BY <2>2, PgStoreAssumption
  <2> QED
    BY <2>2, <2>3, <2>4, <2>5 DEF TypeOK, Ended
<1>2. NoSample
  BY DEF NoSample, Clean, Early
<1>3. Placed
  BY DEF Placed, After, Undone
<1>4. Stored
  BY DEF Stored, DbIsKept, Before, After, Early
<1>5. KeysKept
  BY DEF KeysKept, Promised, Before, After, Undone, Early
<1>6. WebKept
  BY DEF WebKept, Promised, Before, After, Undone, Early
<1>7. TokensKept
  BY DEF TokensKept, Before, Early
<1>8. HalfSeeded
  BY DEF HalfSeeded
<1> QED
  BY <1>1, <1>2, <1>3, <1>4, <1>5, <1>6, <1>7, <1>8 DEF StoreInv

THEOREM StoreInvariant == Spec => []StoreInv
<1>1. StoreInv /\ [Next]_vars => StoreInv'
  BY TypedStep, NoSampleStep, PlacedStep, StoredStep, KeysStep, WebStep, TokensStep, HalfStep
     DEF StoreInv
<1> QED
  BY StoreInitial, <1>1, PTL DEF Spec

(* What the invariant says of the stores and of a deploy that ended.       *)
LEMMA StoreMeans ==
  ASSUME StoreInv
  PROVE  /\ TypeOK /\ DbIsKept /\ SampleOnlyAfterRestart /\ KeysSurvive /\ WebDataSurvives
         /\ TokensSurvive
<1> USE DEF StoreInv
<1>1. TypeOK /\ DbIsKept
  BY DEF Stored
<1>2. SampleOnlyAfterRestart
  BY Names, Rows DEF NoSample, Clean, SampleOnlyAfterRestart, InUse, Live, Contents
<1>3. KeysSurvive
  BY DEF KeysKept, KeysSurvive
<1>4. WebDataSurvives
  BY DEF WebKept, WebDataSurvives, Placed, InUse, Live, Promised, After, Undone
<1>5. TokensSurvive
  BY DEF TokensKept, TokensSurvive, Placed, InUse, Live, Contents, After, Undone
<1> QED
  BY <1>1, <1>2, <1>3, <1>4, <1>5

(* The stores keep their types, and a config is the missing one or a set   *)
(* of keys and providers: the spool is copied only when it has a config.   *)
THEOREM StoreTyped == Spec => []TypeOK
  BY StoreInvariant, StoreMeans, PTL

(* Principle 3: every API key in use when a deploy began, and not removed  *)
(* by a user since, is in use after a deploy that ended green or restored. *)
THEOREM KeysAreKept == Spec => []KeysSurvive
  BY StoreInvariant, StoreMeans, PTL

(* Principles 1 and 4: no deploy overwrites or deletes what a database     *)
(* with a config row held when it began.                                   *)
THEOREM DatabaseIsKept == Spec => []DbIsKept
  BY StoreInvariant, StoreMeans, PTL

(* What was in use and in the database when a deploy began with the store  *)
(* on is in use when it ended.                                             *)
THEOREM WebDataIsKept == Spec => []WebDataSurvives
  BY StoreInvariant, StoreMeans, PTL

(* Turning an empty store on, turning it off, or failing to turn it on     *)
(* loses no token.                                                         *)
THEOREM TokensAreKept == Spec => []TokensSurvive
  BY StoreInvariant, StoreMeans, PTL

(* The proxy serves the sample key of its image only after a restart with  *)
(* a DSN that .env no longer has, over an empty database.                  *)
THEOREM SampleNeedsRestart == Spec => []SampleOnlyAfterRestart
  BY StoreInvariant, StoreMeans, PTL

(* The one way to lose a first seed's tokens is to stop between its two    *)
(* transactions: if that cannot happen, a green deploy with the store on   *)
(* has finished the seed.                                                  *)
THEOREM SeedIsFinishedUnlessStopped ==
  ASSUME ~SeedStops PROVE Spec => []SeedIsFinished
<1>1. StoreInv => SeedIsFinished
  BY DEF StoreInv, HalfSeeded, SeedIsFinished
<1> QED
  BY <1>1, StoreInvariant, PTL
=============================================================================
