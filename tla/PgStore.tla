------------------------------- MODULE PgStore -------------------------------
(***************************************************************************)
(* cliproxy/pgstore.sh, pgstore-seed.sh and pgstore-keys.py, in the order  *)
(* deploy-cliproxy.yml calls them: where CLIProxy keeps its API keys,      *)
(* provider keys and tokens -- in files, or in Postgres with a spool that  *)
(* mirrors it -- and how a deploy turns the database on and off.  The      *)
(* proxy's users edit keys and tokens on its web page at any moment, a     *)
(* deploy can stop after any command, and a later one starts from what it  *)
(* left.                                                                   *)
(***************************************************************************)
EXTENDS Integers, FiniteSets

CONSTANTS
  Keys, Providers, Tokens,  \* client API keys, provider keys, OAuth tokens
  Shared,      \* keys of the shared file and of the secret
  Sample,      \* the key of the image's config.example.yaml
  DeepSeek,    \* tokens given as a secret of the workflow
  Nothing,     \* stands in for a missing config
  SeedStops,   \* a seed can stop between the config and the tokens
  MaxEdits, MaxDeploys      \* bounds on the web edits and on the deploys

ASSUME PgStoreAssumption ==
  /\ Shared \subseteq Keys \ {Sample} /\ Shared # {} /\ Sample \in Keys
  /\ DeepSeek \subseteq Tokens /\ SeedStops \in BOOLEAN
  /\ Keys \cap Providers = {} /\ (Keys \cup Providers) \cap Tokens = {}
  /\ IsFiniteSet(Tokens) /\ Nothing \notin Keys \cup Providers
  /\ MaxEdits \in Nat /\ MaxDeploys \in Nat

VARIABLES
  files,   \* config.yaml and auths/
  db,      \* config_store and auth_store
  spool,   \* pgstore-spool, the proxy's copy of db
  mode,    \* the running proxy: "file", "db", or "down"
  dsn,     \* .env has a PGSTORE_DSN
  state,   \* .pgstore-state, and MGMT_REJECTED
  wanted,  \* .keys-wanted
  copy,    \* .config.prev.yaml, later .db-config.yaml
  secret,  \* this deploy has the store's password
  pc, deploys, edits,
  kept,    \* history: what was in use when the deploy began but the sample, less what
           \* users removed or a restart before the snapshot lost
  stored,  \* history: what db held then, if it had a config
  began,   \* history: "db" or "file", where the proxy was then, "seed" with
           \* the files and an empty db, "cut" after a rollback cut short
  half,    \* history: a first seed wrote the config and not yet the tokens
  reborn   \* history: the proxy restarted over an empty database, with a DSN that a
           \* rollback had taken out of .env

vars == <<files, db, spool, mode, dsn, state, wanted, copy, secret, pc,
          deploys, edits, kept, stored, began, half, reborn>>
history == <<kept, stored, began, reborn>>

Config == SUBSET (Keys \cup Providers)
NoConfig == {Nothing}   \* no config row, no file in the spool
Store == [cfg : Config \cup {NoConfig}, auths : SUBSET Tokens]
Empty == [cfg |-> NoConfig, auths |-> {}]
Contents(s) == s.auths \cup (IF s.cfg = NoConfig THEN {} ELSE s.cfg)

Fresh == [cfg |-> "unset", auth |-> "unset", failed |-> FALSE, rejected |-> FALSE]
Ended == {"idle", "green", "restored", "failed"}
Running == {"render", "snapshot", "store", "seed", "seedauth", "plugin", "setconfig",
            "up", "verify", "sync", "check", "tokens", "rollback", "back", "resync"}

TypeOK ==
  /\ files \in Store /\ files.cfg # NoConfig
  /\ db \in Store /\ spool \in Store
  /\ mode \in {"file", "db", "down"} /\ dsn \in BOOLEAN
  /\ state \in [cfg : {"unset", "0", "1"}, auth : {"unset", "0", "n"},
               failed : BOOLEAN, rejected : BOOLEAN]
  /\ wanted \subseteq Keys /\ copy \in Config \cup {NoConfig} /\ secret \in BOOLEAN
  /\ pc \in Ended \cup Running /\ deploys \in 0..MaxDeploys /\ edits \in 0..MaxEdits
  /\ kept \subseteq Keys \cup Providers \cup Tokens
  /\ stored \subseteq Keys \cup Providers \cup Tokens
  /\ began \in {"seed", "file", "db", "cut"} /\ half \in BOOLEAN /\ reborn \in BOOLEAN

(* A stack in file mode, some keys, providers and tokens added by hand.    *)
Init ==
  /\ files \in [cfg : {Shared \cup x : x \in SUBSET ((Keys \cup Providers) \ {Sample})},
                auths : SUBSET Tokens]
  /\ db = Empty /\ spool = Empty /\ mode = "file" /\ dsn = FALSE
  /\ state = Fresh /\ wanted = {} /\ copy = NoConfig /\ secret = FALSE
  /\ pc = "idle" /\ deploys = 0 /\ edits = 0
  /\ kept = {} /\ stored = {} /\ began = "file" /\ half = FALSE /\ reborn = FALSE

----------------------------------------------------------------------------
(* External: the proxy serves the files, or the spool, which it writes     *)
(* through to db: a config as a whole, tokens one by one.                  *)
Live == IF mode = "db" THEN spool ELSE files
InUse == Contents(Live)

Plus(s, x)  == IF x \in Tokens THEN [s EXCEPT !.auths = @ \cup {x}]
                               ELSE [s EXCEPT !.cfg = @ \cup {x}]
Minus(s, x) == IF x \in Tokens THEN [s EXCEPT !.auths = @ \ {x}]
                               ELSE [s EXCEPT !.cfg = @ \ {x}]

Save(s, auths) ==
  \/ /\ mode = "file" /\ files' = s /\ UNCHANGED <<spool, db>>
  \/ /\ mode = "db" /\ spool' = s /\ UNCHANGED files
     /\ db' = [cfg |-> IF s.cfg = spool.cfg THEN db.cfg ELSE s.cfg, auths |-> auths]

(* A user's edit on the web page. *)
Edited ==
  /\ edits < MaxEdits /\ edits' = edits + 1
  /\ stored' = stored \cap Contents(db')
  /\ UNCHANGED <<mode, dsn, state, wanted, copy, secret, pc, deploys, began, half, reborn>>

Add(x) ==
  /\ x \notin InUse /\ Save(Plus(Live, x), Plus(db, x).auths)
  /\ Edited /\ UNCHANGED kept

Remove(x) ==
  /\ x \in InUse /\ Save(Minus(Live, x), Minus(db, x).auths)
  /\ Edited /\ kept' = kept \ {x}

(* Management API calls of the deploy: PATCH appends. *)
AddKeys(ks) == Save([Live EXCEPT !.cfg = @ \cup ks], db.auths)

(* A proxy with a DSN starts: it reads db into the spool; a db without a   *)
(* config is given the image's sample.                                     *)
ReadDb ==
  /\ mode' = "db"
  /\ db' = IF db.cfg = NoConfig THEN [db EXCEPT !.cfg = {Sample}] ELSE db
  /\ spool' = db'

(* docker compose up --force-recreate: the DSN is the one .env has now.    *)
Recreate ==
  \/ ~dsn /\ mode' = "file" /\ UNCHANGED <<db, spool>>
  \/ dsn /\ ReadDb
  \/ dsn /\ mode' = "down" /\ UNCHANGED <<db, spool>>

(* docker's `restart: unless-stopped`, at any moment: the container has    *)
(* the DSN it was created with, whatever .env says.  What only the spool   *)
(* held is gone; keys that .keys-wanted has are synced again.              *)
Restart ==
  /\ mode \in {"db", "down"} /\ ReadDb
  /\ reborn' = (reborn \/ (db.cfg = NoConfig /\ ~dsn))
  /\ kept' = IF pc \in {"render", "snapshot"} THEN kept \cap (copy \cup Contents(db'))
                                            ELSE kept
  /\ UNCHANGED <<files, dsn, state, wanted, copy, secret, pc, deploys, edits, stored,
                 began, half>>

----------------------------------------------------------------------------
(* mutant: a spool without a config is copied too *)
PullBlind(from, to) == [cfg |-> from.cfg, auths |-> to.auths \cup from.auths]

(* spool_pull: the spool over the files, where there is one.               *)
Pull(from, to) == [cfg |-> IF from.cfg = NoConfig THEN to.cfg ELSE from.cfg,
                   auths |-> to.auths \cup from.auths]

Same == UNCHANGED <<secret, deploys, edits, history>>
Goto(from, to) == pc = from /\ pc' = to

(* Steps 1 to 3 of the workflow: the DeepSeek token, then the copy of      *)
(* config.yaml.                                                            *)
Begin ==
  /\ pc \in Ended /\ pc' = "render"
  /\ deploys < MaxDeploys /\ deploys' = deploys + 1
  /\ secret' \in BOOLEAN
  /\ copy' = files.cfg /\ files' = [files EXCEPT !.auths = @ \cup DeepSeek]
  /\ kept' = InUse \ {Sample} /\ stored' = (IF db.cfg = NoConfig THEN {} ELSE Contents(db))
  /\ began' = CASE mode = "file" /\ db = Empty -> "seed"
                [] mode = "file" /\ db # Empty -> "file"
                [] mode = "db" /\ dsn -> "db"
                [] OTHER -> "cut"
  /\ UNCHANGED <<db, spool, mode, dsn, state, wanted, edits, half, reborn>>

(* render-config.py: template and shared keys; the proxy's watcher reloads. *)
Render ==
  /\ Goto("render", "snapshot") /\ files' = [files EXCEPT !.cfg = Shared]
  /\ UNCHANGED <<db, spool, mode, dsn, state, wanted, copy, half>> /\ Same

(* mutant: .config.prev.yaml is not among the sources *)
SnapshotNoPrev ==
  /\ Goto("snapshot", "store")
  /\ wanted' = (Contents(spool) \cup files.cfg) \cap (Keys \ {Sample})
  /\ UNCHANGED <<files, db, spool, mode, dsn, state, copy, half>> /\ Same

(* snapshot-keys *)
Snapshot ==
  /\ Goto("snapshot", "store")
  /\ wanted' = (copy \cup Contents(spool) \cup files.cfg) \cap (Keys \ {Sample})
  /\ UNCHANGED <<files, db, spool, mode, dsn, state, copy, half>> /\ Same

(* mutant: set_env comes before the check *)
CheckStoreEnabled ==
  /\ secret /\ pc = "store" /\ dsn' = TRUE
  /\ \E ok \in BOOLEAN : /\ pc' = IF ok THEN "seed" ELSE "plugin"
                         /\ state' = [Fresh EXCEPT !.failed = ~ok]
  /\ UNCHANGED <<files, db, spool, mode, wanted, copy, half>> /\ Same

(* enable, up to the 30 tries of `check`: a failure is noted, and what the *)
(* proxy uses stays what it was.                                           *)
CheckStore ==
  /\ secret /\ pc = "store"
  /\ \E ok \in BOOLEAN : /\ pc' = IF ok THEN "seed" ELSE "plugin"
                         /\ state' = [Fresh EXCEPT !.failed = ~ok]
  /\ UNCHANGED <<files, db, spool, mode, dsn, wanted, copy, half>> /\ Same

(* need-seed, then the config half of `seed`: from the spool if there is   *)
(* one, else from the config.yaml of before the deploy.                    *)
KeepStore ==
  /\ Goto("seed", "plugin") /\ db.cfg # NoConfig
  /\ state' = [state EXCEPT !.cfg = "0", !.auth = "0"] /\ dsn' = TRUE
  /\ UNCHANGED <<files, db, spool, mode, wanted, copy, half>> /\ Same

Source == IF spool.cfg # NoConfig THEN spool.cfg ELSE copy

(* mutant: whether this is the first time is asked after the INSERT *)
SeedConfigAsksLate ==
  /\ Goto("seed", "seedauth") /\ db.cfg = NoConfig
  /\ db' = [db EXCEPT !.cfg = Source] /\ half' = FALSE
  /\ UNCHANGED <<files, spool, mode, dsn, state, wanted, copy>> /\ Same

SeedConfig ==
  /\ Goto("seed", "seedauth") /\ db.cfg = NoConfig
  /\ db' = [db EXCEPT !.cfg = Source] /\ half' = (db.auths = {})
  /\ UNCHANGED <<files, spool, mode, dsn, state, wanted, copy>> /\ Same

(* The other half, one transaction, the first time only; then what was     *)
(* seeded goes to .pgstore-state and the DSN to .env.                      *)
SeedAuth ==
  /\ Goto("seedauth", "plugin")
  /\ db' = IF half THEN [db EXCEPT !.auths = @ \cup files.auths] ELSE db
  /\ state' = [state EXCEPT !.cfg = "1", !.auth = IF half /\ db'.auths # {} THEN "n" ELSE "0"]
  /\ half' = FALSE /\ dsn' = TRUE
  /\ UNCHANGED <<files, spool, mode, wanted, copy>> /\ Same

(* mutant: the DSN is dropped and the files stay as rendered *)
OffKeepsFiles ==
  /\ ~secret /\ Goto("store", "up")
  /\ dsn' = FALSE /\ state' = Fresh
  /\ UNCHANGED <<files, db, spool, mode, wanted, copy, half>> /\ Same

(* off *)
Off ==
  /\ ~secret /\ Goto("store", "up")
  /\ files' = IF dsn THEN Pull(spool, files) ELSE files
  /\ dsn' = FALSE /\ state' = Fresh
  /\ UNCHANGED <<db, spool, mode, wanted, copy, half>> /\ Same

(* plugin-deepseek: dump-config, the plugin's entry added to the dump (no  *)
(* key of ours), and set-config, which writes all of it; then upsert-auth. *)
NoPlugin ==
  /\ Goto("plugin", "up") /\ ~dsn
  /\ UNCHANGED <<files, db, spool, mode, dsn, state, wanted, copy, half>> /\ Same

DumpConfig ==
  /\ Goto("plugin", "setconfig") /\ dsn /\ copy' = db.cfg
  /\ UNCHANGED <<files, db, spool, mode, dsn, state, wanted, half>> /\ Same

SetConfig ==
  /\ Goto("setconfig", "up")
  /\ db' = [cfg |-> IF copy = NoConfig THEN db.cfg ELSE copy,
            auths |-> db.auths \cup DeepSeek]
  /\ UNCHANGED <<files, spool, mode, dsn, state, wanted, copy, half>> /\ Same

Up ==
  /\ Goto("up", "verify") /\ Recreate
  /\ UNCHANGED <<files, dsn, state, wanted, copy, half>> /\ Same

----------------------------------------------------------------------------
(* verify, and the rollback it calls only with the store on.               *)
Fails == IF dsn THEN "rollback" ELSE "failed"

Started ==
  /\ Goto("verify", IF mode = "down" THEN "rollback" ELSE "sync")
  /\ UNCHANGED <<files, db, spool, mode, dsn, state, wanted, copy, half>> /\ Same

Missing == wanted \ Live.cfg

Sync ==
  /\ pc = "sync"
  /\ \/ AddKeys(Missing) /\ pc' = "check" /\ UNCHANGED state
     \/ /\ pc' = "check" /\ state' = [state EXCEPT !.rejected = TRUE]   \* exit code 3
        /\ UNCHANGED <<files, db, spool>>
     \/ \E some \in SUBSET Missing : AddKeys(some) /\ pc' = Fails /\ UNCHANGED state
  /\ UNCHANGED <<mode, dsn, wanted, copy, half>> /\ Same

(* A key is refused, or the proxy does not answer. *)
CheckKeys ==
  /\ (Missing = {} /\ Goto("check", "tokens")) \/ Goto("check", Fails)
  /\ UNCHANGED <<files, db, spool, mode, dsn, state, wanted, copy, half>> /\ Same

(* An unset SEEDED_AUTH is not "0" here, and is 0 in the rollback.         *)
FewerTokens(after) ==
  dsn /\ state.auth # "0" /\ after < Cardinality(files.auths)

(* A container that cannot be asked counts no token. *)
CheckTokens ==
  /\ \E after \in {Cardinality(spool.auths), 0} :
       Goto("tokens", IF FewerTokens(after) THEN "rollback"
                      ELSE IF state.failed THEN "failed" ELSE "green")
  /\ UNCHANGED <<files, db, spool, mode, dsn, state, wanted, copy, half>> /\ Same

(* mutant: every rollback empties the database *)
RollbackResets ==
  /\ Goto("rollback", "back") /\ dsn' = FALSE
  /\ db' = Empty /\ half' = FALSE /\ UNCHANGED files
  /\ UNCHANGED <<spool, mode, state, wanted, copy>> /\ Same

Seeded == state.cfg = "1" \/ state.auth = "n"

(* Only what this deploy seeded is deleted (`reset || true`).              *)
Rollback ==
  /\ Goto("rollback", "back") /\ dsn' = FALSE
  /\ \/ Seeded /\ db' = Empty /\ half' = FALSE /\ UNCHANGED files
     \/ Seeded /\ UNCHANGED <<db, half, files>>
     \/ ~Seeded /\ files' = Pull(spool, files) /\ UNCHANGED <<db, half>>
  /\ UNCHANGED <<spool, mode, state, wanted, copy>> /\ Same

Back ==
  /\ Goto("back", "resync") /\ Recreate
  /\ UNCHANGED <<files, dsn, state, wanted, copy, half>> /\ Same

(* The last sync and check are best effort, and the deploy is red.         *)
Resync ==
  /\ pc = "resync"
  /\ \/ ~state.rejected /\ AddKeys(Missing) /\ pc' = "restored"
     \/ ~state.rejected /\ \E some \in SUBSET Missing : AddKeys(some) /\ pc' = "failed"
     \/ state.rejected /\ pc' = "failed" /\ UNCHANGED <<files, db, spool>>
  /\ UNCHANGED <<mode, dsn, state, wanted, copy, half>> /\ Same

(* A command failed under set -e, or the session of the deploy was cut.    *)
Aborted ==
  /\ pc \in Running /\ pc' = "failed" /\ (pc = "seedauth" => SeedStops)
  /\ UNCHANGED <<files, db, spool, mode, dsn, state, wanted, copy, half>> /\ Same

(* pgstore.sh export, by hand *)
Export ==
  /\ pc \in Ended /\ pc' = "idle" /\ spool.cfg # NoConfig /\ files' = Pull(spool, files)
  /\ UNCHANGED <<db, spool, mode, dsn, state, wanted, copy, half>> /\ Same

Deploy ==
  \/ Begin \/ Render \/ Snapshot
  \/ CheckStore \/ KeepStore \/ SeedConfig \/ SeedAuth \/ Off
  \/ NoPlugin \/ DumpConfig \/ SetConfig \/ Up
  \/ Started \/ Sync \/ CheckKeys \/ CheckTokens
  \/ Rollback \/ Back \/ Resync

Next ==
  \/ Deploy \/ Aborted \/ Export \/ Restart
  \/ \E x \in Keys \cup Providers \cup Tokens : (x # Sample /\ Add(x)) \/ Remove(x)

Spec == Init /\ [][Next]_vars

----------------------------------------------------------------------------
(* Principle 3 (pgstore.sh:19-20): after a deploy that ended green, or     *)
(* rolled back and synced again, every API key in use when it began is in  *)
(* use, whatever stores it went through, unless a user removed it since or *)
(* a restart lost it before .keys-wanted was written.                      *)
KeysSurvive ==
  pc \in {"green", "restored"} => kept \cap Keys \subseteq InUse

(* What was in use and in the database when a deploy began with the store  *)
(* on is in use when it ended, also if it turned the store off or rolled   *)
(* back (pgstore.sh:172-185 and 217-221).                                  *)
WebDataSurvives ==
  pc \in {"green", "restored"} /\ began = "db" => kept \cap stored \subseteq InUse

(* Turning an empty store on, turning it off, or failing to turn it on     *)
(* loses no token (pgstore-seed.sh:98-132, pgstore.sh:271-278).            *)
TokensSurvive ==
  pc \in {"green", "restored"} /\ (began = "seed" \/ (began = "file" /\ mode = "file"))
    => kept \cap Tokens \subseteq InUse

(* Principles 1 and 4: nothing is overwritten or deleted by a deploy of a  *)
(* database that had its config row when it began (pgstore.sh:16, 21-22).  *)
DbIsKept == stored \subseteq Contents(db)

(* The sample key of the image, which the proxy takes when it finds no     *)
(* config in the database (pgstore-seed.sh:87-89), is served only after    *)
(* docker restarted a proxy with the DSN that a rollback had taken out of  *)
(* .env, over the database it had emptied (pgstore.sh:213-222,             *)
(* docker-compose.yml:16).  Until then no seed, switch, rollback, cut or   *)
(* restart brings the proxy up over an empty database.                     *)
SampleOnlyAfterRestart == Sample \in InUse => reborn

(* "TUYET DOI khong duoc giu chung lai" (pgstore-keys.py:134-135): it is    *)
(* never served, restarted or not.                                         *)
NoSampleEver == Sample \notin InUse

(* README.md:74-75 "song qua moi lan deploy": a key that is in use does    *)
(* not go with a restart of the proxy.                                     *)
RestartKeepsKeys ==
  [][Restart /\ mode = "db" => spool.cfg \cap Keys \subseteq spool'.cfg]_vars

(* "Mot transaction: hoac du tat ca token, hoac khong co gi (lan sau seed  *)
(* lai)" (pgstore-seed.sh:112): after a seed that stopped half-way, the    *)
(* next deploy that ends green has seeded the tokens.                      *)
SeedIsFinished == pc = "green" /\ mode = "db" => ~half

(* README.md:74-75 "key them qua /management.html [...] song qua moi lan    *)
(* deploy": putting the plugin's entry into the configuration keeps what    *)
(* users have saved in it, whenever they saved it.                         *)
PluginKeepsEdits == [][SetConfig => db.cfg \in SUBSET db'.cfg]_vars
=============================================================================
