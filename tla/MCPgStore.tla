------------------------------ MODULE MCPgStore ------------------------------
(* PgStore with a shared key, one added by hand, a provider and two tokens, *)
(* one of which the workflow has as a secret.                               *)
EXTENDS PgStore

CONSTANTS k1, k2, sample, p, t1, t2

(* Two states are one when they differ only in what the next deploy writes  *)
(* before it reads it.                                                      *)
While(pcs, value) == IF pc \in pcs THEN value ELSE Nothing
Storing == {"seed", "seedauth", "plugin", "setconfig"}
Verifying == {"up", "verify", "sync", "check", "tokens", "rollback", "back", "resync"}

WithoutLeftovers ==
  <<files, db, spool, mode, dsn, pc, deploys, edits, stored, reborn,
    While({"render", "snapshot", "store"}, secret),
    While({"render", "snapshot", "store", "seed", "setconfig"}, copy),
    While({"store"} \cup Storing \cup Verifying, wanted),
    While(Storing \cup Verifying, state),
    While({"seedauth"}, half),
    While(Running \cup {"green", "restored"}, <<kept, began>>)>>
=============================================================================
