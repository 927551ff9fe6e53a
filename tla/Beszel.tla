-------------------------------- MODULE Beszel --------------------------------
(***************************************************************************)
(* beszel/bootstrap.py: every deploy of the monitoring hub logs in, makes   *)
(* sure that there is an admin account, and adds the systems that are not   *)
(* listed.  A call may be refused, which the script tells from an answer    *)
(* only by the fields it looks for, or break off before or after it took    *)
(* effect, which ends the run.                                             *)
(***************************************************************************)
EXTENDS Integers, FiniteSets

CONSTANTS
  Names,      \* the systems to be watched
  MaxRuns     \* bound on the deploys

BeszelAssumption == Names # {} /\ MaxRuns \in Nat

VARIABLES
  admin,      \* external: the account exists; its e-mail is unique
  systems,    \* external: how many systems have each name
  pc,
  have, left, \* names listed; names still to be looked at
  runs,
  refused     \* history: the names whose addition this run was refused

vars == <<admin, systems, pc, have, left, runs, refused>>

TypeOK ==
  /\ admin \in BOOLEAN /\ systems \in [Names -> 0..MaxRuns]
  /\ pc \in {"idle", "auth", "find", "create", "list", "add", "done"}
  /\ have \subseteq Names /\ left \subseteq Names /\ runs \in 0..MaxRuns /\ refused \subseteq Names
  /\ pc \in {"list", "add", "done"} => admin

Init ==
  /\ admin = FALSE /\ systems = [n \in Names |-> 0] /\ pc = "idle"
  /\ have = {} /\ left = {} /\ runs = 0 /\ refused = {}

----------------------------------------------------------------------------
Goto(p) == pc' = p /\ UNCHANGED refused

Start ==
  /\ pc \in {"idle", "done"} /\ runs < MaxRuns /\ runs' = runs + 1
  /\ pc' = "auth" /\ refused' = {} /\ have' = {} /\ left' = Names /\ UNCHANGED <<admin, systems>>

(* No token, no run.                                                        *)
Auth ==
  /\ pc = "auth" /\ (Goto("find") \/ Goto("idle"))
  /\ UNCHANGED <<admin, systems, have, left, runs>>

(* A refusal has no items, and reads as no account.                         *)
FindUser ==
  /\ pc = "find" /\ UNCHANGED <<admin, systems, have, left, runs>>
  /\ \/ Goto(IF admin THEN "list" ELSE "create")
     \/ Goto("create") \/ Goto("idle")

(* mutant: a refusal to make the account does not end the run *)
CreateUserGoesOn ==
  /\ pc = "create" /\ UNCHANGED <<systems, have, left, runs>>
  /\ \/ ~admin /\ admin' = TRUE /\ Goto("list")
     \/ UNCHANGED admin /\ Goto("list")

CreateUser ==
  /\ pc = "create" /\ UNCHANGED <<systems, have, left, runs>>
  /\ \/ ~admin /\ admin' = TRUE /\ Goto("list")
     \/ admin' \in {admin, TRUE} /\ Goto("idle")

(* mutant: a hub with any of the systems is taken for complete *)
ListAny ==
  /\ pc = "list" /\ UNCHANGED <<admin, systems, left, runs>>
  /\ have' = (IF \E n \in Names : systems[n] > 0 THEN Names ELSE {}) /\ Goto("add")

(* A refusal reads as an empty list.                                        *)
ListSystems ==
  /\ pc = "list" /\ UNCHANGED <<admin, systems, left, runs>>
  /\ \/ have' = {n \in Names : systems[n] > 0} /\ Goto("add")
     \/ UNCHANGED have /\ (Goto("add") \/ Goto("idle"))

(* A refused system is printed and the next one follows.                    *)
AddSystem ==
  /\ pc = "add" /\ UNCHANGED <<admin, have, runs>>
  /\ \E n \in left :
       /\ left' = left \ {n}
       /\ \/ n \in have /\ Goto("add") /\ UNCHANGED systems
          \/ /\ n \notin have
             /\ \/ systems' = [systems EXCEPT ![n] = @ + 1] /\ (Goto("add") \/ Goto("idle"))
                \/ UNCHANGED systems /\ Goto("idle")
                \/ UNCHANGED systems /\ pc' = "add" /\ refused' = refused \cup {n}

Done ==
  /\ pc = "add" /\ left = {} /\ Goto("done")
  /\ UNCHANGED <<admin, systems, have, left, runs>>

Next == Start \/ Auth \/ FindUser \/ CreateUser \/ ListSystems \/ AddSystem \/ Done
Spec == Init /\ [][Next]_vars

----------------------------------------------------------------------------
(* A run that ends leaves the account there, and every system but those     *)
(* whose addition it was refused and printed, whatever of its listing was   *)
(* refused and wherever earlier runs stopped (bootstrap.py:30-60).         *)
GreenMeansAdded ==
  pc = "done" => admin /\ \A n \in Names : systems[n] > 0 \/ n \in refused

(* Not so: the hub is complete when a run ends.  A refused addition is      *)
(* printed and the run ends like any other (bootstrap.py:57-60).           *)
HubComplete == pc = "done" => \A n \in Names : systems[n] > 0

(* bootstrap.py:2 "(idempotent)": however often it is run, there is one     *)
(* system of each name.                                                    *)
OneOfEach == \A n \in Names : systems[n] <= 1
=============================================================================
