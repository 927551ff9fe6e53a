------------------------------ MODULE Preflight ------------------------------
(***************************************************************************)
(* scripts/verify-preflight.py, run before --verify-client-url is turned   *)
(* on: would the relays, asking Headscale's /verify, still let every node  *)
(* in?  It asks about a key no node has, lists the nodes, and asks about    *)
(* the key of each, while nodes join, leave and change their keys and any   *)
(* call may fail.                                                          *)
(***************************************************************************)
EXTENDS Naturals, FiniteSets

CONSTANT Nodes

PreflightAssumption == IsFiniteSet(Nodes)

VARIABLES
  mode,             \* external: what is behind the URL, see Answers
  fleet,            \* external: the registered nodes
  good,             \* external: those whose key /verify accepts
  keyless,          \* external: those the API lists without a key
  pc,
  left,             \* listed nodes not asked about yet
  allowed, denied, errored,
  moved             \* history: joined, left or changed key since the listing

world == <<mode, fleet, good, keyless>>
lists == <<allowed, denied, errored>>
vars == <<world, pc, left, lists, moved>>

Modes == {"works", "open", "strange", "junk", "absent"}

TypeOK ==
  /\ mode \in Modes /\ fleet \subseteq Nodes /\ good \subseteq Nodes /\ keyless \subseteq Nodes
  /\ pc \in {"dummy", "list", "ask", "green", "red"}
  /\ {left, allowed, denied, errored, moved} \subseteq SUBSET Nodes
  /\ Cardinality(left \cup allowed \cup denied \cup errored)
       = Cardinality(left) + Cardinality(allowed) + Cardinality(denied) + Cardinality(errored)

Init ==
  /\ mode \in Modes /\ fleet \in SUBSET Nodes /\ good \in SUBSET Nodes /\ keyless \in SUBSET Nodes
  /\ pc = "dummy" /\ left = {} /\ allowed = {} /\ denied = {} /\ errored = {} /\ moved = {}

----------------------------------------------------------------------------
(* External: what /verify says of a key Headscale knows, or does not: an    *)
(* endpoint that lets all in, one that answers 200 with another JSON object *)
(* or with no JSON, none at all; a call may always fail.                    *)
Answers(known) ==
  {"fails"} \cup CASE mode = "works" -> {IF known THEN "allow" ELSE "deny"}
                   [] mode = "open" -> {"allow"}
                   [] mode = "strange" -> {"other"}
                   [] mode = "junk" -> {"junk"}
                   [] mode = "absent" -> {}

(* verify: an object without Allow is a no, as bool(None) is False.         *)
Allow(answer) ==
  CASE answer = "allow" -> "TRUE" [] answer \in {"deny", "other"} -> "FALSE" [] OTHER -> "None"

Dummy ==
  /\ pc = "dummy" /\ UNCHANGED <<world, left, lists, moved>>
  /\ \E a \in Answers(FALSE) : pc' = IF Allow(a) = "FALSE" THEN "list" ELSE "red"

List ==
  /\ pc = "list" /\ UNCHANGED <<world, lists>> /\ moved' = {}
  /\ \/ pc' = "red" /\ UNCHANGED left
     \/ fleet # {} /\ left' = fleet /\ pc' = "ask"

Sort(n, v) ==
  /\ allowed' = IF v = "TRUE" THEN allowed \cup {n} ELSE allowed
  /\ denied' = IF v = "FALSE" THEN denied \cup {n} ELSE denied
  /\ errored' = IF v = "None" THEN errored \cup {n} ELSE errored

(* mutant: a node without a key is asked about all the same *)
AskKeyless ==
  /\ pc = "ask" /\ UNCHANGED <<world, pc, moved>>
  /\ \E n \in left :
       /\ left' = left \ {n}
       /\ \E a \in Answers(n \in (fleet \cap good) \ (moved \cup keyless)) :
            /\ allowed' = IF Allow(a) = "TRUE" THEN allowed \cup {n} ELSE allowed
            /\ denied' = IF Allow(a) = "FALSE" THEN denied \cup {n} ELSE denied
            /\ errored' = IF Allow(a) = "None" \/ n \in keyless THEN errored \cup {n} ELSE errored

(* The key asked about is the listed one, which a node may have given up.   *)
Ask ==
  /\ pc = "ask" /\ UNCHANGED <<world, pc, moved>>
  /\ \E n \in left :
       /\ left' = left \ {n}
       /\ IF n \in keyless THEN Sort(n, "None")
          ELSE \E a \in Answers(n \in (fleet \cap good) \ moved) : Sort(n, Allow(a))

(* mutant: nodes that could not be asked about are only a warning *)
ConcludeWarned ==
  /\ pc = "ask" /\ left = {} /\ UNCHANGED <<world, left, lists, moved>>
  /\ pc' = IF allowed # {} /\ denied = {} THEN "green" ELSE "red"

Conclude ==
  /\ pc = "ask" /\ left = {} /\ UNCHANGED <<world, left, lists, moved>>
  /\ pc' = IF allowed # {} /\ denied = {} /\ errored = {} THEN "green" ELSE "red"

(* External: a node leaves, joins, or changes its key.                      *)
Change ==
  /\ pc \in {"list", "ask"}
  /\ \E n \in Nodes :
       /\ fleet' \in {fleet \cup {n}, fleet \ {n}} /\ good' \in {good \cup {n}, good \ {n}}
       /\ moved' = moved \cup {n}
  /\ UNCHANGED <<mode, keyless, pc, left, lists>>

Main == Dummy \/ List \/ Ask \/ Conclude
Next == Main \/ Change
Spec == Init /\ [][Next]_vars

----------------------------------------------------------------------------
(* verify-preflight.py:20 "an toan": when it says so, the relays would ask  *)
(* an endpoint that tells nodes apart, and it accepts every node of the     *)
(* fleet that has not joined or changed its key since the listing; an       *)
(* endpoint whose strange answer passed for a no is found out by the nodes. *)
GreenMeansSafe == pc = "green" => mode = "works" /\ fleet \ moved \subseteq good \ keyless

(* verify-preflight.py:87 "nodekey rac ma van duoc Allow (hoac body la)":   *)
(* step 0.1 fails on a strange body.                                       *)
StrangeBodyFails == [][pc = "dummy" /\ pc' = "list" => mode = "works"]_vars
=============================================================================
