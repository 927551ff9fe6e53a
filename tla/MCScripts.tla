------------------------------ MODULE MCScripts ------------------------------
(* What TLC gives the scripts to work on: an account for each address, one  *)
(* of a third address and one of another provider; two keys in the shared   *)
(* file, one of the secret, one added on the page; blocks of a Caddyfile    *)
(* whose bodies nest or are on the header's line, with braces in a comment  *)
(* or a placeholder, and comments that name Portainer's address.            *)
EXTENDS Scripts

T == INSTANCE CaddyText

MCEmail == [f \in {"f1", "f2", "f3", "g"} |->
              CASE f = "f1" -> "a" [] f = "f3" -> "c" [] OTHER -> "b"]

MCKeyFiles == {<<>>, <<"k1">>, <<"k1", "k2", "k1">>}
MCWebKeys == {<<>>, <<"k1">>, <<"k2", "w", "", "k2">>}
MCFlowLists == [v \in {"[]", "[k2, w, , k2]"} |-> IF v = "[]" THEN <<>> ELSE <<"k2", "w", "", "k2">>]

MCBodies(site) ==
  {<<[T!Header(site) EXCEPT !.closes = 1]>>,
   <<T!Header(site), T!Comment(1), T!Line("text", 1, 0), T!Line("text", 1, 1), T!Close, T!Blank,
     T!Line("text", 1, 0), T!Text, T!Close, T!Close>>}
MCOdd == {T!Unbalanced(1, 0), T!Unbalanced(0, 1)}
MCSites == {"portainer", "status", "other"}
MCBlocks ==
  UNION {{[site |-> s, comments |-> c, own |-> o, gap |-> g] :
            c \in {<<>>, <<T!Comment(1), T!Comment(0)>>}, o \in MCBodies(s), g \in {0, 1}} : s \in MCSites}
  \cup {[site |-> s, comments |-> <<>>, own |-> <<T!Header(s), c, T!Close>>, gap |-> 1] : s \in MCSites, c \in MCOdd}
  \cup {[site |-> "", comments |-> <<c>>, own |-> <<>>, gap |-> 1] : c \in {T!Comment(0), T!Naming} \cup MCOdd}
=============================================================================
