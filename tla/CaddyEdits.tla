----------------------------- MODULE CaddyEdits -----------------------------
(***************************************************************************)
(* A Caddyfile that people edit block by block and the two scripts line by  *)
(* line: what the scripts do to the lines, against what they are to do to   *)
(* the blocks.  Two edge hosts have such a file each; one file with the     *)
(* sites of both meets every case of either.                               *)
(***************************************************************************)
EXTENDS CaddyText

CONSTANTS
  Blocks,      \* what people write
  MaxBlocks, MaxEdits   \* bounds: on the blocks of a file, on the edits by hand

CaddyAssumption == MaxBlocks \in Nat /\ MaxEdits \in Nat

VARIABLES lines, blocks, edits
vars == <<lines, blocks, edits>>

(* A block: its comments, its own lines, the blank lines after it.  One     *)
(* without a site is a heading, which a blank line sets apart.             *)
Repeat(n, x) == [k \in 1..n |-> x]
LinesOf(b) == b.comments \o b.own \o Repeat(b.gap, Blank)
FileOf(bs) == FlattenSeq([k \in DOMAIN bs |-> LinesOf(bs[k])])
Of(bs, site) == {k \in DOMAIN bs : bs[k].site = site}

Init == blocks = <<>> /\ lines = <<>> /\ edits = 0

Hand(k, b) ==
  /\ edits < MaxEdits /\ edits' = edits + 1 /\ Len(blocks) < MaxBlocks /\ k \in 1..(Len(blocks) + 1)
  /\ b.site = "status" => Of(blocks, "status") = {}      \* Caddy takes no host twice
  /\ blocks' = InsertAt(blocks, k, b) /\ lines' = FileOf(blocks')

(* What removing the site means: nothing unless there is one block of it    *)
(* and its address is nowhere else.                                        *)
WithoutSite ==
  LET named(b) == \E k \in DOMAIN LinesOf(b) : LinesOf(b)[k].names
  IN  IF Cardinality(Of(blocks, "portainer")) # 1 THEN blocks
      ELSE IF \E k \in DOMAIN blocks \ Of(blocks, "portainer") : named(blocks[k]) THEN blocks
      ELSE RemoveAt(blocks, CHOOSE k \in Of(blocks, "portainer") : TRUE)

(* What putting the status block in means.                                 *)
Status == [site |-> "status", comments |-> <<Comment(0)>>, own |-> BLOCK, gap |-> 0]
WithStatus ==
  IF Of(blocks, "status") # {}
  THEN [k \in DOMAIN blocks |-> IF blocks[k].site = "status" THEN [blocks[k] EXCEPT !.own = BLOCK] ELSE blocks[k]]
  ELSE Append([k \in DOMAIN blocks |-> IF k = Len(blocks) THEN [blocks[k] EXCEPT !.gap = 1] ELSE blocks[k]], Status)

(* Both workflows ask Caddy before the result is used, and keep or put back *)
(* the old file if it says no.                                             *)
Adopted(new) == IF Validates(new) THEN new ELSE lines
Adopt(new, meant) ==
  lines' = Adopted(new) /\ blocks' = (IF lines' = lines THEN blocks ELSE meant) /\ UNCHANGED edits

RemoveCaddySite == Adopt(RemoveSite(lines), WithoutSite)
CaddyBlock == blocks # <<>> /\ Adopt(replace(lines), WithStatus)

Next ==
  \/ \E k \in 1..MaxBlocks, b \in Blocks : Hand(k, b)
  \/ RemoveCaddySite \/ CaddyBlock
Spec == Init /\ [][Next]_vars

----------------------------------------------------------------------------
(* The file says what was meant; and its comments with a brace too many.    *)
AsMeant == lines = FileOf(blocks)
Odd == {k \in DOMAIN lines : lines[k].is = "comment" /\ lines[k].opens # lines[k].closes}

(* The removal takes Portainer's block, with its comments, and not a line   *)
(* of another, or leaves the file; one comment with a brace too many can    *)
(* make it leave the file, never cut elsewhere (remove-caddy-site.py:9-11). *)
RemoveIsExact ==
  AsMeant => /\ Odd = {} => RemoveSite(lines) = FileOf(WithoutSite)
             /\ Cardinality(Odd) = 1 => RemoveSite(lines) \in {lines, FileOf(WithoutSite)}

(* The status block is put in once, in its place, and nothing else changes, *)
(* also when the script is run again (caddy_block.py:5-6); with one comment *)
(* that has a brace too many, Caddy refuses what would be wrong.            *)
ReplaceIsExact ==
  AsMeant /\ blocks # <<>> =>
    /\ Odd = {} => replace(lines) = FileOf(WithStatus) /\ replace(replace(lines)) = replace(lines)
    /\ Cardinality(Odd) = 1 => Adopted(replace(lines)) \in {lines, FileOf(WithStatus)}

(* Not so with two such comments: the braces between them are counted as    *)
(* one block, and a neighbour goes with it though Caddy takes the result    *)
(* (remove-caddy-site.py:9-11 "cat dung khoi do. Van FAIL-CLOSED").         *)
NeighboursStay ==
  AsMeant => /\ Adopted(RemoveSite(lines)) \in {lines, FileOf(WithoutSite)}
             /\ blocks # <<>> => Adopted(replace(lines)) \in {lines, FileOf(WithStatus)}
=============================================================================
