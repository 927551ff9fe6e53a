------------------------------ MODULE CaddyText ------------------------------
(***************************************************************************)
(* The two scripts that edit a Caddyfile by counting its braces:           *)
(* portainer-vpn4/remove-caddy-site.py, line by line, and                  *)
(* beszel/caddy_block.py.  A line is what they look at: whose header it is, *)
(* comment or blank, how many braces it opens and closes, and whether it    *)
(* names Portainer's address.                                              *)
(***************************************************************************)
EXTENDS Integers, Sequences, SequencesExt, FiniteSetsExt

Line(is, opens, closes) == [is |-> is, opens |-> opens, closes |-> closes, names |-> is = "portainer"]
Header(site) == Line(site, 1, 0)
Close == Line("text", 0, 1)
Text == Line("text", 0, 0)
Blank == Line("blank", 0, 0)
Comment(n) == Line("comment", n, n)
Unbalanced(o, c) == Line("comment", o, c)
Naming == [Comment(0) EXCEPT !.names = TRUE]

Depth(lines) == FoldLeft(LAMBDA d, l : d + l.opens - l.closes, 0, lines)
Cut(lines, first, last) == SubSeq(lines, 1, first - 1) \o SubSeq(lines, last + 1, Len(lines))

(* The line on which the block opened at line k closes, 0 if none.         *)
Closing(lines, k) ==
  LET ends == {j \in k..Len(lines) : Depth(SubSeq(lines, k, j)) = 0}
  IN  IF ends = {} THEN 0 ELSE Min(ends)

(* What Caddy itself takes: it sees no brace in a comment.                  *)
Validates(lines) ==
  LET code == SelectSeq(lines, LAMBDA l : l.is # "comment")
  IN  Depth(code) = 0 /\ \A k \in DOMAIN code : Depth(SubSeq(code, 1, k)) >= 0

Starts(lines, site) == {k \in 1..Len(lines) : lines[k].is = site}

----------------------------------------------------------------------------
(* The comments right above the header and the blank lines after the block  *)
(* go with it.                                                             *)
FirstLine(lines, k) == Min({i \in 1..k : \A j \in i..(k - 1) : lines[j].is = "comment"})
LastLine(lines, k) == Max({i \in k..Len(lines) : \A j \in (k + 1)..i : lines[j].is = "blank"})

(* mutant: the first line that closes a brace ends the block *)
find_site_bounds_flat(lines) ==
  LET k == Min(Starts(lines, "portainer"))
      ends == {j \in k..Len(lines) : lines[j].closes > 0}
  IN  IF Cardinality(Starts(lines, "portainer")) # 1 \/ ends = {} THEN <<>>
      ELSE <<FirstLine(lines, k), LastLine(lines, Min(ends))>>

(* The first and the last line of the block, none unless exactly one       *)
(* header is there, opens a block, and the block closes.                   *)
find_site_bounds(lines) ==
  LET k == Min(Starts(lines, "portainer"))
  IN  IF Cardinality(Starts(lines, "portainer")) # 1 THEN <<>>
      ELSE IF lines[k].opens = 0 \/ Closing(lines, k) = 0 THEN <<>>
      ELSE <<FirstLine(lines, k), LastLine(lines, Closing(lines, k))>>

(* remove-caddy-site.py's main: the file as it was if it exits.            *)
RemoveSite(lines) ==
  LET bounds == find_site_bounds(lines)
      remaining == Cut(lines, bounds[1], bounds[2])
  IN  IF bounds = <<>> THEN lines
      ELSE IF (\E k \in DOMAIN remaining : remaining[k].names) \/ Depth(remaining) # 0 THEN lines
      ELSE remaining

----------------------------------------------------------------------------
(* What caddy_block.py puts in, and the comment it adds the first time.     *)
BLOCK ==
  <<Header("status"), Comment(0), Comment(1), Line("text", 1, 0), Text, Line("text", 1, 0), Text,
    Line("text", 1, 0), Text, Close, Close, Text, Close, Comment(0), Text, Close>>

Stripped(lines) ==   \* rstrip
  SubSeq(lines, 1, Max({0} \cup {k \in DOMAIN lines : lines[k].is # "blank"}))

(* mutant: the block is added also when it is there *)
replace_append(lines) == Stripped(lines) \o <<Blank, Comment(0)>> \o BLOCK

(* caddy_block.py: the first block of the host, or a new one at the end;    *)
(* the file as it was if the block does not close.                         *)
replace(lines) ==
  IF Starts(lines, "status") = {} THEN Stripped(lines) \o <<Blank, Comment(0)>> \o BLOCK
  ELSE LET k == Min(Starts(lines, "status"))
       IN  IF Closing(lines, k) = 0 THEN lines
           ELSE SubSeq(lines, 1, k - 1) \o BLOCK \o SubSeq(lines, Closing(lines, k) + 1, Len(lines))
=============================================================================
