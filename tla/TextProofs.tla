----------------------------- MODULE TextProofs -----------------------------
(***************************************************************************)
(* Proofs about the edits of ConfigText, for every text: what               *)
(* plugin-config.py adds and keeps, that it has no more to do when it is    *)
(* run again, and what YAML reads of the plugin then; and what YAML reads   *)
(* in a text in which quota-failover.py has turned session affinity off.    *)
(*                                                                          *)
(* First the scans: _find finds the first line that is the one asked for,   *)
(* _block_end the end of the block.  Then what merge puts where.  Last the  *)
(* paths of lines, which are defined by recursion over their parents, and   *)
(* so are proved to exist, and to be the only ones, by the least line for   *)
(* which they would not be.                                                 *)
(***************************************************************************)
EXTENDS ConfigText, SequenceTheorems, WellFoundedInduction, TLAPS

(* A line whose names and values are of a given set, and the names that     *)
(* merge itself writes.                                                     *)
TextLine(Names) ==
  [kind : {"key", "item", "blank", "comment"}, ind : Nat, name : Names, val : Names]
MergeNames == {"", "plugins", "configs", PLUGIN, "enabled", "true"}

(* Every non-empty set of naturals has a least element.                     *)
LEMMA LeastExists ==
  ASSUME NEW S \in SUBSET Nat, S # {}
  PROVE  \E i \in S : \A j \in S : i <= j
<1> DEFINE Less == {p \in Nat \X Nat : p[1] < p[2]}
<1>1. IsWellFoundedOn(Less, Nat)
  BY NatLessThanWellFounded DEF OpToRel
<1>2. ASSUME NEW i \in Nat, NEW j \in Nat, <<i, j>> \notin Less
      PROVE  j <= i
  BY <1>2
<1> HIDE DEF Less
<1>3. PICK x \in S : \A y \in S : <<y, x>> \notin Less
  BY <1>1, WFMin, Zenon
<1>4. ASSUME NEW y \in S
      PROVE  x <= y
  <2>1. x \in Nat /\ y \in Nat /\ <<y, x>> \notin Less
    BY <1>3
  <2> QED BY <2>1, <1>2
<1> QED BY <1>4

LEMMA LeastIs ==
  ASSUME NEW S \in SUBSET Nat, NEW default \in Nat
  PROVE  \/ S = {} /\ Least(S, default) = default
         \/ Least(S, default) \in S /\ \A j \in S : Least(S, default) <= j
<1>1. CASE S = {}
  BY <1>1 DEF Least
<1>2. CASE S # {}
  BY <1>2, LeastExists DEF Least
<1> QED BY <1>1, <1>2

LEMMA LinesAre ==
  ASSUME NEW Names, NEW t \in Seq(TextLine(Names))
  PROVE  Len(t) \in Nat /\ DOMAIN t = 1..Len(t) /\ \A i \in 1..Len(t) : t[i] \in TextLine(Names) /\ t[i].ind \in Nat
<1>1. Len(t) \in Nat /\ DOMAIN t = 1..Len(t) /\ \A i \in 1..Len(t) : t[i] \in TextLine(Names)
  OBVIOUS
<1>2. \A l \in TextLine(Names) : l.ind \in Nat
  BY DEF TextLine
<1> QED BY <1>1, <1>2

(* No line from `from` to `to` ends a block of this depth.                  *)
Deeper(t, from, to, ind) == \A i \in from..to : _is_content(t[i]) => t[i].ind > ind

(* The line at i is the first from `from` on that is this one.              *)
FirstFrom(t, from, i, line) == t[i] = line /\ \A j \in from..i - 1 : t[j] # line

Lacks(t, from, to, line) == \A j \in from..to : t[j] # line

(* _find finds the first such line of the range, or gives 0 if none is.     *)
LEMMA FindIs ==
  ASSUME NEW Names, NEW t \in Seq(TextLine(Names)), NEW start \in Nat \ {0}, NEW end \in 1..Len(t) + 1,
         NEW name, NEW val, NEW ind
  PROVE  LET i == _find(t, start, end, name, val, ind)
         IN  \/ i = 0 /\ \A j \in start..end - 1 : t[j] # KeyLine(ind, name, val)
             \/ i \in start..end - 1 /\ FirstFrom(t, start, i, KeyLine(ind, name, val))
<1> DEFINE S == {i \in start..(end - 1) : IsKey(t[i], name) /\ t[i].val = val /\ t[i].ind = ind}
           line == KeyLine(ind, name, val)
<1>1. S \in SUBSET Nat
  OBVIOUS
<1>2. \/ S = {} /\ Least(S, 0) = 0
      \/ Least(S, 0) \in S /\ \A j \in S : Least(S, 0) <= j
  BY <1>1, LeastIs
<1>3. _find(t, start, end, name, val, ind) = Least(S, 0)
  BY DEF _find
<1>4. \A j \in start..end - 1 : j \in S <=> t[j] = line
  <2>1. Len(t) \in Nat /\ \A j \in 1..Len(t) : t[j] \in TextLine(Names)
    BY LinesAre
  <2>2. \A j \in start..end - 1 : j \in 1..Len(t)
    BY <2>1
  <2>3. \A l \in TextLine(Names) : l = line <=> l.kind = "key" /\ l.name = name /\ l.val = val /\ l.ind = ind
    BY DEF TextLine, KeyLine
  <2> QED
    BY <2>1, <2>2, <2>3 DEF IsKey
<1>5. \A j \in S : j \in start..end - 1
  OBVIOUS
<1> HIDE DEF S, line
<1>6. CASE S = {} /\ Least(S, 0) = 0
  BY <1>3, <1>4, <1>6 DEF line
<1>7. CASE Least(S, 0) \in S /\ \A j \in S : Least(S, 0) <= j
  <2> DEFINE i == Least(S, 0)
  <2>1. i \in start..end - 1 /\ t[i] = line
    BY <1>4, <1>5, <1>7
  <2>2. ASSUME NEW j \in start..i - 1
        PROVE  t[j] # line
    <3> HIDE DEF i
    <3>1. j \in start..end - 1 /\ ~(i <= j)
      BY <2>1, <2>2
    <3> QED BY <3>1, <1>4, <1>7 DEF i
  <2> QED BY <1>3, <2>1, <2>2 DEF FirstFrom, line
<1> QED BY <1>2, <1>6, <1>7

LEMMA FirstIsFound ==
  ASSUME NEW Names, NEW t \in Seq(TextLine(Names)), NEW start \in Nat \ {0}, NEW end \in 1..Len(t) + 1,
         NEW name, NEW val, NEW ind,
         NEW i \in start..end - 1, FirstFrom(t, start, i, KeyLine(ind, name, val))
  PROVE  _find(t, start, end, name, val, ind) = i
<1> DEFINE k == _find(t, start, end, name, val, ind)
<1>1. \/ k = 0 /\ \A j \in start..end - 1 : t[j] # KeyLine(ind, name, val)
      \/ k \in start..end - 1 /\ FirstFrom(t, start, k, KeyLine(ind, name, val))
  BY FindIs
<1> HIDE DEF k
<1>2. k \in start..end - 1 /\ FirstFrom(t, start, k, KeyLine(ind, name, val))
  BY <1>1 DEF FirstFrom
<1> DEFINE line == KeyLine(ind, name, val)
<1>3. /\ t[i] = line /\ t[k] = line
      /\ \A j \in start..i - 1 : t[j] # line
      /\ \A j \in start..k - 1 : t[j] # line
  BY <1>2 DEF FirstFrom
<1> HIDE DEF line
<1>4. start \in Nat /\ end \in Int /\ i \in start..end - 1 /\ k \in start..end - 1
  BY <1>2, LinesAre
<1>5. i = k
  BY <1>3, <1>4
<1> QED BY <1>5 DEF k

(* _block_end gives the first line that ends the block, or the end.         *)
LEMMA EndIs ==
  ASSUME NEW Names, NEW t \in Seq(TextLine(Names)), NEW start \in Nat \ {0}, NEW ind \in Nat, start <= Len(t) + 1
  PROVE  LET e == _block_end(t, start, ind)
         IN  /\ e \in start..Len(t) + 1 /\ Deeper(t, start, e - 1, ind)
             /\ e <= Len(t) => _is_content(t[e]) /\ t[e].ind <= ind
<1> DEFINE S == {i \in start..Len(t) : _is_content(t[i]) /\ t[i].ind <= ind}
           e == Least(S, Len(t) + 1)
<1>1. S \in SUBSET Nat /\ Len(t) \in Nat /\ Len(t) + 1 \in Nat
  OBVIOUS
<1>2. \/ S = {} /\ e = Len(t) + 1
      \/ e \in S /\ \A j \in S : e <= j
  BY <1>1, LeastIs
<1>3. _block_end(t, start, ind) = e
  BY DEF _block_end
<1>4. \A i \in 1..Len(t) : t[i].ind \in Nat
  BY LinesAre
<1> HIDE DEF e
<1>5. e \in start..Len(t) + 1
  BY <1>1, <1>2
<1>6. ASSUME NEW i \in start..e - 1, _is_content(t[i])
      PROVE  t[i].ind > ind
  <2>1. i \in start..Len(t) /\ i \in 1..Len(t) /\ ~(e <= i)
    BY <1>1, <1>5
  <2>2. i \notin S
    BY <1>2, <2>1
  <2> QED BY <1>4, <1>6, <2>1, <2>2
<1> QED BY <1>1, <1>2, <1>3, <1>5, <1>6 DEF Deeper

(* A block reaches as far as its lines are deeper.                          *)
LEMMA EndsAfter ==
  ASSUME NEW Names, NEW t \in Seq(TextLine(Names)), NEW start \in Nat \ {0}, NEW ind \in Nat, NEW last \in Nat,
         start <= last, last <= Len(t), Deeper(t, start, last, ind)
  PROVE  _block_end(t, start, ind) \in last + 1..Len(t) + 1
<1> DEFINE e == _block_end(t, start, ind)
<1>1. /\ e \in start..Len(t) + 1
      /\ e <= Len(t) => _is_content(t[e]) /\ t[e].ind <= ind
  BY EndIs
<1> HIDE DEF e
<1>2. \A i \in 1..Len(t) : t[i].ind \in Nat
  BY LinesAre
<1>3. ~(e <= last)
  <2> SUFFICES ASSUME e <= last PROVE FALSE
    OBVIOUS
  <2>1. e \in start..last /\ e \in 1..Len(t) /\ _is_content(t[e]) /\ t[e].ind <= ind
    BY <1>1
  <2> QED BY <1>2, <2>1 DEF Deeper
<1> QED BY <1>1, <1>3 DEF e

PluginsLine == KeyLine(0, "plugins", "")
ConfigsLine == KeyLine(2, "configs", "")
PluginLine == KeyLine(4, PLUGIN, "")

(* The plugin is enabled, as merge reads a text: plugins, configs, its      *)
(* block and the line that enables it, each found where the last one leads. *)
HasPlugins(t, p) == p \in 1..Len(t) /\ FirstFrom(t, 1, p, PluginsLine)

HasConfigs(t, p, c) ==
  HasPlugins(t, p) /\ c \in 1..Len(t) /\ p < c /\ FirstFrom(t, p + 1, c, ConfigsLine) /\ Deeper(t, p + 1, c, 0)

HasPlugin(t, p, c, g) ==
  HasConfigs(t, p, c) /\ g \in 1..Len(t) /\ c < g /\ FirstFrom(t, c + 1, g, PluginLine) /\ Deeper(t, c + 1, g, 2)

InPlugin(t, g, e) == e \in 1..Len(t) /\ g < e /\ Deeper(t, g + 1, e, 4)
IsOn(t, p, c, g, e) == HasPlugin(t, p, c, g) /\ InPlugin(t, g, e) /\ t[e] = Enabled

(* If the plugin is on, merge has nothing to do.                            *)
LEMMA OnIsKept ==
  ASSUME NEW Names, NEW t \in Seq(TextLine(Names)), NEW p, NEW c, NEW g, NEW e, IsOn(t, p, c, g, e)
  PROVE  merge(t) = t
<1>0. Len(t) \in Nat
  BY LinesAre
<1>1. /\ p \in 1..Len(t) /\ c \in 1..Len(t) /\ g \in 1..Len(t) /\ e \in 1..Len(t)
      /\ p < c /\ c < g /\ g < e /\ t[e] = Enabled
  BY DEF IsOn, HasPlugins, HasConfigs, HasPlugin, InPlugin
<1>2. /\ FirstFrom(t, 1, p, KeyLine(0, "plugins", "")) /\ Deeper(t, p + 1, c, 0)
      /\ FirstFrom(t, p + 1, c, KeyLine(2, "configs", "")) /\ Deeper(t, c + 1, g, 2)
      /\ FirstFrom(t, c + 1, g, KeyLine(4, PLUGIN, "")) /\ Deeper(t, g + 1, e, 4)
  BY DEF IsOn, HasPlugins, HasConfigs, HasPlugin, InPlugin, PluginsLine, ConfigsLine, PluginLine
<1>3. /\ 1 \in Nat \ {0} /\ p + 1 \in Nat \ {0} /\ c + 1 \in Nat \ {0} /\ g + 1 \in Nat \ {0} /\ p + 1 <= c /\ c + 1 <= g /\ g + 1 <= e
      /\ p \in 1..(Len(t) + 1) - 1 /\ Len(t) + 1 \in 1..Len(t) + 1
      /\ c <= Len(t) /\ g <= Len(t) /\ e <= Len(t) /\ c \in Nat /\ g \in Nat /\ e \in Nat
  BY <1>0, <1>1
<1>4. _find(t, 1, Len(t) + 1, "plugins", "", 0) = p
  BY <1>2, <1>3, FirstIsFound
<1> DEFINE pe == _block_end(t, p + 1, 0)
           ce == _block_end(t, c + 1, 2)
           ge == _block_end(t, g + 1, 4)
<1>5. pe \in c + 1..Len(t) + 1 /\ ce \in g + 1..Len(t) + 1 /\ ge \in e + 1..Len(t) + 1
  BY <1>2, <1>3, EndsAfter
<1> HIDE DEF pe, ce, ge
<1>6. _find(t, p + 1, pe, "configs", "", 2) = c
  <2>1. c \in p + 1..pe - 1 /\ pe \in 1..Len(t) + 1
    BY <1>0, <1>1, <1>5
  <2> QED BY <1>2, <1>3, <2>1, FirstIsFound
<1>7. _find(t, c + 1, ce, PLUGIN, "", 4) = g
  <2>1. g \in c + 1..ce - 1 /\ ce \in 1..Len(t) + 1
    BY <1>0, <1>1, <1>5
  <2> QED BY <1>2, <1>3, <2>1, FirstIsFound
<1>8. _find(t, g + 1, ge, "enabled", "true", 6) > 0
  <2> DEFINE f == _find(t, g + 1, ge, "enabled", "true", 6)
  <2>1. e \in g + 1..ge - 1 /\ ge \in 1..Len(t) + 1 /\ g + 1 \in Nat \ {0}
    BY <1>0, <1>1, <1>5
  <2>2. \/ f = 0 /\ \A j \in g + 1..ge - 1 : t[j] # KeyLine(6, "enabled", "true")
        \/ f \in g + 1..ge - 1
    BY <2>1, FindIs
  <2> HIDE DEF f
  <2>3. f > 0
    BY <1>1, <2>1, <2>2 DEF Enabled
  <2> QED BY <2>3 DEF f
<1>9. p # 0 /\ c # 0 /\ g > 0
  BY <1>1
<1>10. EnablePlugin(t, g) = t
  BY <1>8 DEF EnablePlugin, ge
<1> QED BY <1>4, <1>6, <1>7, <1>9, <1>10 DEF merge, pe, ce

(* m is u after s; and t with new lines put in before line i.              *)
IsConcat(T, m, s, u) ==
  /\ m \in Seq(T) /\ Len(m) = Len(s) + Len(u)
  /\ \A k \in 1..Len(s) : m[k] = s[k]
  /\ \A k \in 1..Len(u) : m[Len(s) + k] = u[k]

IsInsert(T, m, t, i, new) ==
  /\ m \in Seq(T) /\ Len(m) = Len(t) + Len(new)
  /\ \A k \in 1..i - 1 : m[k] = t[k]
  /\ \A k \in 1..Len(new) : m[i - 1 + k] = new[k]
  /\ \A k \in i..Len(t) : m[k + Len(new)] = t[k]

LEMMA ConcatHas ==
  ASSUME NEW T, NEW s \in Seq(T), NEW u \in Seq(T)
  PROVE  IsConcat(T, s \o u, s, u)
<1>1. Len(s) \in Nat /\ Len(u) \in Nat
  OBVIOUS
<1>2. s \o u \in Seq(T) /\ Len(s \o u) = Len(s) + Len(u)
  OBVIOUS
<1>3. \A k \in 1..Len(s) : (s \o u)[k] = s[k]
  OBVIOUS
<1>4. \A k \in 1..Len(u) : (s \o u)[Len(s) + k] = u[k]
  <2> TAKE k \in 1..Len(u)
  <2>1. Len(s) + k \in 1..Len(s) + Len(u) /\ ~(Len(s) + k <= Len(s)) /\ (Len(s) + k) - Len(s) = k
    BY <1>1
  <2> QED BY <2>1
<1> QED BY <1>2, <1>3, <1>4 DEF IsConcat

LEMMA InsertHas ==
  ASSUME NEW T, NEW t \in Seq(T), NEW new \in Seq(T), NEW i \in 1..Len(t) + 1
  PROVE  IsInsert(T, Insert(t, i, new), t, i, new)
<1> DEFINE a == SubSeq(t, 1, i - 1)
           b == SubSeq(t, i, Len(t))
           m == Insert(t, i, new)
<1>0. Len(t) \in Nat /\ Len(new) \in Nat
  OBVIOUS
<1>1. a \in Seq(T) /\ Len(a) = i - 1 /\ \A k \in 1..i - 1 : a[k] = t[k]
  BY <1>0
<1>2. b \in Seq(T) /\ Len(b) = Len(t) - i + 1 /\ \A k \in 1..Len(t) - i + 1 : b[k] = t[i + k - 1]
  BY <1>0
<1>3. m = (a \o new) \o b
  BY DEF Insert
<1> HIDE DEF a, b, m
<1>4. /\ a \o new \in Seq(T) /\ Len(a \o new) = i - 1 + Len(new)
      /\ \A k \in 1..i - 1 : (a \o new)[k] = t[k]
      /\ \A k \in 1..Len(new) : (a \o new)[i - 1 + k] = new[k]
  <2>1. /\ a \o new \in Seq(T) /\ Len(a \o new) = Len(a) + Len(new)
        /\ \A k \in 1..Len(a) : (a \o new)[k] = a[k]
        /\ \A k \in 1..Len(new) : (a \o new)[Len(a) + k] = new[k]
    <3>1. a \in Seq(T)
      BY <1>1
    <3> QED BY <3>1, ConcatHas DEF IsConcat
  <2> QED BY <1>1, <2>1
<1>5. /\ m \in Seq(T) /\ Len(m) = Len(t) + Len(new)
      /\ \A k \in 1..i - 1 + Len(new) : m[k] = (a \o new)[k]
      /\ \A k \in 1..Len(t) - i + 1 : m[i - 1 + Len(new) + k] = b[k]
  <2> DEFINE c == a \o new
  <2>1. c \in Seq(T) /\ Len(c) = i - 1 + Len(new)
    BY <1>4
  <2> HIDE DEF c
  <2>2. /\ c \o b \in Seq(T) /\ Len(c \o b) = Len(c) + Len(b)
        /\ \A k \in 1..Len(c) : (c \o b)[k] = c[k]
        /\ \A k \in 1..Len(b) : (c \o b)[Len(c) + k] = b[k]
    <3>1. c \in Seq(T) /\ b \in Seq(T)
      BY <1>2, <2>1
    <3> QED BY <3>1, ConcatHas DEF IsConcat
  <2>3. m = c \o b
    BY <1>3 DEF c
  <2>4. Len(c) + Len(b) = Len(t) + Len(new)
    BY <1>0, <1>2, <2>1
  <2>5. m \in Seq(T) /\ Len(m) = Len(t) + Len(new) /\ \A k \in 1..i - 1 + Len(new) : m[k] = c[k]
    BY <2>1, <2>2, <2>3, <2>4
  <2>6. \A k \in 1..Len(t) - i + 1 : m[i - 1 + Len(new) + k] = b[k]
    BY <1>2, <2>1, <2>2, <2>3
  <2> QED BY <2>5, <2>6 DEF c
<1>6. \A k \in 1..i - 1 : m[k] = t[k]
  <2> TAKE k \in 1..i - 1
  <2>1. k \in 1..i - 1 + Len(new)
    BY <1>0
  <2> QED BY <1>4, <1>5, <2>1
<1>7. \A k \in 1..Len(new) : m[i - 1 + k] = new[k]
  <2> TAKE k \in 1..Len(new)
  <2> DEFINE x == i - 1 + k
  <2>1. x \in 1..i - 1 + Len(new)
    BY <1>0
  <2>2. (a \o new)[x] = new[k]
    BY <1>4
  <2> HIDE DEF x
  <2>3. m[x] = (a \o new)[x]
    BY <1>5, <2>1
  <2> QED BY <2>2, <2>3 DEF x
<1>8. \A k \in i..Len(t) : m[k + Len(new)] = t[k]
  <2> TAKE k \in i..Len(t)
  <2>1. k - i + 1 \in 1..Len(t) - i + 1 /\ i - 1 + Len(new) + (k - i + 1) = k + Len(new) /\ i + (k - i + 1) - 1 = k
    BY <1>0
  <2>2. b[k - i + 1] = t[k]
    BY <1>2, <2>1
  <2> DEFINE x == k - i + 1
  <2>3. m[i - 1 + Len(new) + x] = b[x]
    <3>1. x \in 1..Len(t) - i + 1
      BY <2>1
    <3> HIDE DEF x
    <3> QED BY <1>5, <3>1
  <2> QED BY <2>1, <2>2, <2>3
<1> QED BY <1>5, <1>6, <1>7, <1>8 DEF m, IsInsert

LEMMA BlocksAre ==
  ASSUME NEW Names, MergeNames \subseteq Names
  PROVE
  /\ ConfigsBlock \in Seq(TextLine(Names)) /\ Len(ConfigsBlock) = 3
  /\ ConfigsBlock[1] = ConfigsLine /\ ConfigsBlock[2] = PluginLine /\ ConfigsBlock[3] = Enabled
  /\ PluginBlock \in Seq(TextLine(Names)) /\ Len(PluginBlock) = 2
  /\ PluginBlock[1] = PluginLine /\ PluginBlock[2] = Enabled
  /\ <<Enabled>> \in Seq(TextLine(Names)) /\ Len(<<Enabled>>) = 1 /\ <<Enabled>>[1] = Enabled
<1>1. ConfigsLine \in TextLine(Names) /\ PluginLine \in TextLine(Names) /\ Enabled \in TextLine(Names)
  <2>0. "" \in Names /\ "configs" \in Names /\ PLUGIN \in Names /\ "enabled" \in Names /\ "true" \in Names
    BY DEF MergeNames
  <2>1. ConfigsLine \in TextLine(Names)
    BY <2>0 DEF ConfigsLine, KeyLine, TextLine
  <2>2. PluginLine \in TextLine(Names)
    BY <2>0 DEF PluginLine, PLUGIN, KeyLine, TextLine
  <2>3. Enabled \in TextLine(Names)
    BY <2>0 DEF Enabled, KeyLine, TextLine
  <2> QED BY <2>1, <2>2, <2>3
<1>2. PluginBlock = <<PluginLine, Enabled>> /\ ConfigsBlock = <<ConfigsLine>> \o PluginBlock
  BY DEF PluginBlock, ConfigsBlock, PluginLine, ConfigsLine
<1> QED BY <1>1, <1>2

(* What merge's lines are: none of them is another.                         *)
LEMMA LinesDiffer ==
  /\ PluginsLine # ConfigsLine /\ PluginsLine # PluginLine /\ ConfigsLine # PluginLine
  /\ Enabled \notin {PluginsLine, ConfigsLine, PluginLine}
  /\ PluginsLine.ind = 0 /\ ConfigsLine.ind = 2 /\ PluginLine.ind = 4 /\ Enabled.ind = 6
  BY DEF PluginsLine, ConfigsLine, PluginLine, Enabled, KeyLine, PLUGIN

(* Where two texts begin alike, a search finds the same.                    *)
LEMMA SameBeginning ==
  ASSUME NEW t, NEW m, NEW n \in Nat, n <= Len(m), Len(m) \in Nat, \A k \in 1..n : m[k] = t[k]
  PROVE  /\ \A p \in 1..n : HasPlugins(t, p) => HasPlugins(m, p)
         /\ \A p, c \in 1..n : HasConfigs(t, p, c) => HasConfigs(m, p, c)
         /\ \A p, c, g \in 1..n : HasPlugin(t, p, c, g) => HasPlugin(m, p, c, g)
<1>1. \A line : \A from \in Nat \ {0}, i \in 1..n : FirstFrom(t, from, i, line) => FirstFrom(m, from, i, line)
  <2> SUFFICES ASSUME NEW from \in Nat \ {0}, NEW i \in 1..n, NEW line, FirstFrom(t, from, i, line)
               PROVE  FirstFrom(m, from, i, line)
    OBVIOUS
  <2>1. \A j \in from..i - 1 : j \in 1..n
    OBVIOUS
  <2> QED BY <2>1 DEF FirstFrom
<1>2. \A ind : \A from \in Nat \ {0}, i \in 1..n : Deeper(t, from, i, ind) => Deeper(m, from, i, ind)
  <2> SUFFICES ASSUME NEW from \in Nat \ {0}, NEW i \in 1..n, NEW ind, Deeper(t, from, i, ind)
               PROVE  Deeper(m, from, i, ind)
    OBVIOUS
  <2>1. \A j \in from..i : j \in 1..n
    OBVIOUS
  <2> QED BY <2>1 DEF Deeper
<1>3. \A i \in 1..n : i \in 1..Len(m) /\ i + 1 \in Nat \ {0}
  OBVIOUS
<1>4. \A p \in 1..n : HasPlugins(t, p) => HasPlugins(m, p)
  BY <1>1, <1>3 DEF HasPlugins
<1>5. \A p, c \in 1..n : HasConfigs(t, p, c) => HasConfigs(m, p, c)
  BY <1>1, <1>2, <1>3, <1>4 DEF HasConfigs
<1>6. \A p, c, g \in 1..n : HasPlugin(t, p, c, g) => HasPlugin(m, p, c, g)
  BY <1>1, <1>2, <1>3, <1>5 DEF HasPlugin
<1> QED BY <1>4, <1>5, <1>6

(* A block that reaches to i and a line at i that is deeper.                *)
LEMMA DeeperTo ==
  ASSUME NEW m, NEW from \in Nat, NEW i \in Nat, NEW ind, Deeper(m, from, i - 1, ind), m[i].ind > ind
  PROVE  Deeper(m, from, i, ind)
<1>1. \A j \in from..i : j \in from..i - 1 \/ j = i
  OBVIOUS
<1> QED BY <1>1 DEF Deeper

(* merge's own lines, and a text that has every line of another in order,   *)
(* the k-th at f[k], and beside them only such lines.                       *)
Own == {Blank, PluginsLine, KeyLine(2, "enabled", "true"), ConfigsLine, PluginLine, Enabled}

Grown(t, m, f) ==
  /\ f \in [1..Len(t) -> 1..Len(m)] /\ \A j, k \in 1..Len(t) : j < k => f[j] < f[k]
  /\ \A j \in 1..Len(m) : m[j] \in Own \/ \E k \in 1..Len(t) : f[k] = j

LEMMA InsertGrows ==
  ASSUME NEW T, NEW t \in Seq(T), NEW new \in Seq(T), NEW i \in 1..Len(t) + 1,
         \A k \in 1..Len(new) : new[k] \in Own
  PROVE  \E f : Grown(t, Insert(t, i, new), f) /\ \A k \in 1..Len(t) : Insert(t, i, new)[f[k]] = t[k]
<1> DEFINE m == Insert(t, i, new)
           n == Len(new)
           f == [k \in 1..Len(t) |-> IF k < i THEN k ELSE k + n]
<1>1. /\ m \in Seq(T) /\ Len(m) = Len(t) + Len(new)
      /\ \A k \in 1..i - 1 : m[k] = t[k]
      /\ \A k \in 1..Len(new) : m[i - 1 + k] = new[k]
      /\ \A k \in i..Len(t) : m[k + Len(new)] = t[k]
  BY InsertHas DEF IsInsert
<1>2. Len(t) \in Nat /\ n \in Nat
  OBVIOUS
<1> HIDE DEF m
<1>3. f \in [1..Len(t) -> 1..Len(m)] /\ \A j, k \in 1..Len(t) : j < k => f[j] < f[k]
  BY <1>1, <1>2
<1>4. ASSUME NEW k \in 1..Len(t)
      PROVE  m[f[k]] = t[k]
  <2>1. CASE k < i
    <3>1. k \in 1..i - 1 /\ f[k] = k
      BY <1>2, <2>1
    <3> QED BY <1>1, <3>1
  <2>2. CASE ~(k < i)
    <3>1. k \in i..Len(t) /\ f[k] = k + Len(new)
      BY <1>2, <2>2
    <3> QED BY <1>1, <3>1
  <2> QED BY <2>1, <2>2
<1>5. ASSUME NEW j \in 1..Len(m)
      PROVE  m[j] \in Own \/ \E k \in 1..Len(t) : f[k] = j
  <2>1. CASE j < i
    <3>1. j \in 1..Len(t) /\ f[j] = j
      BY <1>2, <2>1
    <3> QED BY <3>1
  <2>2. CASE i <= j /\ j < i + n
    <3> DEFINE k == j - i + 1
    <3>1. k \in 1..Len(new) /\ i - 1 + k = j
      BY <1>2, <2>2
    <3> HIDE DEF k
    <3> QED BY <1>1, <3>1
  <2>3. CASE i + n <= j
    <3>1. j - n \in 1..Len(t) /\ f[j - n] = j
      BY <1>1, <1>2, <2>3
    <3> QED BY <3>1
  <2> QED BY <1>1, <1>2, <2>1, <2>2, <2>3
<1>6. Grown(t, m, f)
  BY <1>3, <1>5 DEF Grown
<1> QED BY <1>4, <1>6 DEF m

(* A text that has no plugin: merge's blocks at the end of configs or of    *)
(* plugins.                                                                 *)
LEMMA GivenConfigs ==
  ASSUME NEW Names, MergeNames \subseteq Names, NEW t \in Seq(TextLine(Names)), NEW p, HasPlugins(t, p),
         NEW i \in p + 1..Len(t) + 1, Deeper(t, p + 1, i - 1, 0), Lacks(t, p + 1, i - 1, ConfigsLine)
  PROVE  IsOn(Insert(t, i, ConfigsBlock), p, i, i + 1, i + 2)
<1> DEFINE m == Insert(t, i, ConfigsBlock)
<1>1. Len(t) \in Nat /\ p \in 1..Len(t) /\ i \in 1..Len(t) + 1 /\ p < i
  BY LinesAre DEF HasPlugins
<1>2. /\ m \in Seq(TextLine(Names)) /\ Len(m) = Len(t) + 3
      /\ \A k \in 1..i - 1 : m[k] = t[k]
      /\ m[i] = ConfigsLine /\ m[i + 1] = PluginLine /\ m[i + 2] = Enabled
  <2>0. /\ ConfigsBlock \in Seq(TextLine(Names)) /\ Len(ConfigsBlock) = 3
        /\ ConfigsBlock[1] = ConfigsLine /\ ConfigsBlock[2] = PluginLine /\ ConfigsBlock[3] = Enabled
    BY BlocksAre
  <2>1. /\ m \in Seq(TextLine(Names)) /\ Len(m) = Len(t) + Len(ConfigsBlock)
        /\ \A k \in 1..i - 1 : m[k] = t[k]
        /\ \A k \in 1..Len(ConfigsBlock) : m[i - 1 + k] = ConfigsBlock[k]
    <3>1. ConfigsBlock \in Seq(TextLine(Names)) /\ i \in 1..Len(t) + 1
      BY <1>1, <2>0
    <3>2. IsInsert(TextLine(Names), m, t, i, ConfigsBlock)
      BY <3>1, InsertHas
    <3> QED BY <3>2 DEF IsInsert
  <2> HIDE DEF m
  <2>2. m[i - 1 + 1] = ConfigsLine /\ m[i - 1 + 2] = PluginLine /\ m[i - 1 + 3] = Enabled
    BY <2>0, <2>1
  <2> QED BY <1>1, <2>0, <2>1, <2>2
<1> HIDE DEF m
<1>3. HasPlugins(m, p)
  <2>1. i - 1 \in Nat /\ i - 1 <= Len(m) /\ Len(m) \in Nat /\ p \in 1..i - 1
    BY <1>1, <1>2
  <2> QED BY <1>2, <2>1, SameBeginning
<1>4. HasConfigs(m, p, i)
  <2>1. \A j \in p + 1..i - 1 : j \in 1..i - 1
    BY <1>1
  <2>2. Deeper(m, p + 1, i - 1, 0)
    BY <1>2, <2>1 DEF Deeper
  <2>3. Deeper(m, p + 1, i, 0)
    <3>1. m[i].ind > 0 /\ p + 1 \in Nat /\ i \in Nat
      BY <1>1, <1>2, LinesDiffer
    <3> QED BY <2>2, <3>1, DeeperTo
  <2>4. FirstFrom(m, p + 1, i, ConfigsLine)
    BY <1>2, <2>1 DEF FirstFrom, Lacks
  <2> QED BY <1>1, <1>2, <1>3, <2>3, <2>4 DEF HasConfigs
<1>5. HasPlugin(m, p, i, i + 1)
  <2>1. \A j \in i + 1..(i + 1) - 1 : FALSE
    BY <1>1
  <2>2. \A j \in i + 1..i + 1 : j = i + 1
    BY <1>1
  <2> QED BY <1>1, <1>2, <1>4, <2>1, <2>2, LinesDiffer DEF HasPlugin, FirstFrom, Deeper
<1>6. InPlugin(m, i + 1, i + 2)
  <2>1. \A j \in (i + 1) + 1..i + 2 : j = i + 2
    BY <1>1
  <2>2. m[i + 2].ind > 4
    BY <1>2, LinesDiffer
  <2>3. i + 2 \in 1..Len(m) /\ i + 1 < i + 2
    BY <1>1, <1>2
  <2> QED BY <2>1, <2>2, <2>3 DEF InPlugin, Deeper
<1> QED BY <1>2, <1>5, <1>6 DEF IsOn, m

LEMMA GivenPlugin ==
  ASSUME NEW Names, MergeNames \subseteq Names, NEW t \in Seq(TextLine(Names)), NEW p, NEW c, HasConfigs(t, p, c),
         NEW i \in c + 1..Len(t) + 1, Deeper(t, c + 1, i - 1, 2), Lacks(t, c + 1, i - 1, PluginLine)
  PROVE  IsOn(Insert(t, i, PluginBlock), p, c, i, i + 1)
<1> DEFINE m == Insert(t, i, PluginBlock)
<1>1. Len(t) \in Nat /\ p \in 1..Len(t) /\ c \in 1..Len(t) /\ p < c /\ c < i /\ i \in 1..Len(t) + 1
  BY LinesAre DEF HasPlugins, HasConfigs
<1>2. /\ m \in Seq(TextLine(Names)) /\ Len(m) = Len(t) + 2
      /\ \A k \in 1..i - 1 : m[k] = t[k]
      /\ m[i] = PluginLine /\ m[i + 1] = Enabled
  <2>0. /\ PluginBlock \in Seq(TextLine(Names)) /\ Len(PluginBlock) = 2
        /\ PluginBlock[1] = PluginLine /\ PluginBlock[2] = Enabled
    BY BlocksAre
  <2>1. /\ m \in Seq(TextLine(Names)) /\ Len(m) = Len(t) + Len(PluginBlock)
        /\ \A k \in 1..i - 1 : m[k] = t[k]
        /\ \A k \in 1..Len(PluginBlock) : m[i - 1 + k] = PluginBlock[k]
    <3>1. PluginBlock \in Seq(TextLine(Names)) /\ i \in 1..Len(t) + 1
      BY <1>1, <2>0
    <3>2. IsInsert(TextLine(Names), m, t, i, PluginBlock)
      BY <3>1, InsertHas
    <3> QED BY <3>2 DEF IsInsert
  <2> HIDE DEF m
  <2>2. m[i - 1 + 1] = PluginLine /\ m[i - 1 + 2] = Enabled
    BY <2>0, <2>1
  <2>3. i - 1 + 1 = i /\ i - 1 + 2 = i + 1
    BY <1>1
  <2> QED BY <2>0, <2>1, <2>2, <2>3
<1> HIDE DEF m
<1>3. HasConfigs(m, p, c)
  <2>1. i - 1 \in Nat /\ i - 1 <= Len(m) /\ Len(m) \in Nat /\ p \in 1..i - 1 /\ c \in 1..i - 1
    BY <1>1, <1>2
  <2> QED BY <1>2, <2>1, SameBeginning
<1>4. HasPlugin(m, p, c, i)
  <2>1. \A j \in c + 1..i - 1 : j \in 1..i - 1
    BY <1>1
  <2>2. Deeper(m, c + 1, i - 1, 2)
    BY <1>2, <2>1 DEF Deeper
  <2>3. Deeper(m, c + 1, i, 2)
    <3>1. m[i].ind > 2 /\ c + 1 \in Nat /\ i \in Nat
      BY <1>1, <1>2, LinesDiffer
    <3> QED BY <2>2, <3>1, DeeperTo
  <2>4. FirstFrom(m, c + 1, i, PluginLine)
    BY <1>2, <2>1 DEF FirstFrom, Lacks
  <2> QED BY <1>1, <1>2, <1>3, <2>3, <2>4 DEF HasPlugin
<1>5. InPlugin(m, i, i + 1)
  <2>1. \A j \in i + 1..i + 1 : j = i + 1
    BY <1>1
  <2>2. m[i + 1].ind > 4
    BY <1>2, LinesDiffer
  <2>3. i + 1 \in 1..Len(m) /\ i < i + 1
    BY <1>1, <1>2
  <2> QED BY <2>1, <2>2, <2>3 DEF InPlugin, Deeper
<1> QED BY <1>2, <1>4, <1>5 DEF IsOn, m

(* A block of the plugin without a switch, given one.                       *)
LEMMA GivenSwitch ==
  ASSUME NEW Names, MergeNames \subseteq Names, NEW t \in Seq(TextLine(Names)), NEW p, NEW c, NEW g, HasPlugin(t, p, c, g)
  PROVE  g + 1 \in 1..Len(t) + 1 /\ IsOn(Insert(t, g + 1, <<Enabled>>), p, c, g, g + 1)
<1> DEFINE m == Insert(t, g + 1, <<Enabled>>)
<1>1. Len(t) \in Nat /\ p \in 1..Len(t) /\ c \in 1..Len(t) /\ g \in 1..Len(t) /\ p < c /\ c < g /\ g + 1 \in 1..Len(t) + 1
  BY LinesAre DEF HasPlugins, HasConfigs, HasPlugin
<1>2. /\ m \in Seq(TextLine(Names)) /\ Len(m) = Len(t) + 1
      /\ \A k \in 1..g : m[k] = t[k]
      /\ m[g + 1] = Enabled
  <2>0. <<Enabled>> \in Seq(TextLine(Names)) /\ Len(<<Enabled>>) = 1 /\ <<Enabled>>[1] = Enabled
    BY BlocksAre
  <2> DEFINE new == <<Enabled>>
         i == g + 1
  <2> HIDE DEF new, i
  <2>1. /\ Insert(t, i, new) \in Seq(TextLine(Names)) /\ Len(Insert(t, i, new)) = Len(t) + Len(new)
        /\ \A k \in 1..i - 1 : Insert(t, i, new)[k] = t[k]
        /\ \A k \in 1..Len(new) : Insert(t, i, new)[i - 1 + k] = new[k]
    <3>1. new \in Seq(TextLine(Names)) /\ i \in 1..Len(t) + 1
      BY <1>1, <2>0 DEF new, i
    <3>2. IsInsert(TextLine(Names), Insert(t, i, new), t, i, new)
      BY <3>1, InsertHas
    <3> QED BY <3>2 DEF IsInsert
  <2>2. m = Insert(t, i, new) /\ Len(new) = 1 /\ new[1] = Enabled
    BY <2>0 DEF new, i
  <2> HIDE DEF m
  <2>3. i - 1 = g /\ i - 1 + 1 = g + 1 /\ 1 \in 1..Len(new)
    BY <1>1, <2>2 DEF i
  <2> QED BY <2>1, <2>2, <2>3
<1> HIDE DEF m
<1>3. HasPlugin(m, p, c, g)
  <2>1. g \in Nat /\ g <= Len(m) /\ Len(m) \in Nat /\ p \in 1..g /\ c \in 1..g /\ g \in 1..g
    BY <1>1, <1>2
  <2> QED BY <1>2, <2>1, SameBeginning
<1>5. InPlugin(m, g, g + 1)
  <2>1. \A j \in g + 1..g + 1 : j = g + 1
    BY <1>1
  <2> QED BY <1>1, <1>2, <2>1, LinesDiffer DEF InPlugin, Deeper
<1> QED BY <1>1, <1>2, <1>3, <1>5 DEF IsOn, m

Disabled == KeyLine(6, "enabled", "false")

(* A block of the plugin whose switch is turned on.                         *)
LEMMA SwitchedOn ==
  ASSUME NEW Names, MergeNames \subseteq Names, NEW t \in Seq(TextLine(Names)), NEW p, NEW c, NEW g, NEW off,
         HasPlugin(t, p, c, g), InPlugin(t, g, off)
  PROVE  [t EXCEPT ![off] = Enabled] \in Seq(TextLine(Names)) /\ IsOn([t EXCEPT ![off] = Enabled], p, c, g, off)
<1> DEFINE m == [t EXCEPT ![off] = Enabled]
<1>1. /\ Len(t) \in Nat /\ p \in 1..Len(t) /\ c \in 1..Len(t) /\ g \in 1..Len(t) /\ off \in 1..Len(t)
      /\ p < c /\ c < g /\ g < off /\ Deeper(t, g + 1, off, 4)
  BY LinesAre DEF HasPlugins, HasConfigs, HasPlugin, InPlugin
<1>2. Enabled \in TextLine(Names)
  <2>1. <<Enabled>> \in Seq(TextLine(Names)) /\ Len(<<Enabled>>) = 1 /\ <<Enabled>>[1] = Enabled
    BY BlocksAre
  <2> QED BY <2>1
<1>3. /\ m \in Seq(TextLine(Names)) /\ Len(m) = Len(t) /\ m[off] = Enabled
      /\ \A k \in 1..Len(t) : k # off => m[k] = t[k]
  BY <1>1, <1>2
<1> HIDE DEF m
<1>4. HasPlugin(m, p, c, g)
  <2>1. /\ g \in Nat /\ g <= Len(m) /\ Len(m) \in Nat /\ p \in 1..g /\ c \in 1..g /\ g \in 1..g
        /\ \A k \in 1..g : m[k] = t[k]
    BY <1>1, <1>3
  <2> QED BY <2>1, SameBeginning
<1>5. Deeper(m, g + 1, off - 1, 4)
  <2>1. \A j \in g + 1..off - 1 : j \in g + 1..off /\ j \in 1..Len(t) /\ j # off
    BY <1>1
  <2> QED BY <1>1, <1>3, <2>1 DEF Deeper
<1>6. InPlugin(m, g, off)
  BY <1>1, <1>3, <1>5, DeeperTo, LinesDiffer DEF InPlugin
<1> QED BY <1>3, <1>4, <1>6 DEF IsOn, m

Same(m, u, n) == \A k \in 1..n : m[k] = u[k]
AtTheEnd(u, m) == m = u \o (<<PluginsLine, KeyLine(2, "enabled", "true")>> \o ConfigsBlock)

(* A text without "plugins", given all of it at its end.                    *)
LEMMA NewPlugins ==
  ASSUME NEW Names, MergeNames \subseteq Names, NEW u \in Seq(TextLine(Names)), Lacks(u, 1, Len(u), PluginsLine),
         NEW m, AtTheEnd(u, m), NEW n, n = Len(u)
  PROVE  /\ m \in Seq(TextLine(Names)) /\ Len(m) = n + 5
         /\ Same(m, u, n)
         /\ \A k \in n + 1..n + 5 : m[k] \in Own
         /\ IsOn(m, n + 1, n + 3, n + 4, n + 5)
<1> DEFINE second == KeyLine(2, "enabled", "true")
           tail == <<PluginsLine, second>> \o ConfigsBlock
<1>1. n \in Nat
  OBVIOUS
<1>m. m = u \o tail
  BY DEF AtTheEnd
<1>2. /\ tail \in Seq(TextLine(Names)) /\ Len(tail) = 5
      /\ tail[1] = PluginsLine /\ tail[2] = second /\ tail[3] = ConfigsLine /\ tail[4] = PluginLine /\ tail[5] = Enabled
  <2>1. /\ ConfigsBlock \in Seq(TextLine(Names)) /\ Len(ConfigsBlock) = 3
        /\ ConfigsBlock[1] = ConfigsLine /\ ConfigsBlock[2] = PluginLine /\ ConfigsBlock[3] = Enabled
    BY BlocksAre
  <2> DEFINE head == <<PluginsLine, second>>
  <2>2. head \in Seq(TextLine(Names)) /\ Len(head) = 2 /\ head[1] = PluginsLine /\ head[2] = second
    <3>1. "" \in Names /\ "plugins" \in Names /\ "enabled" \in Names /\ "true" \in Names
      BY DEF MergeNames
    <3>2. PluginsLine \in TextLine(Names) /\ second \in TextLine(Names)
      BY <3>1 DEF PluginsLine, KeyLine, TextLine
    <3> HIDE DEF second
    <3> QED BY <3>2
  <2>3. tail = head \o ConfigsBlock
    OBVIOUS
  <2> HIDE DEF head, tail
  <2>4. /\ head \o ConfigsBlock \in Seq(TextLine(Names)) /\ Len(head \o ConfigsBlock) = Len(head) + Len(ConfigsBlock)
        /\ \A k \in 1..Len(head) : (head \o ConfigsBlock)[k] = head[k]
        /\ \A k \in 1..Len(ConfigsBlock) : (head \o ConfigsBlock)[Len(head) + k] = ConfigsBlock[k]
    <3>1. head \in Seq(TextLine(Names)) /\ ConfigsBlock \in Seq(TextLine(Names))
      BY <2>1, <2>2
    <3>2. IsConcat(TextLine(Names), head \o ConfigsBlock, head, ConfigsBlock)
      BY <3>1, ConcatHas
    <3> QED BY <3>2 DEF IsConcat
  <2>5. tail \in Seq(TextLine(Names)) /\ Len(tail) = 5 /\ tail[1] = PluginsLine /\ tail[2] = second
    BY <2>1, <2>2, <2>3, <2>4
  <2>6. tail[2 + 1] = ConfigsLine /\ tail[2 + 2] = PluginLine /\ tail[2 + 3] = Enabled
    BY <2>1, <2>2, <2>3, <2>4
  <2> QED BY <2>5, <2>6
<1>3. second.ind = 2 /\ second # ConfigsLine
  BY DEF KeyLine, ConfigsLine
<1>4. \A k \in 1..5 : tail[k] \in Own
  <2> HIDE DEF tail
  <2>1. \A k \in 1..5 : k = 1 \/ k = 2 \/ k = 3 \/ k = 4 \/ k = 5
    OBVIOUS
  <2> QED BY <1>2, <2>1 DEF Own
<1> HIDE DEF second, tail
<1>5. /\ m \in Seq(TextLine(Names)) /\ Len(m) = n + 5
      /\ \A k \in 1..n : m[k] = u[k]
      /\ \A k \in 1..Len(tail) : m[n + k] = tail[k]
  <2>1. /\ u \o tail \in Seq(TextLine(Names)) /\ Len(u \o tail) = Len(u) + Len(tail)
        /\ \A k \in 1..Len(u) : (u \o tail)[k] = u[k]
        /\ \A k \in 1..Len(tail) : (u \o tail)[Len(u) + k] = tail[k]
    <3>1. tail \in Seq(TextLine(Names))
      BY <1>2
    <3>2. IsConcat(TextLine(Names), u \o tail, u, tail)
      BY <3>1, ConcatHas
    <3> QED BY <3>2 DEF IsConcat
  <2> QED BY <1>2, <1>m, <2>1
<1>6. m[n + 1] = PluginsLine /\ m[n + 2] = second /\ m[n + 3] = ConfigsLine /\ m[n + 4] = PluginLine /\ m[n + 5] = Enabled
  <2> QED BY <1>2, <1>5
<1>7. \A k \in n + 1..n + 5 : m[k] \in Own
  <2> TAKE k \in n + 1..n + 5
  <2> DEFINE j == k - n
  <2>1. j \in 1..5 /\ n + j = k
    BY <1>1
  <2> HIDE DEF j
  <2> QED BY <1>2, <1>4, <1>5, <2>1
<1>8. HasPlugins(m, n + 1)
  <2>1. \A j \in 1..(n + 1) - 1 : j \in 1..n
    BY <1>1
  <2> QED BY <1>1, <1>5, <1>6, <2>1 DEF HasPlugins, FirstFrom, Lacks
<1>9. HasConfigs(m, n + 1, n + 3)
  <2>1. \A j \in (n + 1) + 1..(n + 3) - 1 : j = n + 2
    BY <1>1
  <2>2. \A j \in (n + 1) + 1..n + 3 : j = n + 2 \/ j = n + 3
    BY <1>1
  <2>3. FirstFrom(m, (n + 1) + 1, n + 3, ConfigsLine) /\ Deeper(m, (n + 1) + 1, n + 3, 0)
    BY <1>1, <1>3, <1>6, <2>1, <2>2, LinesDiffer DEF FirstFrom, Deeper
  <2> QED BY <1>1, <1>5, <1>8, <2>3 DEF HasConfigs
<1>10. HasPlugin(m, n + 1, n + 3, n + 4)
  <2>1. \A j \in (n + 3) + 1..(n + 4) - 1 : FALSE
    BY <1>1
  <2>2. \A j \in (n + 3) + 1..n + 4 : j = n + 4
    BY <1>1
  <2>3. FirstFrom(m, (n + 3) + 1, n + 4, PluginLine) /\ Deeper(m, (n + 3) + 1, n + 4, 2)
    BY <1>1, <1>6, <2>1, <2>2, LinesDiffer DEF FirstFrom, Deeper
  <2> QED BY <1>1, <1>5, <1>9, <2>3 DEF HasPlugin
<1>11. InPlugin(m, n + 4, n + 5)
  <2>1. \A j \in (n + 4) + 1..n + 5 : j = n + 5
    BY <1>1
  <2> QED BY <1>1, <1>5, <1>6, <2>1, LinesDiffer DEF InPlugin, Deeper
<1> QED BY <1>5, <1>6, <1>7, <1>10, <1>11 DEF IsOn, Same

(* What a merge of t into m is: merge finds the plugin on, every line of t  *)
(* is there in its order, but that the plugin's own switch may be turned    *)
(* on, and what is new are merge's own lines.                               *)
KeptBut(t, m, g, f) ==
  \A k \in 1..Len(t) : m[f[k]] = t[k] \/ (t[k] = Disabled /\ m[f[k]] = Enabled /\ InPlugin(m, g, f[k]))

LEMMA AllKept ==
  ASSUME NEW t, NEW m, NEW g, NEW f, \A k \in 1..Len(t) : m[f[k]] = t[k]
  PROVE  KeptBut(t, m, g, f)
<1> SUFFICES ASSUME NEW k \in 1..Len(t)
             PROVE  m[f[k]] = t[k]
  BY Zenon DEF KeptBut
<1> QED OBVIOUS

Merged(t, m) == \E p, c, g, e, f : IsOn(m, p, c, g, e) /\ Grown(t, m, f) /\ KeptBut(t, m, g, f)

LEMMA MergedByInsert ==
  ASSUME NEW T, NEW t \in Seq(T), NEW new \in Seq(T), NEW i \in 1..Len(t) + 1, \A k \in 1..Len(new) : new[k] \in Own,
         NEW p, NEW c, NEW g, NEW e, IsOn(Insert(t, i, new), p, c, g, e)
  PROVE  Merged(t, Insert(t, i, new))
<1>1. PICK f : Grown(t, Insert(t, i, new), f) /\ \A k \in 1..Len(t) : Insert(t, i, new)[f[k]] = t[k]
  BY InsertGrows
<1>2. KeptBut(t, Insert(t, i, new), g, f)
  BY <1>1, AllKept
<1> QED BY <1>1, <1>2 DEF Merged

LEMMA OwnBlocks ==
  /\ \A k \in 1..Len(ConfigsBlock) : ConfigsBlock[k] \in Own
  /\ \A k \in 1..Len(PluginBlock) : PluginBlock[k] \in Own
  /\ \A k \in 1..Len(<<Enabled>>) : <<Enabled>>[k] \in Own
<1>1. /\ Len(ConfigsBlock) = 3 /\ ConfigsBlock[1] = ConfigsLine /\ ConfigsBlock[2] = PluginLine /\ ConfigsBlock[3] = Enabled
      /\ Len(PluginBlock) = 2 /\ PluginBlock[1] = PluginLine /\ PluginBlock[2] = Enabled
      /\ Len(<<Enabled>>) = 1 /\ <<Enabled>>[1] = Enabled
  BY BlocksAre
<1>2. (\A k \in 1..3 : k = 1 \/ k = 2 \/ k = 3) /\ (\A k \in 1..2 : k = 1 \/ k = 2) /\ \A k \in 1..1 : k = 1
  OBVIOUS
<1>3. \A k \in 1..Len(ConfigsBlock) : ConfigsBlock[k] \in Own
  BY <1>1, <1>2 DEF Own
<1>4. \A k \in 1..Len(PluginBlock) : PluginBlock[k] \in Own
  BY <1>1, <1>2 DEF Own
<1>5. \A k \in 1..Len(<<Enabled>>) : <<Enabled>>[k] \in Own
  BY <1>1, <1>2 DEF Own
<1> QED BY <1>3, <1>4, <1>5

(* Whatever the plugin's block holds, it is merged.                         *)
LEMMA EnablePluginMerges ==
  ASSUME NEW Names, MergeNames \subseteq Names, NEW t \in Seq(TextLine(Names)), NEW p, NEW c, NEW g, HasPlugin(t, p, c, g)
  PROVE  EnablePlugin(t, g) \in Seq(TextLine(Names)) /\ Merged(t, EnablePlugin(t, g))
<1> DEFINE end == _block_end(t, g + 1, 4)
           on == _find(t, g + 1, end, "enabled", "true", 6)
           off == _find(t, g + 1, end, "enabled", "false", 6)
<1>1. Len(t) \in Nat /\ g \in 1..Len(t) /\ g + 1 \in Nat \ {0} /\ g + 1 <= Len(t) + 1 /\ 4 \in Nat
  BY LinesAre DEF HasPlugin
<1>2. end \in g + 1..Len(t) + 1 /\ Deeper(t, g + 1, end - 1, 4)
  BY <1>1, EndIs
<1>3. end \in 1..Len(t) + 1
  BY <1>1, <1>2
<1>4. \/ on = 0
      \/ on \in g + 1..end - 1 /\ FirstFrom(t, g + 1, on, KeyLine(6, "enabled", "true"))
  BY <1>1, <1>3, FindIs
<1>5. \/ off = 0
      \/ off \in g + 1..end - 1 /\ FirstFrom(t, g + 1, off, KeyLine(6, "enabled", "false"))
  BY <1>1, <1>3, FindIs
<1>6. EnablePlugin(t, g) = IF on > 0 THEN t ELSE IF off > 0 THEN [t EXCEPT ![off] = Enabled] ELSE Insert(t, g + 1, <<Enabled>>)
  BY DEF EnablePlugin
<1> HIDE DEF end, on, off
<1>7. ASSUME NEW e \in g + 1..end - 1 PROVE InPlugin(t, g, e)
  <2>1. e \in 1..Len(t) /\ g < e /\ \A j \in g + 1..e : j \in g + 1..end - 1
    BY <1>1, <1>2
  <2> QED BY <1>2, <2>1 DEF InPlugin, Deeper
<1> DEFINE same == [k \in 1..Len(t) |-> k]
<1>8. Grown(t, t, same)
  BY <1>1 DEF Grown
<1>9. CASE on > 0
  <2>1. t[on] = Enabled /\ InPlugin(t, g, on)
    BY <1>4, <1>7, <1>9 DEF FirstFrom, Enabled
  <2>2. IsOn(t, p, c, g, on) /\ \A k \in 1..Len(t) : t[same[k]] = t[k]
    BY <2>1 DEF IsOn
  <2> HIDE DEF same
  <2>3. KeptBut(t, t, g, same)
    BY <2>2, AllKept
  <2> QED BY <1>6, <1>8, <1>9, <2>2, <2>3 DEF Merged
<1>10. CASE ~(on > 0) /\ off > 0
  <2> DEFINE m == [t EXCEPT ![off] = Enabled]
  <2>1. t[off] = Disabled /\ InPlugin(t, g, off)
    BY <1>5, <1>7, <1>10 DEF FirstFrom, Disabled
  <2>2. m \in Seq(TextLine(Names)) /\ IsOn(m, p, c, g, off)
    BY <2>1, SwitchedOn
  <2>3. Len(m) = Len(t) /\ off \in 1..Len(t) /\ m[off] = Enabled /\ \A k \in 1..Len(t) : k # off => m[k] = t[k]
    BY <2>1 DEF InPlugin
  <2> HIDE DEF m
  <2>4. Grown(t, m, same)
    BY <1>8, <2>3 DEF Grown
  <2>5. InPlugin(m, g, off)
    BY <2>2 DEF IsOn
  <2>6. \A k \in 1..Len(t) : m[same[k]] = t[k] \/ (t[k] = Disabled /\ m[same[k]] = Enabled /\ InPlugin(m, g, same[k]))
    <3> TAKE k \in 1..Len(t)
    <3>1. same[k] = k
      OBVIOUS
    <3>2. CASE k = off
      BY <2>1, <2>3, <2>5, <3>1, <3>2
    <3>3. CASE k # off
      <4>1. m[k] = t[k]
        BY <2>3, <3>3
      <4> HIDE DEF same
      <4>2. m[same[k]] = t[k]
        BY <3>1, <4>1
      <4> QED BY <4>2
    <3> QED BY <3>2, <3>3
  <2> HIDE DEF same
  <2>7. Merged(t, m)
    <3>1. KeptBut(t, m, g, same)
      BY <2>6 DEF KeptBut
    <3> QED BY <2>2, <2>4, <3>1 DEF Merged
  <2> QED BY <1>6, <1>10, <2>2, <2>7 DEF m
<1>11. CASE ~(on > 0) /\ ~(off > 0)
  <2> DEFINE new == <<Enabled>>
  <2>1. g + 1 \in 1..Len(t) + 1 /\ IsOn(Insert(t, g + 1, new), p, c, g, g + 1)
    BY GivenSwitch
  <2>2. new \in Seq(TextLine(Names)) /\ \A k \in 1..Len(new) : new[k] \in Own
    BY BlocksAre, OwnBlocks
  <2> HIDE DEF new
  <2> DEFINE i == g + 1
  <2>3. i \in 1..Len(t) + 1 /\ IsOn(Insert(t, i, new), p, c, g, g + 1)
    BY <2>1
  <2> HIDE DEF i
  <2>4. Merged(t, Insert(t, i, new))
    BY <2>2, <2>3, MergedByInsert
  <2>5. Insert(t, i, new) \in Seq(TextLine(Names))
    BY <2>2, <2>3, InsertHas DEF IsInsert
  <2> QED BY <1>6, <1>11, <2>4, <2>5 DEF i, new
<1> QED BY <1>9, <1>10, <1>11

(* And so is any text, whichever way merge takes.                           *)
LEMMA MergeMerges ==
  ASSUME NEW Names, MergeNames \subseteq Names, NEW t \in Seq(TextLine(Names))
  PROVE  merge(t) \in Seq(TextLine(Names)) /\ Merged(t, merge(t))
<1> DEFINE p == _find(t, 1, Len(t) + 1, "plugins", "", 0)
           pe == _block_end(t, p + 1, 0)
           c == _find(t, p + 1, pe, "configs", "", 2)
           ce == _block_end(t, c + 1, 2)
           g == _find(t, c + 1, ce, PLUGIN, "", 4)
           blank == IF t # <<>> /\ Last(t) # Blank THEN <<Blank>> ELSE <<>>
<1>1. merge(t) = IF p = 0 THEN t \o blank \o <<KeyLine(0, "plugins", ""), KeyLine(2, "enabled", "true")>> \o ConfigsBlock
                 ELSE IF c = 0 THEN Insert(t, pe, ConfigsBlock)
                 ELSE IF g > 0 THEN EnablePlugin(t, g) ELSE Insert(t, ce, PluginBlock)
  BY DEF merge
<1>0. Len(t) \in Nat /\ 1 \in Nat \ {0} /\ Len(t) + 1 \in 1..Len(t) + 1 /\ 0 \in Nat /\ 2 \in Nat
  BY LinesAre
<1>l. PluginsLine = KeyLine(0, "plugins", "") /\ ConfigsLine = KeyLine(2, "configs", "") /\ PluginLine = KeyLine(4, PLUGIN, "")
  BY DEF PluginsLine, ConfigsLine, PluginLine
<1>2. \/ p = 0 /\ \A j \in 1..Len(t) : t[j] # PluginsLine
      \/ p \in 1..Len(t) /\ FirstFrom(t, 1, p, PluginsLine)
  <2> HIDE DEF p
  <2>1. \/ p = 0 /\ \A j \in 1..(Len(t) + 1) - 1 : t[j] # KeyLine(0, "plugins", "")
        \/ p \in 1..(Len(t) + 1) - 1 /\ FirstFrom(t, 1, p, KeyLine(0, "plugins", ""))
    BY <1>0, FindIs DEF p
  <2>2. (Len(t) + 1) - 1 = Len(t)
    BY <1>0
  <2> QED BY <1>l, <2>1, <2>2
<1>3. CASE p = 0
  <2> HIDE DEF p, blank
  <2> DEFINE u == t \o blank
  <2>1. \A j \in 1..Len(t) : t[j] # PluginsLine
    BY <1>0, <1>2, <1>3
  <2>2. Blank \in TextLine(Names) /\ Blank # PluginsLine
    <3>1. "" \in Names
      BY DEF MergeNames
    <3> QED BY <3>1 DEF Blank, PluginsLine, KeyLine, TextLine
  <2>3. blank \in Seq(TextLine(Names)) /\ Len(blank) \in Nat /\ \A k \in 1..Len(blank) : blank[k] = Blank
    BY <2>2 DEF blank
  <2>4. /\ u \in Seq(TextLine(Names)) /\ Len(u) = Len(t) + Len(blank)
        /\ \A k \in 1..Len(t) : u[k] = t[k]
        /\ \A k \in 1..Len(blank) : u[Len(t) + k] = blank[k]
    <3>1. IsConcat(TextLine(Names), u, t, blank)
      BY <2>3, ConcatHas
    <3> QED BY <3>1 DEF IsConcat
  <2>5. merge(t) = u \o (<<PluginsLine, KeyLine(2, "enabled", "true")>> \o ConfigsBlock)
    <3> DEFINE tail == <<PluginsLine, KeyLine(2, "enabled", "true")>>
    <3>1. merge(t) = u \o tail \o ConfigsBlock
      BY <1>1, <1>3, <1>l
    <3>2. tail \in Seq(TextLine(Names)) /\ ConfigsBlock \in Seq(TextLine(Names))
      <4>1. ConfigsBlock \in Seq(TextLine(Names))
        BY BlocksAre
      <4>2. "" \in Names /\ "plugins" \in Names /\ "enabled" \in Names /\ "true" \in Names
        BY DEF MergeNames
      <4>3. PluginsLine \in TextLine(Names) /\ KeyLine(2, "enabled", "true") \in TextLine(Names)
        BY <4>2 DEF PluginsLine, KeyLine, TextLine
      <4> QED BY <4>1, <4>3
    <3> HIDE DEF tail, u
    <3>3. u \o tail \o ConfigsBlock = u \o (tail \o ConfigsBlock)
      <4>1. u \in Seq(TextLine(Names))
        BY <2>4
      <4> QED BY <3>2, <4>1, ConcatAssociative
    <3> QED BY <3>1, <3>3 DEF tail
  <2> HIDE DEF u
  <2>6. \A k \in Len(t) + 1..Len(u) : u[k] = Blank
    <3> TAKE k \in Len(t) + 1..Len(u)
    <3> DEFINE j == k - Len(t)
    <3>1. j \in 1..Len(blank) /\ Len(t) + j = k
      BY <1>0, <2>3, <2>4
    <3> HIDE DEF j
    <3> QED BY <2>3, <2>4, <3>1
  <2>7. Lacks(u, 1, Len(u), PluginsLine)
    <3>1. \A k \in 1..Len(u) : k \in 1..Len(t) \/ k \in Len(t) + 1..Len(u)
      BY <1>0, <2>3, <2>4
    <3> QED BY <2>1, <2>2, <2>4, <2>6, <3>1 DEF Lacks
  <2> DEFINE m == merge(t)
             n == Len(u)
             same == [k \in 1..Len(t) |-> k]
  <2>8. /\ m \in Seq(TextLine(Names)) /\ Len(m) = n + 5 /\ \A k \in 1..n : m[k] = u[k]
        /\ \A k \in n + 1..n + 5 : m[k] \in Own
        /\ IsOn(m, n + 1, n + 3, n + 4, n + 5)
    <3> HIDE DEF m, n
    <3>1. AtTheEnd(u, m) /\ n = Len(u) /\ Lacks(u, 1, Len(u), PluginsLine) /\ u \in Seq(TextLine(Names))
      BY <2>4, <2>5, <2>7 DEF m, n, AtTheEnd
    <3>2. m \in Seq(TextLine(Names)) /\ Len(m) = n + 5
      BY <3>1, NewPlugins
    <3>3. \A k \in 1..n : m[k] = u[k]
      <4>1. Same(m, u, n)
        BY <3>1, NewPlugins
      <4> QED BY <4>1 DEF Same
    <3>4. \A k \in n + 1..n + 5 : m[k] \in Own
      <4>1. n \in Nat
        BY <3>1
      <4> QED BY <3>1, <4>1, NewPlugins
    <3>5. IsOn(m, n + 1, n + 3, n + 4, n + 5)
      BY <3>1, NewPlugins
    <3> QED BY <3>2, <3>3, <3>4, <3>5
  <2> HIDE DEF m
  <2>9. n \in Nat /\ Len(t) <= n
    BY <1>0, <2>3, <2>4
  <2>10. \A k \in 1..Len(t) : m[same[k]] = t[k]
    BY <2>4, <2>8, <2>9
  <2>11. \A j \in 1..Len(m) : m[j] \in Own \/ \E k \in 1..Len(t) : same[k] = j
    <3> TAKE j \in 1..Len(m)
    <3>1. CASE j \in 1..Len(t)
      BY <3>1
    <3>2. CASE j \in Len(t) + 1..n
      <4>1. m[j] = Blank
        BY <2>6, <2>8, <2>9, <3>2, <1>0
      <4> QED BY <4>1 DEF Own
    <3>3. CASE j \in n + 1..n + 5
      BY <2>8, <3>3
    <3> HIDE DEF same
    <3>4. j \in 1..Len(t) \/ j \in Len(t) + 1..n \/ j \in n + 1..n + 5
      BY <1>0, <2>8, <2>9
    <3> QED BY <3>1, <3>2, <3>3, <3>4
  <2>12. Grown(t, m, same)
    <3>1. same \in [1..Len(t) -> 1..Len(m)] /\ \A j, k \in 1..Len(t) : j < k => same[j] < same[k]
      BY <1>0, <2>8, <2>9
    <3> QED BY <2>11, <3>1 DEF Grown
  <2> HIDE DEF same
  <2>13. Merged(t, m)
    <3>1. KeptBut(t, m, n + 4, same)
      BY <2>10, AllKept
    <3> QED BY <2>8, <2>12, <3>1 DEF Merged
  <2> QED BY <2>8, <2>13 DEF m
<1>4. CASE p # 0
  <2>1. p \in 1..Len(t) /\ HasPlugins(t, p) /\ p + 1 \in Nat \ {0} /\ p + 1 <= Len(t) + 1
    <3>1. p \in 1..Len(t) /\ FirstFrom(t, 1, p, PluginsLine)
      BY <1>2, <1>4
    <3> HIDE DEF p
    <3> QED BY <1>0, <3>1 DEF HasPlugins
  <2> HIDE DEF p
  <2>2. pe \in p + 1..Len(t) + 1 /\ Deeper(t, p + 1, pe - 1, 0)
    BY <1>0, <2>1, EndIs
  <2>3. pe \in 1..Len(t) + 1
    BY <2>1, <2>2
  <2> HIDE DEF pe
  <2>4. \/ c = 0 /\ \A j \in p + 1..pe - 1 : t[j] # KeyLine(2, "configs", "")
        \/ c \in p + 1..pe - 1 /\ FirstFrom(t, p + 1, c, KeyLine(2, "configs", ""))
    BY <2>1, <2>3, FindIs
  <2> HIDE DEF c
  <2>5. CASE c = 0
    <3>1. ConfigsBlock \in Seq(TextLine(Names)) /\ \A k \in 1..Len(ConfigsBlock) : ConfigsBlock[k] \in Own
      BY BlocksAre, OwnBlocks
    <3>2. Lacks(t, p + 1, pe - 1, ConfigsLine)
      <4>1. c \notin p + 1..pe - 1
        BY <2>1, <2>2, <2>5
      <4> QED BY <1>l, <2>4, <4>1 DEF Lacks
    <3>3. IsOn(Insert(t, pe, ConfigsBlock), p, pe, pe + 1, pe + 2)
      BY <2>1, <2>2, <3>2, GivenConfigs
    <3>4. Merged(t, Insert(t, pe, ConfigsBlock))
      BY <2>3, <3>1, <3>3, MergedByInsert
    <3>5. Insert(t, pe, ConfigsBlock) \in Seq(TextLine(Names))
      BY <2>3, <3>1, InsertHas DEF IsInsert
    <3> QED BY <1>1, <1>4, <2>5, <3>4, <3>5
  <2>6. CASE c # 0
    <3>1. c \in p + 1..pe - 1 /\ FirstFrom(t, p + 1, c, ConfigsLine)
      BY <2>4, <2>6, <1>l
    <3>2. /\ c \in 1..Len(t) /\ p < c /\ c + 1 \in Nat \ {0} /\ c + 1 <= Len(t) + 1
          /\ \A j \in p + 1..c : j \in p + 1..pe - 1
      BY <1>0, <2>1, <2>2, <3>1
    <3>3. HasConfigs(t, p, c)
      BY <2>1, <2>2, <3>1, <3>2 DEF HasConfigs, Deeper
    <3>4. ce \in c + 1..Len(t) + 1 /\ Deeper(t, c + 1, ce - 1, 2)
      BY <1>0, <3>2, EndIs
    <3>5. ce \in 1..Len(t) + 1
      BY <3>2, <3>4
    <3> HIDE DEF ce
    <3>6. \/ g = 0 /\ \A j \in c + 1..ce - 1 : t[j] # KeyLine(4, PLUGIN, "")
          \/ g \in c + 1..ce - 1 /\ FirstFrom(t, c + 1, g, KeyLine(4, PLUGIN, ""))
      BY <3>2, <3>5, FindIs
    <3> HIDE DEF g
    <3>7. CASE g = 0
      <4>1. PluginBlock \in Seq(TextLine(Names)) /\ \A k \in 1..Len(PluginBlock) : PluginBlock[k] \in Own
        BY BlocksAre, OwnBlocks
      <4>2. Lacks(t, c + 1, ce - 1, PluginLine)
        <5>1. g \notin c + 1..ce - 1
          BY <3>2, <3>4, <3>7
        <5> QED BY <1>l, <3>6, <5>1 DEF Lacks
      <4>3. IsOn(Insert(t, ce, PluginBlock), p, c, ce, ce + 1)
        BY <3>3, <3>4, <4>2, GivenPlugin
      <4>4. Merged(t, Insert(t, ce, PluginBlock))
        BY <3>5, <4>1, <4>3, MergedByInsert
      <4>5. Insert(t, ce, PluginBlock) \in Seq(TextLine(Names))
        BY <3>5, <4>1, InsertHas DEF IsInsert
      <4>6. merge(t) = Insert(t, ce, PluginBlock)
        BY <1>1, <1>4, <2>6, <3>7
      <4> QED BY <4>4, <4>5, <4>6
    <3>8. CASE g # 0
      <4>1. g \in c + 1..ce - 1 /\ FirstFrom(t, c + 1, g, PluginLine)
        BY <3>6, <3>8, <1>l
      <4>2. g \in 1..Len(t) /\ c < g /\ g > 0 /\ \A j \in c + 1..g : j \in c + 1..ce - 1
        BY <1>0, <3>2, <3>4, <4>1
      <4>3. HasPlugin(t, p, c, g)
        BY <3>3, <3>4, <4>1, <4>2 DEF HasPlugin, Deeper
      <4>4. merge(t) = EnablePlugin(t, g)
        BY <1>1, <1>4, <2>6, <4>2
      <4> QED BY <4>3, <4>4, EnablePluginMerges
    <3> QED BY <3>7, <3>8
  <2> QED BY <2>5, <2>6
<1> QED BY <1>3, <1>4

----------------------------------------------------------------------------
(* The paths of lines.                                                      *)
LEMMA GreatestIs ==
  ASSUME NEW n \in Nat, NEW S \in SUBSET (1..n)
  PROVE  \/ S = {} /\ Greatest(S) = 0
         \/ Greatest(S) \in S /\ \A j \in S : j <= Greatest(S)
<1>1. CASE S = {}
  BY <1>1 DEF Greatest
<1>2. CASE S # {}
  <2> DEFINE D == {n - j : j \in S}
  <2>1. D \in SUBSET Nat /\ D # {}
    <3>1. \A j \in S : j \in 1..n
      OBVIOUS
    <3>2. \A j \in 1..n : n - j \in Nat
      OBVIOUS
    <3> QED BY <1>2, <3>1, <3>2
  <2>2. PICK d \in D : \A e \in D : d <= e
    BY <2>1, LeastExists
  <2>3. PICK i \in S : d = n - i
    BY <2>2
  <2>4. ASSUME NEW j \in S PROVE j <= i
    <3>1. n - j \in D /\ i \in 1..n /\ j \in 1..n
      OBVIOUS
    <3> HIDE DEF D
    <3>2. n - i <= n - j
      BY <2>2, <2>3, <3>1
    <3> QED BY <3>1, <3>2
  <2> QED BY <1>2, <2>4 DEF Greatest
<1> QED BY <1>1, <1>2

(* The lines among which the parent of line i is the nearest.               *)
Above(t, i) ==
  {j \in 1..i - 1 : /\ _is_content(t[j])
                    /\ IF t[i].kind = "item" THEN t[j].kind = "key" /\ t[j].ind <= t[i].ind
                       ELSE t[j].ind < t[i].ind}

LEMMA ParentIs ==
  ASSUME NEW t, NEW i \in Nat \ {0}
  PROVE  \/ Above(t, i) = {} /\ Parent(t, i) = 0
         \/ Parent(t, i) \in Above(t, i) /\ \A j \in Above(t, i) : j <= Parent(t, i)
<1>1. Above(t, i) \in SUBSET (1..i - 1) /\ i - 1 \in Nat
  BY DEF Above
<1>2. Parent(t, i) = Greatest(Above(t, i))
  BY DEF Parent, Above
<1> QED BY <1>1, <1>2, GreatestIs

LEMMA ParentIsBefore ==
  ASSUME NEW t, NEW i \in Nat \ {0}
  PROVE  Parent(t, i) \in 0..i - 1
BY ParentIs DEF Above

StepAt(t, i) == <<t[i].kind, Step(t, i)>>
Steps(t) == {StepAt(t, i) : i \in 1..Len(t)}

(* A function that gives each of the first n lines its path.                *)
IsPath(t, n, f) ==
  /\ f \in [0..n -> Seq(Steps(t))] /\ f[0] = <<>>
  /\ \A i \in 1..n : f[i] = Append(f[Parent(t, i)], StepAt(t, i))

LEMMA PathExists ==
  ASSUME NEW t, Len(t) \in Nat
  PROVE  \E f : IsPath(t, Len(t), f)
<1> DEFINE Bad == {n \in 0..Len(t) : \A f : ~IsPath(t, n, f)}
<1> SUFFICES ASSUME Bad # {} PROVE FALSE
  OBVIOUS
<1>1. PICK n \in Bad : \A k \in Bad : n <= k
  <2>1. Bad \in SUBSET Nat
    OBVIOUS
  <2> HIDE DEF Bad
  <2> QED BY <2>1, LeastExists
<1>2. n # 0
  <2> DEFINE f == [i \in 0..0 |-> <<>>]
  <2>1. IsPath(t, 0, f)
    <3>1. <<>> \in Seq(Steps(t)) /\ 0 \in 0..0 /\ \A i \in 1..0 : FALSE
      OBVIOUS
    <3> QED BY <3>1 DEF IsPath
  <2> QED BY <1>1, <2>1
<1>3. n - 1 \in 0..Len(t) /\ n \in 1..Len(t) /\ ~(n <= n - 1)
  BY <1>1, <1>2
<1>4. PICK f : IsPath(t, n - 1, f)
  BY <1>1, <1>3
<1> DEFINE g == [i \in 0..n |-> IF i = n THEN Append(f[Parent(t, n)], StepAt(t, n)) ELSE f[i]]
<1>5. \A i \in 1..n : Parent(t, i) \in 0..i - 1 /\ i \in Nat \ {0}
  <2>1. \A i \in 1..n : i \in Nat \ {0}
    OBVIOUS
  <2> QED BY <2>1, ParentIsBefore
<1>6. IsPath(t, n, g)
  <2>1. f \in [0..n - 1 -> Seq(Steps(t))] /\ f[0] = <<>>
        /\ \A i \in 1..n - 1 : f[i] = Append(f[Parent(t, i)], StepAt(t, i))
    BY <1>4 DEF IsPath
  <2>2. StepAt(t, n) \in Steps(t)
    BY <1>3 DEF Steps
  <2>3. Append(f[Parent(t, n)], StepAt(t, n)) \in Seq(Steps(t))
    <3>1. Parent(t, n) \in 0..n - 1
      BY <1>3, <1>5
    <3>2. f[Parent(t, n)] \in Seq(Steps(t))
      BY <2>1, <3>1
    <3> QED BY <2>2, <3>2
  <2>4. \A i \in 0..n : i = n \/ i \in 0..n - 1
    BY <1>3
  <2>5. g \in [0..n -> Seq(Steps(t))]
    BY <2>1, <2>3, <2>4
  <2>6. g[0] = <<>>
    BY <1>3, <2>1
  <2>7. ASSUME NEW i \in 1..n PROVE g[i] = Append(g[Parent(t, i)], StepAt(t, i))
    <3>1. Parent(t, i) \in 0..n - 1 /\ Parent(t, i) \in 0..n /\ Parent(t, i) # n
      BY <1>3, <1>5
    <3>2. g[Parent(t, i)] = f[Parent(t, i)]
      BY <3>1
    <3>3. CASE i = n
      <4>1. n \in 0..n
        BY <1>3
      <4>2. g[n] = Append(f[Parent(t, n)], StepAt(t, n))
        BY <4>1
      <4> QED BY <3>2, <3>3, <4>2
    <3>4. CASE i # n
      <4>1. i \in 1..n - 1 /\ i \in 0..n
        BY <1>3, <3>4
      <4>2. g[i] = f[i]
        BY <3>4, <4>1
      <4> QED BY <2>1, <3>2, <4>1, <4>2
    <3> QED BY <3>3, <3>4
  <2> HIDE DEF g
  <2> QED BY <2>5, <2>6, <2>7 DEF IsPath
<1> QED BY <1>1, <1>6

(* What Paths says of the function it is.                                   *)
ByParents(t, f) ==
  f = [i \in 0..Len(t) |-> IF i = 0 THEN <<>> ELSE Append(f[Parent(t, i)], <<t[i].kind, Step(t, i)>>)]

LEMMA ByParentsIs ==
  ASSUME NEW t, Len(t) \in Nat, NEW f, ByParents(t, f)
  PROVE  /\ f = [i \in 0..Len(t) |-> f[i]] /\ f[0] = <<>>
         /\ \A i \in 1..Len(t) : f[i] = Append(f[Parent(t, i)], <<t[i].kind, Step(t, i)>>)
<1> DEFINE body == [i \in 0..Len(t) |-> IF i = 0 THEN <<>> ELSE Append(f[Parent(t, i)], <<t[i].kind, Step(t, i)>>)]
<1>1. f = body
  BY DEF ByParents
<1>2. body = [i \in 0..Len(t) |-> body[i]] /\ 0 \in 0..Len(t) /\ body[0] = <<>>
  OBVIOUS
<1>3. ASSUME NEW i \in 1..Len(t)
      PROVE  body[i] = Append(f[Parent(t, i)], <<t[i].kind, Step(t, i)>>)
  <2>1. i \in 0..Len(t) /\ i # 0
    OBVIOUS
  <2> QED BY <2>1
<1> HIDE DEF body
<1> QED BY <1>1, <1>2, <1>3

LEMMA OnePath ==
  ASSUME NEW t, Len(t) \in Nat, NEW f, ByParents(t, f), NEW g, ByParents(t, g)
  PROVE  f = g
<1> DEFINE Bad == {i \in 0..Len(t) : f[i] # g[i]}
<1>1. /\ f = [i \in 0..Len(t) |-> f[i]] /\ g = [i \in 0..Len(t) |-> g[i]]
      /\ f[0] = <<>> /\ g[0] = <<>>
      /\ \A i \in 1..Len(t) : f[i] = Append(f[Parent(t, i)], <<t[i].kind, Step(t, i)>>)
      /\ \A i \in 1..Len(t) : g[i] = Append(g[Parent(t, i)], <<t[i].kind, Step(t, i)>>)
  BY ByParentsIs
<1>2. CASE Bad = {}
  BY <1>1, <1>2
<1>3. CASE Bad # {}
  <2>1. PICK i \in Bad : \A k \in Bad : i <= k
    <3>1. Bad \in SUBSET Nat
      OBVIOUS
    <3> HIDE DEF Bad
    <3> QED BY <1>3, <3>1, LeastExists
  <2>2. i \in 1..Len(t) /\ i \in Nat \ {0}
    BY <1>1
  <2>3. Parent(t, i) \in 0..i - 1
    BY <2>2, ParentIsBefore
  <2>4. Parent(t, i) \in 0..Len(t) /\ ~(i <= Parent(t, i))
    BY <2>2, <2>3
  <2>5. f[Parent(t, i)] = g[Parent(t, i)]
    BY <2>1, <2>4
  <2> QED BY <1>1, <2>1, <2>2, <2>5
<1> QED BY <1>2, <1>3

LEMMA PathsByParents ==
  ASSUME NEW t, Len(t) \in Nat
  PROVE  ByParents(t, Paths(t)) /\ IsPath(t, Len(t), Paths(t))
<1> DEFINE Body(f) == [i \in 0..Len(t) |-> IF i = 0 THEN <<>> ELSE Append(f[Parent(t, i)], <<t[i].kind, Step(t, i)>>)]
<1>1. Paths(t) = CHOOSE f : f = Body(f)
  BY DEF Paths
<1>2. PICK f : IsPath(t, Len(t), f)
  BY PathExists
<1>3. f = Body(f)
  BY <1>2 DEF IsPath, StepAt
<1>4. Paths(t) = Body(Paths(t))
  BY <1>1, <1>3
<1>5. ByParents(t, f) /\ ByParents(t, Paths(t))
  BY <1>3, <1>4 DEF ByParents
<1>6. Paths(t) = f
  BY <1>5, OnePath
<1> QED BY <1>2, <1>5, <1>6

(* Two texts whose lines differ in their values only have the same paths.   *)
Alike(t, a) ==
  /\ DOMAIN a = DOMAIN t
  /\ \A i \in DOMAIN t : a[i].kind = t[i].kind /\ a[i].ind = t[i].ind /\ a[i].name = t[i].name

LEMMA AlikePaths ==
  ASSUME NEW t, NEW a, Len(t) \in Nat, Len(a) = Len(t), DOMAIN t = 1..Len(t), Alike(t, a)
  PROVE  /\ Paths(a) = Paths(t) /\ Content(a) = Content(t)
         /\ \A i \in 1..Len(t) : Parent(a, i) = Parent(t, i)
<1>1. ASSUME NEW i \in 1..Len(t) PROVE Parent(a, i) = Parent(t, i)
  <2>1. \A j \in 1..i - 1 : j \in 1..Len(t)
    OBVIOUS
  <2>2. Above(a, i) = Above(t, i)
    BY <2>1 DEF Above, Alike, _is_content
  <2>3. Parent(a, i) = Greatest(Above(a, i)) /\ Parent(t, i) = Greatest(Above(t, i))
    BY DEF Parent, Above
  <2> QED BY <2>2, <2>3
<1>2. ASSUME NEW i \in 1..Len(t) PROVE Step(a, i) = Step(t, i)
  <2>1. \A j \in 1..i : j \in 1..Len(t)
    OBVIOUS
  <2>2. {j \in 1..i : a[j].kind = "item" /\ Parent(a, j) = Parent(a, i)}
          = {j \in 1..i : t[j].kind = "item" /\ Parent(t, j) = Parent(t, i)}
    BY <1>1, <2>1 DEF Alike
  <2> QED BY <2>2 DEF Step, Alike
<1>3. ByParents(a, Paths(a)) /\ ByParents(t, Paths(t))
  BY PathsByParents
<1>4. \A f : ByParents(a, f) => ByParents(t, f)
  <2> TAKE f
  <2>1. \A i \in 1..Len(t) : Append(f[Parent(a, i)], <<a[i].kind, Step(a, i)>>) = Append(f[Parent(t, i)], <<t[i].kind, Step(t, i)>>)
    BY <1>1, <1>2 DEF Alike
  <2>2. [i \in 0..Len(a) |-> IF i = 0 THEN <<>> ELSE Append(f[Parent(a, i)], <<a[i].kind, Step(a, i)>>)]
          = [i \in 0..Len(t) |-> IF i = 0 THEN <<>> ELSE Append(f[Parent(t, i)], <<t[i].kind, Step(t, i)>>)]
    <3>1. \A i \in 0..Len(t) : i = 0 \/ i \in 1..Len(t)
      OBVIOUS
    <3> QED BY <2>1, <3>1
  <2> QED BY <2>2 DEF ByParents
<1>5. Paths(a) = Paths(t)
  BY <1>3, <1>4, OnePath
<1>6. Content(a) = Content(t)
  BY DEF Content, Alike, _is_content
<1> QED BY <1>1, <1>5, <1>6

----------------------------------------------------------------------------
(* What YAML reads of a plugin that merge finds on.  A line's parent is the *)
(* line that is less deep, if none between them is.                         *)
LEMMA ParentOfBlock ==
  ASSUME NEW m, NEW a \in Nat \ {0}, NEW b \in Nat, a < b, m[a].kind = "key", m[b].kind = "key",
         m[a].ind \in Nat, m[b].ind \in Nat, m[a].ind < m[b].ind,
         \A j \in a + 1..b - 1 : _is_content(m[j]) => ~(m[j].ind < m[b].ind)
  PROVE  Parent(m, b) = a
<1>1. a \in Above(m, b)
  BY DEF Above, _is_content
<1>2. ASSUME NEW j \in Above(m, b) PROVE j <= a
  <2>1. j \in 1..b - 1 /\ _is_content(m[j]) /\ m[j].ind < m[b].ind
    BY <1>2 DEF Above
  <2> QED BY <2>1
<1>3. Parent(m, b) \in Above(m, b) /\ a <= Parent(m, b)
  BY <1>1, ParentIs
<1>4. Parent(m, b) \in 0..b - 1 /\ Parent(m, b) <= a
  BY <1>2, <1>3, ParentIsBefore
<1> QED BY <1>3, <1>4

(* What is appended is last.                                                *)
LEMMA AppendIs ==
  ASSUME NEW T, NEW s \in Seq(T), NEW x \in T, NEW n \in Nat, Len(s) = n, NEW u, u = Append(s, x)
  PROVE  u \in Seq(T) /\ Len(u) = n + 1 /\ u[n + 1] = x /\ \A i \in 1..n : u[i] = s[i]
OBVIOUS

(* A path of four steps.                                                    *)
LEMMA FourSteps ==
  ASSUME NEW T, NEW a \in T, NEW b \in T, NEW c \in T, NEW d \in T
  PROVE  Append(Append(Append(Append(<<>>, a), b), c), d) = <<a, b, c, d>>
<1> DEFINE one == Append(<<>>, a)
           two == Append(one, b)
           three == Append(two, c)
           four == Append(three, d)
<1>1. one \in Seq(T) /\ Len(one) = 1 /\ one[1] = a
  OBVIOUS
<1>2. two = Append(one, b) /\ three = Append(two, c) /\ four = Append(three, d)
  OBVIOUS
<1> HIDE DEF one, two, three, four
<1>3. two \in Seq(T) /\ Len(two) = 1 + 1 /\ two[1 + 1] = b /\ \A i \in 1..1 : two[i] = one[i]
  BY <1>1, <1>2, AppendIs
<1>4. two \in Seq(T) /\ Len(two) = 2 /\ two[1] = a /\ two[2] = b
  BY <1>1, <1>3
<1>5. three \in Seq(T) /\ Len(three) = 3 /\ three[3] = c /\ \A i \in 1..2 : three[i] = two[i]
  BY <1>2, <1>4, AppendIs
<1>6. four \in Seq(T) /\ Len(four) = 4 /\ four[4] = d /\ \A i \in 1..3 : four[i] = three[i]
  <2>1. three \in Seq(T) /\ Len(three) = 3 /\ 3 \in Nat /\ d \in T
    BY <1>5
  <2>2. four \in Seq(T) /\ Len(four) = 3 + 1 /\ four[3 + 1] = d /\ \A i \in 1..3 : four[i] = three[i]
    BY <1>2, <2>1, AppendIs
  <2> QED BY <2>2
<1>7. four[1] = a /\ four[2] = b /\ four[3] = c
  BY <1>4, <1>5, <1>6
<1> DEFINE all == <<a, b, c, d>>
<1>8. all \in Seq(T) /\ Len(all) = 4 /\ all[1] = a /\ all[2] = b /\ all[3] = c /\ all[4] = d
  OBVIOUS
<1> HIDE DEF all
<1>9. \A i \in 1..4 : four[i] = all[i]
  <2>1. \A i \in 1..4 : i = 1 \/ i = 2 \/ i = 3 \/ i = 4
    OBVIOUS
  <2> QED BY <1>6, <1>7, <1>8, <2>1
<1>10. four = all
  BY <1>6, <1>8, <1>9, SeqEqual
<1> QED BY <1>10 DEF one, two, three, four, all

LEMMA OwnLines ==
  /\ PluginsLine.kind = "key" /\ PluginsLine.ind = 0 /\ PluginsLine.name = "plugins"
  /\ ConfigsLine.kind = "key" /\ ConfigsLine.ind = 2 /\ ConfigsLine.name = "configs"
  /\ PluginLine.kind = "key" /\ PluginLine.ind = 4 /\ PluginLine.name = PLUGIN
  /\ Enabled.kind = "key" /\ Enabled.ind = 6 /\ Enabled.name = "enabled" /\ Enabled.val = "true"
  /\ KeyLine(2, "enabled", "true").ind = 2 /\ Blank.ind = 0
<1>1. PluginsLine.kind = "key" /\ PluginsLine.ind = 0 /\ PluginsLine.name = "plugins"
  BY DEF PluginsLine, KeyLine
<1>2. ConfigsLine.kind = "key" /\ ConfigsLine.ind = 2 /\ ConfigsLine.name = "configs"
  BY DEF ConfigsLine, KeyLine
<1>3. PluginLine.kind = "key" /\ PluginLine.ind = 4 /\ PluginLine.name = PLUGIN
  BY DEF PluginLine, KeyLine
<1>4. Enabled.kind = "key" /\ Enabled.ind = 6 /\ Enabled.name = "enabled" /\ Enabled.val = "true"
  BY DEF Enabled, KeyLine
<1>5. KeyLine(2, "enabled", "true").ind = 2 /\ Blank.ind = 0
  BY DEF KeyLine, Blank
<1> QED BY <1>1, <1>2, <1>3, <1>4, <1>5

(* Nothing is indented by one, three or five, where merge, which knows      *)
(* steps of two, would take a line for one of a deeper block.               *)
ByTwo(t) == \A i \in Content(t) : t[i].ind \notin {1, 3, 5}

(* The switch that merge finds on is the plugin's own for YAML too.         *)
LEMMA OnIsRead ==
  ASSUME NEW Names, NEW m \in Seq(TextLine(Names)), ByTwo(m), NEW p, NEW c, NEW g, NEW e, IsOn(m, p, c, g, e)
  PROVE  e \in Content(m) /\ Paths(m)[e] = Place(Switch) /\ m[e].val = "true"
<1>0. /\ Len(m) \in Nat /\ DOMAIN m = 1..Len(m) /\ \A i \in 1..Len(m) : m[i].ind \in Nat
  BY LinesAre
<1>1. /\ p \in 1..Len(m) /\ c \in 1..Len(m) /\ g \in 1..Len(m) /\ e \in 1..Len(m) /\ p < c /\ c < g /\ g < e
      /\ m[p] = PluginsLine /\ m[c] = ConfigsLine /\ m[g] = PluginLine /\ m[e] = Enabled
      /\ Deeper(m, p + 1, c, 0) /\ Deeper(m, c + 1, g, 2) /\ Deeper(m, g + 1, e, 4)
  BY DEF IsOn, HasPlugins, HasConfigs, HasPlugin, InPlugin, FirstFrom
<1>2. /\ m[p].kind = "key" /\ m[c].kind = "key" /\ m[g].kind = "key" /\ m[e].kind = "key"
      /\ m[p].ind = 0 /\ m[c].ind = 2 /\ m[g].ind = 4 /\ m[e].ind = 6
      /\ m[p].name = "plugins" /\ m[c].name = "configs" /\ m[g].name = PLUGIN /\ m[e].name = "enabled"
      /\ m[e].val = "true"
  BY <1>1, OwnLines
<1>3. ASSUME NEW j \in 1..Len(m), _is_content(m[j])
      PROVE  m[j].ind \in Nat /\ m[j].ind \notin {1, 3, 5}
  BY <1>0, <1>3 DEF ByTwo, Content
<1>4. /\ \A j \in p + 1..c - 1 : _is_content(m[j]) => ~(m[j].ind < 2)
      /\ \A j \in c + 1..g - 1 : _is_content(m[j]) => ~(m[j].ind < 4)
      /\ \A j \in g + 1..e - 1 : _is_content(m[j]) => ~(m[j].ind < 6)
  <2>1. ASSUME NEW j \in p + 1..c - 1, _is_content(m[j]) PROVE ~(m[j].ind < 2)
    <3>1. j \in 1..Len(m) /\ j \in p + 1..c
      BY <1>0, <1>1
    <3> QED BY <1>1, <1>3, <2>1, <3>1 DEF Deeper
  <2>2. ASSUME NEW j \in c + 1..g - 1, _is_content(m[j]) PROVE ~(m[j].ind < 4)
    <3>1. j \in 1..Len(m) /\ j \in c + 1..g
      BY <1>0, <1>1
    <3> QED BY <1>1, <1>3, <2>2, <3>1 DEF Deeper
  <2>3. ASSUME NEW j \in g + 1..e - 1, _is_content(m[j]) PROVE ~(m[j].ind < 6)
    <3>1. j \in 1..Len(m) /\ j \in g + 1..e
      BY <1>0, <1>1
    <3> QED BY <1>1, <1>3, <2>3, <3>1 DEF Deeper
  <2> QED BY <2>1, <2>2, <2>3
<1>5. Parent(m, p) = 0
  <2>1. Above(m, p) = {}
    <3>1. \A j \in 1..p - 1 : j \in 1..Len(m)
      BY <1>0, <1>1
    <3> QED BY <1>0, <1>2, <3>1 DEF Above
  <2> QED BY <1>0, <1>1, <2>1, ParentIs
<1>6. Parent(m, c) = p /\ Parent(m, g) = c /\ Parent(m, e) = g
  <2>1. p \in Nat \ {0} /\ c \in Nat \ {0} /\ g \in Nat \ {0} /\ e \in Nat
    BY <1>0, <1>1
  <2>2. /\ m[p].ind \in Nat /\ m[c].ind \in Nat /\ m[g].ind \in Nat /\ m[e].ind \in Nat
        /\ m[p].ind < m[c].ind /\ m[c].ind < m[g].ind /\ m[g].ind < m[e].ind
    BY <1>2
  <2>3. /\ \A j \in p + 1..c - 1 : _is_content(m[j]) => ~(m[j].ind < m[c].ind)
        /\ \A j \in c + 1..g - 1 : _is_content(m[j]) => ~(m[j].ind < m[g].ind)
        /\ \A j \in g + 1..e - 1 : _is_content(m[j]) => ~(m[j].ind < m[e].ind)
    BY <1>2, <1>4
  <2>4. Parent(m, c) = p
    BY <1>1, <1>2, <2>1, <2>2, <2>3, ParentOfBlock
  <2>5. Parent(m, g) = c
    BY <1>1, <1>2, <2>1, <2>2, <2>3, ParentOfBlock
  <2>6. Parent(m, e) = g
    BY <1>1, <1>2, <2>1, <2>2, <2>3, ParentOfBlock
  <2> QED BY <2>4, <2>5, <2>6
<1> DEFINE path == Paths(m)
<1>7. /\ path[0] = <<>>
      /\ \A i \in 1..Len(m) : path[i] = Append(path[Parent(m, i)], StepAt(m, i))
  BY <1>0, PathsByParents DEF IsPath
<1>8. /\ StepAt(m, p) = <<"key", "plugins">> /\ StepAt(m, c) = <<"key", "configs">>
      /\ StepAt(m, g) = <<"key", PLUGIN>> /\ StepAt(m, e) = <<"key", "enabled">>
  BY <1>2 DEF StepAt, Step
<1> HIDE DEF path
<1>9. path[e] = Append(Append(Append(Append(<<>>, <<"key", "plugins">>), <<"key", "configs">>), <<"key", PLUGIN>>), <<"key", "enabled">>)
  BY <1>1, <1>5, <1>6, <1>7, <1>8
<1>10. path[e] = Place(Switch)
  <2>1. Place(Switch) = <<<<"key", "plugins">>, <<"key", "configs">>, <<"key", PLUGIN>>, <<"key", "enabled">>>>
    BY DEF Place, Switch
  <2>2. path[e] = <<<<"key", "plugins">>, <<"key", "configs">>, <<"key", PLUGIN>>, <<"key", "enabled">>>>
    <3> DEFINE a == <<"key", "plugins">>
               b == <<"key", "configs">>
               q == <<"key", PLUGIN>>
               d == <<"key", "enabled">>
               T == {a, b, q, d}
    <3>1. path[e] = Append(Append(Append(Append(<<>>, a), b), q), d)
      BY <1>9
    <3>2. a \in T /\ b \in T /\ q \in T /\ d \in T
      OBVIOUS
    <3> HIDE DEF a, b, q, d, T
    <3>3. path[e] = <<a, b, q, d>>
      BY <3>1, <3>2, FourSteps
    <3> QED BY <3>3 DEF a, b, q, d
  <2> QED BY <2>1, <2>2
<1>11. e \in Content(m)
  BY <1>0, <1>1, <1>2 DEF Content, _is_content
<1> QED BY <1>2, <1>10, <1>11 DEF path

LEMMA MergeByTwo ==
  ASSUME NEW t, NEW m, Len(t) \in Nat, DOMAIN t = 1..Len(t), DOMAIN m = 1..Len(m), ByTwo(t), Merged(t, m)
  PROVE  ByTwo(m)
<1>1. PICK g, f : Grown(t, m, f) /\ KeptBut(t, m, g, f)
  BY DEF Merged
<1>2. \A l \in Own : l.ind \notin {1, 3, 5}
  <2>1. 0 \notin {1, 3, 5} /\ 2 \notin {1, 3, 5} /\ 4 \notin {1, 3, 5} /\ 6 \notin {1, 3, 5}
    OBVIOUS
  <2> SUFFICES ASSUME NEW l \in Own PROVE l.ind = 0 \/ l.ind = 2 \/ l.ind = 4 \/ l.ind = 6
    BY <2>1
  <2> QED BY OwnLines, Zenon DEF Own
<1>3. Enabled \in Own
  BY DEF Own
<1> SUFFICES ASSUME NEW i \in Content(m) PROVE m[i].ind \notin {1, 3, 5}
  BY DEF ByTwo
<1>4. i \in 1..Len(m) /\ _is_content(m[i])
  BY DEF Content
<1>5. CASE m[i] \in Own
  BY <1>2, <1>5
<1>6. ASSUME NEW k \in 1..Len(t), f[k] = i
      PROVE  m[i].ind \notin {1, 3, 5}
  <2>1. m[i] = t[k] \/ m[i] = Enabled
    BY <1>1, <1>6 DEF KeptBut
  <2>2. CASE m[i] = t[k]
    BY <1>4, <2>2 DEF ByTwo, Content
  <2> QED BY <1>2, <1>3, <2>1, <2>2
<1> QED BY <1>1, <1>4, <1>5, <1>6 DEF Grown

(* For every text, plugin-config.py keeps every line as it is and in its    *)
(* place in the order, but for the plugin's own switch; it adds no line but *)
(* its own; and run again it changes nothing, for it finds the plugin on    *)
(* (plugin-config.py:39-70; l.5 "Script chi sua dung khoi plugins.configs,  *)
(* khong dung toi khoa/auth khac").  If nothing is indented by one, three   *)
(* or five, YAML reads the plugin's own switch as "true", too, and only so  *)
(* if the result is YAML.  It need not be: what stood there in a form that  *)
(* merge does not know comes twice (MergeAlwaysTurnsOn).  Nothing is said   *)
(* of the switch of all plugins, plugins.enabled, which stays as it is      *)
(* (PluginsAreOn).                                                          *)
THEOREM MergeOnce ==
  ASSUME NEW Names, MergeNames \subseteq Names, NEW t \in Seq(TextLine(Names))
  PROVE  LET m == merge(t)
         IN  /\ Merged(t, m) /\ merge(m) = m
             /\ ByTwo(t) => "true" \in Value(m, Switch)
             /\ ByTwo(t) /\ IsYaml(m) => Value(m, Switch) = {"true"}
<1> DEFINE m == merge(t)
<1>1. m \in Seq(TextLine(Names)) /\ Merged(t, m)
  BY MergeMerges
<1>2. PICK p, c, g, e : IsOn(m, p, c, g, e)
  BY <1>1 DEF Merged
<1>3. merge(m) = m
  BY <1>1, <1>2, OnIsKept
<1> HIDE DEF m
<1> DEFINE line == <<Paths(m)[e], m[e].name, m[e].val>>
<1>4. ASSUME ByTwo(t)
      PROVE  e \in Content(m) /\ Paths(m)[e] = Place(Switch) /\ m[e].val = "true"
  <2>1. Len(t) \in Nat /\ DOMAIN t = 1..Len(t) /\ DOMAIN m = 1..Len(m)
    BY <1>1, LinesAre
  <2>2. ByTwo(m)
    BY <1>1, <1>4, <2>1, MergeByTwo
  <2> QED BY <1>1, <1>2, <2>2, OnIsRead
<1>5. ASSUME ByTwo(t) PROVE "true" \in Value(m, Switch)
  <2>1. line \in Meaning(m) /\ line[1] = Place(Switch) /\ line[3] = "true"
    BY <1>4, <1>5 DEF Meaning
  <2> HIDE DEF line
  <2> QED BY <2>1 DEF Value
<1>6. ASSUME ByTwo(t), IsYaml(m), NEW v \in Value(m, Switch) PROVE v = "true"
  <2>1. PICK x \in Meaning(m) : x[1] = Place(Switch) /\ v = x[3]
    BY <1>6 DEF Value
  <2>2. PICK i \in Content(m) : x = <<Paths(m)[i], m[i].name, m[i].val>>
    BY <2>1 DEF Meaning
  <2>3. i = e
    <3> DEFINE places == {<<Paths(m)[j], j>> : j \in Content(m)}
               X == <<Paths(m)[i], i>>
               Y == <<Paths(m)[e], e>>
    <3>1. X \in places /\ Y \in places /\ X[1] = Y[1] /\ X[2] = i /\ Y[2] = e
      BY <1>4, <1>6, <2>1, <2>2
    <3>2. \A u, w \in places : u[1] = w[1] => u[2] = w[2]
      BY <1>6 DEF IsYaml
    <3> HIDE DEF places, X, Y
    <3> QED BY <3>1, <3>2
  <2> QED BY <1>4, <1>6, <2>1, <2>2, <2>3
<1> QED BY <1>1, <1>3, <1>5, <1>6 DEF m

----------------------------------------------------------------------------
(* The keys of the top level are at the margin, as in a file of the proxy;  *)
(* the edit takes a section for one only there.                             *)
AtMargin(t) == \A i \in Content(t) : \E j \in Content(t) : j <= i /\ t[j].ind = 0

LEMMA SectionIs ==
  ASSUME NEW t, NEW i \in Nat
  PROVE  \/ Section(t, i) = 0
         \/ /\ Section(t, i) \in 1..i /\ _is_content(t[Section(t, i)]) /\ t[Section(t, i)].ind = 0
            /\ \A j \in 1..i : _is_content(t[j]) /\ t[j].ind = 0 => j <= Section(t, i)
<1> DEFINE S == {j \in 1..i : _is_content(t[j]) /\ t[j].ind = 0}
<1>1. S \in SUBSET (1..i)
  OBVIOUS
<1>2. Section(t, i) = Greatest(S)
  BY DEF Section
<1>3. \/ S = {} /\ Greatest(S) = 0
      \/ Greatest(S) \in S /\ \A j \in S : j <= Greatest(S)
  BY <1>1, GreatestIs
<1> QED BY <1>2, <1>3

(* A line below the margin is inside the block of the last key at it.       *)
LEMMA InSection ==
  ASSUME NEW Names, NEW t \in Seq(TextLine(Names)), NEW i \in Content(t),
         NEW s \in 1..Len(t), s = Section(t, i), t[s].kind = "key"
  PROVE  Len(Paths(t)[i]) >= 1 /\ Paths(t)[i][1] = <<"key", t[s].name>>
<1> DEFINE path == Paths(t)
           Bad == {k \in Content(t) : Section(t, k) = s /\ ~(Len(path[k]) >= 1 /\ path[k][1] = <<"key", t[s].name>>)}
<1>0. /\ Len(t) \in Nat /\ DOMAIN t = 1..Len(t) /\ \A k \in 1..Len(t) : t[k].ind \in Nat
      /\ Content(t) \in SUBSET (1..Len(t)) /\ \A k \in Content(t) : _is_content(t[k])
  BY LinesAre DEF Content
<1>1. IsPath(t, Len(t), path)
  BY <1>0, PathsByParents
<1> HIDE DEF path
<1>2. /\ path \in [0..Len(t) -> Seq(Steps(t))] /\ path[0] = <<>>
      /\ \A k \in 1..Len(t) : path[k] = Append(path[Parent(t, k)], StepAt(t, k))
  BY <1>1 DEF IsPath
<1> SUFFICES ASSUME Bad # {} PROVE FALSE
  BY DEF path
<1>3. PICK k \in Bad : \A j \in Bad : k <= j
  <2>1. Bad \in SUBSET Nat
    BY <1>0
  <2> HIDE DEF Bad
  <2> QED BY <2>1, LeastExists
<1>4. k \in 1..Len(t) /\ k \in Nat \ {0} /\ _is_content(t[k]) /\ k \in Content(t) /\ Section(t, k) = s
  BY <1>0, <1>3
<1>5. /\ s \in 1..k /\ _is_content(t[s]) /\ t[s].ind = 0
      /\ \A j \in 1..k : _is_content(t[j]) /\ t[j].ind = 0 => j <= s
  BY <1>4, SectionIs
<1>p. /\ Parent(t, k) \in 0..k - 1
      /\ \/ Above(t, k) = {} /\ Parent(t, k) = 0
         \/ Parent(t, k) \in Above(t, k) /\ \A j \in Above(t, k) : j <= Parent(t, k)
  BY <1>4, ParentIs, ParentIsBefore
<1>6. CASE k = s
  <2>1. Above(t, k) = {}
    <3>1. \A j \in 1..k - 1 : ~(t[j].ind < t[k].ind)
      <4>1. \A j \in 1..k - 1 : j \in 1..Len(t)
        BY <1>4
      <4> QED BY <1>0, <1>5, <1>6, <4>1
    <3> QED BY <1>6, <3>1 DEF Above
  <2>2. path[k] = Append(<<>>, <<t[k].kind, Step(t, k)>>)
    <3>1. Parent(t, k) = 0
      BY <1>p, <2>1
    <3> QED BY <1>2, <1>4, <3>1 DEF StepAt
  <2>3. Step(t, k) = t[s].name
    BY <1>6 DEF Step
  <2>4. path[k] = <<<<"key", t[s].name>>>>
    BY <1>6, <2>2, <2>3
  <2> QED BY <1>3, <2>4
<1>7. CASE k # s
  <2>1. t[k].ind > 0 /\ s \in 1..k - 1
    BY <1>0, <1>4, <1>5, <1>7
  <2>2. s \in Above(t, k)
    <3>1. t[s].ind < t[k].ind /\ t[s].ind <= t[k].ind
      BY <1>0, <1>5, <2>1
    <3> QED BY <1>5, <2>1, <3>1 DEF Above
  <2> DEFINE p == Parent(t, k)
  <2>3. p \in Above(t, k) /\ s <= p
    BY <1>p, <2>2
  <2>4. p \in 1..k - 1 /\ _is_content(t[p])
    BY <2>3 DEF Above
  <2> HIDE DEF p
  <2>5. p \in 1..Len(t) /\ p \in Nat /\ p \in Content(t) /\ ~(k <= p)
    <3>1. p \in 1..Len(t) /\ p \in Nat /\ ~(k <= p)
      BY <1>4, <2>4
    <3> QED BY <1>0, <2>4, <3>1 DEF Content
  <2>6. Section(t, p) = s
    <3>1. s \in {j \in 1..p : _is_content(t[j]) /\ t[j].ind = 0}
      BY <1>5, <2>3, <2>4
    <3>2. \A j \in 1..p : j \in 1..k
      BY <1>4, <2>4
    <3>3. Section(t, p) # 0
      <4>1. \A j \in 1..p : j > 0 
        OBVIOUS
      <4> DEFINE S == {j \in 1..p : _is_content(t[j]) /\ t[j].ind = 0}
      <4>2. Greatest(S) \in S
        <5>1. S # {} /\ S \in SUBSET (1..p)
          BY <3>1
        <5> HIDE DEF S
        <5> QED BY <2>5, <5>1, GreatestIs
      <4> QED BY <4>1, <4>2 DEF Section
    <3>4. /\ Section(t, p) \in 1..p /\ _is_content(t[Section(t, p)]) /\ t[Section(t, p)].ind = 0
          /\ \A j \in 1..p : _is_content(t[j]) /\ t[j].ind = 0 => j <= Section(t, p)
      BY <2>5, <3>3, SectionIs
    <3>5. Section(t, p) <= s /\ s <= Section(t, p)
      BY <1>5, <3>1, <3>2, <3>4
    <3> QED BY <3>4, <3>5
  <2>7. Len(path[p]) >= 1 /\ path[p][1] = <<"key", t[s].name>>
    <3>1. p \notin Bad
      BY <1>3, <2>5
    <3> QED BY <2>5, <2>6, <3>1
  <2>8. path[k] = Append(path[p], StepAt(t, k)) /\ path[p] \in Seq(Steps(t)) /\ StepAt(t, k) \in Steps(t)
    <3>1. p \in 0..Len(t)
      BY <2>5
    <3> QED BY <1>2, <1>4, <3>1 DEF p, Steps
  <2>9. Len(path[k]) >= 1 /\ path[k][1] = path[p][1]
    <3> DEFINE q == path[p]
               x == StepAt(t, k)
    <3>1. q \in Seq(Steps(t)) /\ x \in Steps(t) /\ Len(q) >= 1 /\ path[k] = Append(q, x)
      BY <2>7, <2>8
    <3> HIDE DEF q, x
    <3>2. Len(Append(q, x)) >= 1 /\ Append(q, x)[1] = q[1]
      BY <3>1
    <3> QED BY <3>1, <3>2 DEF q
  <2> QED BY <1>3, <2>7, <2>9
<1> QED BY <1>6, <1>7

LEMMA BelowIs ==
  ASSUME NEW T, NEW path \in Seq(T), NEW name, Len(path) >= 1, path[1] = <<"key", name>>
  PROVE  Below(path, <<name>>)
<1>1. Place(<<name>>) = <<<<"key", name>>>>
  BY DEF Place
<1>2. Len(<<name>>) = 1
  OBVIOUS
<1>3. SubSeq(path, 1, 1) = <<path[1]>>
  <2> DEFINE first == SubSeq(path, 1, 1)
  <2>1. first \in Seq(T) /\ Len(first) = 1 /\ first[1] = path[1]
    OBVIOUS
  <2> HIDE DEF first
  <2> DEFINE x == path[1]
  <2>2. x \in T /\ <<x>> \in Seq(T) /\ Len(<<x>>) = 1 /\ <<x>>[1] = x
    OBVIOUS
  <2> HIDE DEF x
  <2>3. \A i \in 1..1 : first[i] = <<x>>[i]
    BY <2>1, <2>2 DEF x
  <2>4. first = <<x>>
    BY <2>1, <2>2, <2>3, SeqEqual
  <2> QED BY <2>4 DEF first, x
<1> QED BY <1>1, <1>2, <1>3 DEF Below

(* What the edit does to the text: some lines of the section "routing"      *)
(* that switch affinity on switch it off.                                   *)
Switched(t, i) ==
  /\ IsKey(t[i], "session-affinity") /\ t[i].val = "true" /\ t[i].ind > 0
  /\ Section(t, i) > 0 /\ IsKey(t[Section(t, i)], "routing")

LEMMA AffinityIs ==
  ASSUME NEW Names, NEW t \in Seq(TextLine(Names))
  PROVE  LET a == set_session_affinity_false(t)
         IN  /\ Len(a) = Len(t) /\ Alike(t, a)
             /\ \A i \in 1..Len(t) : IF Switched(t, i) THEN a[i].val = "false" ELSE a[i] = t[i]
<1> DEFINE a == set_session_affinity_false(t)
<1>0. Len(t) \in Nat /\ DOMAIN t = 1..Len(t) /\ \A i \in 1..Len(t) : t[i] \in TextLine(Names)
  BY LinesAre
<1>1. a = [i \in DOMAIN t |-> IF Switched(t, i) THEN [t[i] EXCEPT !.val = "false"] ELSE t[i]]
  BY DEF set_session_affinity_false, Switched
<1>2. \A l \in TextLine(Names) : LET m == [l EXCEPT !.val = "false"]
                               IN  m.val = "false" /\ m.kind = l.kind /\ m.ind = l.ind /\ m.name = l.name
  BY DEF TextLine
<1>3. DOMAIN a = 1..Len(t) /\ Len(a) = Len(t)
  BY <1>0, <1>1
<1> HIDE DEF a
<1>4. ASSUME NEW i \in 1..Len(t)
      PROVE  /\ IF Switched(t, i) THEN a[i].val = "false" ELSE a[i] = t[i]
             /\ a[i].kind = t[i].kind /\ a[i].ind = t[i].ind /\ a[i].name = t[i].name
  <2>1. CASE Switched(t, i)
    <3>1. a[i] = [t[i] EXCEPT !.val = "false"]
      BY <1>0, <1>1, <2>1
    <3> QED BY <1>0, <1>2, <2>1, <3>1
  <2>2. CASE ~Switched(t, i)
    BY <1>0, <1>1, <2>2
  <2> QED BY <2>1, <2>2
<1>5. Alike(t, a)
  BY <1>0, <1>3, <1>4 DEF Alike
<1> QED BY <1>3, <1>4, <1>5 DEF a

(* A line that YAML reads as routing.session-affinity is one the edit sees. *)
LEMMA AffinityIsSeen ==
  ASSUME NEW Names, NEW t \in Seq(TextLine(Names)), AtMargin(t),
         NEW i \in Content(t), Paths(t)[i] = Place(<<"routing", "session-affinity">>), t[i].val = "true"
  PROVE  Switched(t, i)
<1> DEFINE path == Paths(t)
           p == Parent(t, i)
           q == Parent(t, p)
<1>0. /\ Len(t) \in Nat /\ DOMAIN t = 1..Len(t) /\ \A k \in 1..Len(t) : t[k].ind \in Nat
      /\ Content(t) \in SUBSET (1..Len(t)) /\ \A k \in Content(t) : _is_content(t[k])
      /\ i \in 1..Len(t) /\ i \in Nat \ {0}
  BY LinesAre DEF Content
<1>1. IsPath(t, Len(t), path)
  BY <1>0, PathsByParents
<1> HIDE DEF path
<1>2. /\ path \in [0..Len(t) -> Seq(Steps(t))] /\ path[0] = <<>>
      /\ \A k \in 1..Len(t) : path[k] = Append(path[Parent(t, k)], StepAt(t, k))
  BY <1>1 DEF IsPath
<1>3. \A k \in 1..Len(t) : /\ Parent(t, k) \in 0..k - 1
                           /\ \/ Above(t, k) = {} /\ Parent(t, k) = 0
                              \/ Parent(t, k) \in Above(t, k) /\ \A j \in Above(t, k) : j <= Parent(t, k)
  <2> TAKE k \in 1..Len(t)
  <2>1. k \in Nat \ {0}
    OBVIOUS
  <2> QED BY <2>1, ParentIs, ParentIsBefore
<1> DEFINE r == <<"key", "routing">>
           x == <<"key", "session-affinity">>
<1>4. Len(path[i]) = 2 /\ path[i][1] = r /\ path[i][2] = x
  <2>1. Place(<<"routing", "session-affinity">>) = <<r, x>>
    BY DEF Place
  <2> QED BY <2>1 DEF path
<1> HIDE DEF r, x
<1>5. ASSUME NEW k \in 1..Len(t)
      PROVE  /\ path[Parent(t, k)] \in Seq(Steps(t)) /\ Len(path[k]) = Len(path[Parent(t, k)]) + 1
             /\ path[k][Len(path[k])] = StepAt(t, k)
             /\ \A j \in 1..Len(path[Parent(t, k)]) : path[k][j] = path[Parent(t, k)][j]
  <2> DEFINE u == path[Parent(t, k)]
             y == StepAt(t, k)
  <2>1. u \in Seq(Steps(t)) /\ y \in Steps(t) /\ path[k] = Append(u, y)
    <3>1. Parent(t, k) \in 0..Len(t)
      BY <1>3
    <3> QED BY <1>2, <3>1 DEF Steps
  <2> HIDE DEF u, y
  <2>2. /\ Len(Append(u, y)) = Len(u) + 1 /\ Append(u, y)[Len(u) + 1] = y
        /\ \A j \in 1..Len(u) : Append(u, y)[j] = u[j]
    BY <2>1
  <2> QED BY <2>1, <2>2 DEF u, y
<1>6. p \in 1..Len(t) /\ path[p] \in Seq(Steps(t)) /\ Len(path[p]) = 1 /\ path[p][1] = r
  <2>1. path[p] \in Seq(Steps(t)) /\ Len(path[p]) = 1 /\ path[p][1] = r
    <3>1. path[p] \in Seq(Steps(t)) /\ Len(path[i]) = Len(path[p]) + 1 /\ \A j \in 1..Len(path[p]) : path[i][j] = path[p][j]
      BY <1>0, <1>5
    <3> HIDE DEF p
    <3> DEFINE n == Len(path[p])
    <3>3. n \in Nat
      BY <3>1
    <3> HIDE DEF n
    <3>4. 2 = n + 1
      BY <1>4, <3>1 DEF n
    <3>5. n = 1
      BY <3>3, <3>4
    <3>2. Len(path[p]) = 1
      BY <3>5 DEF n
    <3> QED BY <1>4, <3>1, <3>2
  <2>2. p # 0
    <3> HIDE DEF p
    <3> QED BY <1>2, <2>1
  <2>3. p \in 0..i - 1
    BY <1>0, <1>3
  <2> HIDE DEF p
  <2> QED BY <1>0, <2>1, <2>2, <2>3
<1>7. StepAt(t, i) = x /\ StepAt(t, p) = r
  <2>1. StepAt(t, i) = path[i][2]
    BY <1>0, <1>4, <1>5
  <2>2. StepAt(t, p) = path[p][1]
    <3>1. path[p][Len(path[p])] = StepAt(t, p)
      <4> HIDE DEF p
      <4> QED BY <1>5, <1>6
    <3> QED BY <1>6, <3>1
  <2> QED BY <1>4, <1>6, <2>1, <2>2
<1>8. IsKey(t[i], "session-affinity") /\ IsKey(t[p], "routing")
  <2>1. t[i].kind = "key" /\ Step(t, i) = "session-affinity" /\ t[p].kind = "key" /\ Step(t, p) = "routing"
    BY <1>7 DEF StepAt, x, r
  <2> QED BY <2>1 DEF Step, IsKey
<1>9. q = 0
  <2>1. Len(path[p]) = Len(path[q]) + 1 /\ path[q] \in Seq(Steps(t)) /\ q \in 0..p - 1
    <3> HIDE DEF p
    <3> QED BY <1>3, <1>5, <1>6
  <2>2. CASE q \in 1..Len(t)
    <3> HIDE DEF q
    <3>1. path[Parent(t, q)] \in Seq(Steps(t)) /\ Len(path[q]) = Len(path[Parent(t, q)]) + 1
      BY <1>5, <2>2
    <3> DEFINE n == Len(path[Parent(t, q)])
               l == Len(path[q])
    <3>2. n \in Nat
      BY <3>1
    <3>3. l = n + 1 /\ 1 = l + 1
      BY <1>6, <2>1, <3>1
    <3> HIDE DEF n, l
    <3> QED BY <3>2, <3>3
  <2> HIDE DEF q, p
  <2>3. q = 0 \/ q \in 1..Len(t)
    BY <1>0, <1>6, <2>1
  <2> QED BY <2>2, <2>3
<1>10. Above(t, p) = {} /\ p \in Above(t, i)
  <2>1. Above(t, p) = {}
    <3> HIDE DEF p
    <3>1. q = Parent(t, p) /\ (Above(t, p) = {} \/ q \in Above(t, p))
      BY <1>3, <1>6
    <3>2. q \notin Above(t, p)
      BY <1>9 DEF Above
    <3> QED BY <3>1, <3>2
  <2>2. p # 0
    BY <1>6
  <2> QED BY <1>0, <1>3, <2>1, <2>2
<1> HIDE DEF q
<1>11. p \in 1..i - 1 /\ _is_content(t[p]) /\ t[p].ind < t[i].ind
  BY <1>8, <1>10 DEF Above, IsKey
<1>12. t[p].ind = 0
  <2>1. p \in Content(t)
    BY <1>0, <1>6, <1>11 DEF Content
  <2>2. PICK j \in Content(t) : j <= p /\ t[j].ind = 0
    BY <2>1 DEF AtMargin
  <2> HIDE DEF p
  <2>3. CASE j # p /\ t[p].ind # 0
    <3>1. j \in 1..p - 1 /\ _is_content(t[j]) /\ t[j].ind < t[p].ind
      BY <1>0, <1>6, <2>2, <2>3
    <3>2. j \in Above(t, p)
      BY <1>8, <3>1 DEF Above, IsKey
    <3> QED BY <1>10, <3>2
  <2> QED BY <2>2, <2>3
<1>13. t[i].ind > 0
  <2> HIDE DEF p
  <2> QED BY <1>0, <1>11, <1>12
<1>14. Section(t, i) = p
  <2> DEFINE s == Section(t, i)
             S == {j \in 1..i : _is_content(t[j]) /\ t[j].ind = 0}
  <2>1. p \in S
    <3> HIDE DEF p
    <3> QED BY <1>0, <1>11, <1>12
  <2>2. s \in S /\ \A j \in S : j <= s
    <3>1. S \in SUBSET (1..i) /\ S # {} /\ s = Greatest(S)
      BY <2>1 DEF Section
    <3> HIDE DEF S, s
    <3> QED BY <1>0, <3>1, GreatestIs
  <2>3. s \in 1..i /\ _is_content(t[s]) /\ t[s].ind = 0 /\ p <= s
    BY <2>1, <2>2
  <2> HIDE DEF s, S, p
  <2>4. s # i /\ s \in 1..i - 1
    BY <1>0, <1>13, <2>3
  <2>5. s \in Above(t, i)
    BY <1>8, <1>13, <2>3, <2>4 DEF Above, IsKey
  <2>6. s <= p
    BY <1>0, <1>3, <2>5 DEF p
  <2> QED BY <1>6, <2>3, <2>4, <2>6 DEF s
<1> HIDE DEF p
<1>15. p > 0
  BY <1>6
<1> QED BY <1>8, <1>13, <1>14, <1>15 DEF Switched

(* For every YAML text with its top level at the margin, quota-failover.py  *)
(* leaves a YAML text in which affinity is off, in which everything outside *)
(* of "routing" means what it did, and in which no line is changed but      *)
(* those named session-affinity inside "routing" (quota-                    *)
(* failover.py:113-127, "giu nguyen moi dong khac"). The hypothesis on the  *)
(* margin is needed: below an indented "routing" the script sees nothing to *)
(* change.                                                                  *)
THEOREM AffinityOff ==
  ASSUME NEW Names, NEW t \in Seq(TextLine(Names)), IsYaml(t), AtMargin(t)
  PROVE  LET a == set_session_affinity_false(t)
         IN  /\ IsYaml(a) /\ "true" \notin Value(a, <<"routing", "session-affinity">>)
             /\ Without(a, <<"routing">>) = Without(t, <<"routing">>)
             /\ \A i \in 1..Len(t) : a[i] # t[i] => IsKey(t[i], "session-affinity") /\ Below(Paths(t)[i], <<"routing">>)
<1> DEFINE a == set_session_affinity_false(t)
           path == Paths(t)
<1>0. /\ Len(t) \in Nat /\ DOMAIN t = 1..Len(t) /\ Content(t) = {k \in 1..Len(t) : _is_content(t[k])}
      /\ \A k \in 1..Len(t) : k \in Nat
  BY LinesAre DEF Content
<1>1. /\ Len(a) = Len(t) /\ Alike(t, a)
      /\ \A i \in 1..Len(t) : IF Switched(t, i) THEN a[i].val = "false" ELSE a[i] = t[i]
  BY AffinityIs
<1> HIDE DEF a
<1>2. /\ Paths(a) = path /\ Content(a) = Content(t)
      /\ \A i \in 1..Len(t) : Parent(a, i) = Parent(t, i)
  BY <1>0, <1>1, AlikePaths
<1>3. IsPath(t, Len(t), path)
  BY <1>0, PathsByParents
<1>4. ASSUME NEW i \in 1..Len(t), Switched(t, i)
      PROVE  i \in Content(t) /\ IsKey(t[i], "session-affinity") /\ Below(path[i], <<"routing">>)
  <2>1. i \in Content(t) /\ IsKey(t[i], "session-affinity")
    BY <1>0, <1>4 DEF Switched, IsKey, _is_content
  <2> DEFINE s == Section(t, i)
  <2>2. s \in 1..Len(t) /\ t[s].kind = "key" /\ t[s].name = "routing"
    <3>1. s > 0 /\ IsKey(t[s], "routing")
      BY <1>4 DEF Switched
    <3>2. s = 0 \/ s \in 1..i
      BY <1>0, SectionIs
    <3> HIDE DEF s
    <3> QED BY <1>0, <3>1, <3>2 DEF IsKey
  <2>3. Len(path[i]) >= 1 /\ path[i][1] = <<"key", t[s].name>>
    <3> HIDE DEF path
    <3> QED BY <2>1, <2>2, InSection DEF path
  <2>4. path[i] \in Seq(Steps(t))
    <3>1. i \in 0..Len(t)
      BY <1>0
    <3> QED BY <1>3, <3>1 DEF IsPath
  <2> HIDE DEF path, s
  <2>5. path[i][1] = <<"key", "routing">>
    BY <2>2, <2>3
  <2>6. Below(path[i], <<"routing">>)
    BY <2>3, <2>4, <2>5, BelowIs
  <2> QED BY <2>1, <2>6
<1> HIDE DEF path
<1>5. IsYaml(a)
  <2> DEFINE places(u) == {<<Paths(u)[i], i>> : i \in Content(u)}
             depths(u) == {<<Parent(u, i), u[i].ind>> : i \in Content(u)}
  <2>1. places(a) = places(t) /\ depths(a) = depths(t)
    <3>1. Content(t) \subseteq 1..Len(t)
      BY <1>0
    <3>2. \A i \in Content(t) : Parent(a, i) = Parent(t, i) /\ a[i].ind = t[i].ind
      BY <1>0, <1>1, <1>2, <3>1 DEF Alike
    <3> QED BY <1>2, <3>2 DEF path
  <2>2. ASSUME NEW i \in Content(a), Parent(a, i) > 0, a[Parent(a, i)].kind = "key"
        PROVE  a[Parent(a, i)].val = ""
    <3> DEFINE p == Parent(a, i)
    <3>1. i \in 1..Len(t) /\ p = Parent(t, i)
      BY <1>0, <1>2
    <3>2. p \in 1..Len(t)
      <4>1. Parent(t, i) \in 0..i - 1
        BY <1>0, <3>1, ParentIsBefore
      <4> QED BY <1>0, <2>2, <3>1, <4>1
    <3>3. t[p].kind = "key" /\ t[p].val = ""
      <4>1. t[p].kind = "key"
        BY <1>0, <1>1, <2>2, <3>2 DEF Alike
      <4>2. Parent(t, i) > 0 /\ i \in Content(t)
        BY <1>2, <2>2, <3>1
      <4> QED BY <3>1, <4>1, <4>2 DEF IsYaml
    <3> HIDE DEF p
    <3>4. a[p] = t[p]
      BY <1>1, <3>2, <3>3 DEF Switched
    <3> QED BY <3>3, <3>4 DEF p
  <2>3. /\ \A x, y \in places(t) : x[1] = y[1] => x[2] = y[2]
        /\ \A x, y \in depths(t) : x[1] = y[1] => x[2] = y[2]
    BY DEF IsYaml
  <2>4. /\ \A x, y \in places(a) : x[1] = y[1] => x[2] = y[2]
        /\ \A x, y \in depths(a) : x[1] = y[1] => x[2] = y[2]
    <3> HIDE DEF places, depths
    <3> QED BY <2>1, <2>3
  <2> QED BY <2>2, <2>4 DEF IsYaml
<1>6. "true" \notin Value(a, <<"routing", "session-affinity">>)
  <2> DEFINE where == <<"routing", "session-affinity">>
  <2> SUFFICES ASSUME NEW m \in Meaning(a), m[1] = Place(where), m[3] = "true" PROVE FALSE
    BY DEF Value
  <2>1. PICK i \in Content(a) : m = <<path[i], a[i].name, a[i].val>>
    BY <1>2 DEF Meaning
  <2>2. path[i] = Place(where) /\ a[i].val = "true" /\ i \in Content(t) /\ i \in 1..Len(t)
    BY <1>0, <1>2, <2>1
  <2> HIDE DEF where
  <2>3. ~Switched(t, i) /\ a[i] = t[i]
    BY <1>1, <2>2
  <2>4. Switched(t, i)
    BY <2>2, <2>3, AffinityIsSeen DEF path, where
  <2> QED BY <2>3, <2>4
<1>7. Without(a, <<"routing">>) = Without(t, <<"routing">>)
  <2> DEFINE Line(u, i) == <<path[i], u[i].name, u[i].val>>
  <2>1. Meaning(a) = {Line(a, i) : i \in Content(t)} /\ Meaning(t) = {Line(t, i) : i \in Content(t)}
    BY <1>2 DEF Meaning, path
  <2>2. ASSUME NEW i \in Content(t), ~Below(path[i], <<"routing">>)
        PROVE  a[i] = t[i]
    BY <1>0, <1>1, <1>4, <2>2
  <2>3. ASSUME NEW m, m \in Without(a, <<"routing">>) PROVE m \in Without(t, <<"routing">>)
    <3>1. PICK i \in Content(t) : m = Line(a, i)
      BY <2>1, <2>3 DEF Without
    <3>2. ~Below(path[i], <<"routing">>)
      BY <2>3, <3>1 DEF Without
    <3>3. m = Line(t, i)
      BY <2>2, <3>1, <3>2
    <3>4. m \in Meaning(t) /\ ~Below(m[1], <<"routing">>)
      BY <2>1, <3>2, <3>3
    <3> QED BY <3>4 DEF Without
  <2>4. ASSUME NEW m, m \in Without(t, <<"routing">>) PROVE m \in Without(a, <<"routing">>)
    <3>1. PICK i \in Content(t) : m = Line(t, i)
      BY <2>1, <2>4 DEF Without
    <3>2. ~Below(path[i], <<"routing">>)
      BY <2>4, <3>1 DEF Without
    <3>3. m = Line(a, i)
      BY <2>2, <3>1, <3>2
    <3>4. m \in Meaning(a) /\ ~Below(m[1], <<"routing">>)
      BY <2>1, <3>2, <3>3
    <3> QED BY <3>4 DEF Without
  <2> QED BY <2>3, <2>4
<1>8. \A i \in 1..Len(t) : a[i] # t[i] => IsKey(t[i], "session-affinity") /\ Below(path[i], <<"routing">>)
  BY <1>1, <1>4
<1> QED BY <1>5, <1>6, <1>7, <1>8 DEF a, path
=============================================================================
