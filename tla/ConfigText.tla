----------------------------- MODULE ConfigText -----------------------------
(***************************************************************************)
(* CLIProxyAPI's configuration is YAML, and the scripts of cliproxy/ edit  *)
(* and read it line by line, without a YAML library.  A text here is a     *)
(* sequence of lines [kind, ind, name, val]: a key with its value ("" if   *)
(* a block follows), an item of a list (with a name if it is a mapping), a *)
(* blank line or a comment, at an indentation.  The last part says what    *)
(* YAML means by such a text, and is what the scripts are compared with.   *)
(***************************************************************************)
EXTENDS Integers, Sequences, FiniteSets, SequencesExt

CONSTANT FlowLists   \* the items of each value that is a list in flow form, [...]

KeyLine(ind, name, val) == [kind |-> "key", ind |-> ind, name |-> name, val |-> val]
ItemLine(ind, name, val) == [kind |-> "item", ind |-> ind, name |-> name, val |-> val]
Blank == [kind |-> "blank", ind |-> 0, name |-> "", val |-> ""]
Comment(ind) == [Blank EXCEPT !.kind = "comment", !.ind = ind]

_is_content(l) == l.kind \in {"key", "item"}
IsKey(l, name) == l.kind = "key" /\ l.name = name

Least(S, default) == IF S = {} THEN default ELSE CHOOSE i \in S : \A j \in S : i <= j
Greatest(S) == IF S = {} THEN 0 ELSE CHOOSE i \in S : \A j \in S : j <= i

Insert(t, i, new) == SubSeq(t, 1, i - 1) \o new \o SubSeq(t, i, Len(t))

----------------------------------------------------------------------------
(* plugin-config.py                                                        *)
PLUGIN == "deepseek-web-go"

_find(t, start, end, name, val, ind) ==
  Least({i \in start..(end - 1) : IsKey(t[i], name) /\ t[i].val = val /\ t[i].ind = ind}, 0)

_block_end(t, start, ind) ==
  Least({i \in start..Len(t) : _is_content(t[i]) /\ t[i].ind <= ind}, Len(t) + 1)

Enabled == KeyLine(6, "enabled", "true")
PluginBlock == <<KeyLine(4, PLUGIN, ""), Enabled>>
ConfigsBlock == <<KeyLine(2, "configs", "")>> \o PluginBlock

(* mutant: a line that disables the plugin stays *)
EnableTwice(t, plugin) ==
  IF _find(t, plugin + 1, _block_end(t, plugin + 1, 4), "enabled", "true", 6) > 0 THEN t
  ELSE Insert(t, plugin + 1, <<Enabled>>)

EnablePlugin(t, plugin) ==
  LET end == _block_end(t, plugin + 1, 4)
      off == _find(t, plugin + 1, end, "enabled", "false", 6)
  IN  IF _find(t, plugin + 1, end, "enabled", "true", 6) > 0 THEN t
      ELSE IF off > 0 THEN [t EXCEPT ![off] = Enabled]
      ELSE Insert(t, plugin + 1, <<Enabled>>)

merge(t) ==
  LET plugins == _find(t, 1, Len(t) + 1, "plugins", "", 0)
      plugins_end == _block_end(t, plugins + 1, 0)
      configs == _find(t, plugins + 1, plugins_end, "configs", "", 2)
      configs_end == _block_end(t, configs + 1, 2)
      plugin == _find(t, configs + 1, configs_end, PLUGIN, "", 4)
  IN  IF plugins = 0
      THEN t \o (IF t # <<>> /\ Last(t) # Blank THEN <<Blank>> ELSE <<>>)
             \o <<KeyLine(0, "plugins", ""), KeyLine(2, "enabled", "true")>> \o ConfigsBlock
      ELSE IF configs = 0 THEN Insert(t, plugins_end, ConfigsBlock)
      ELSE IF plugin > 0 THEN EnablePlugin(t, plugin)
      ELSE Insert(t, configs_end, PluginBlock)

----------------------------------------------------------------------------
(* quota-failover.py: only in the block of a key at the margin.            *)
Section(t, i) == Greatest({j \in 1..i : _is_content(t[j]) /\ t[j].ind = 0})

(* mutant: wherever the key is *)
affinity_anywhere(t) ==
  [i \in DOMAIN t |-> IF IsKey(t[i], "session-affinity") /\ t[i].val = "true" THEN [t[i] EXCEPT !.val = "false"] ELSE t[i]]

set_session_affinity_false(t) ==
  [i \in DOMAIN t |->
     IF /\ IsKey(t[i], "session-affinity") /\ t[i].val = "true" /\ t[i].ind > 0
        /\ Section(t, i) > 0 /\ IsKey(t[Section(t, i)], "routing")
     THEN [t[i] EXCEPT !.val = "false"] ELSE t[i]]

----------------------------------------------------------------------------
(* render-config.py                                                        *)
(* mutant: the secret stands for the file *)
gop_secret_only(khoa_file, khoa_secret) == IF khoa_secret = "" THEN khoa_file ELSE <<khoa_secret>>

NoRepeats(keys) == FoldLeft(LAMBDA out, k : IF k = "" \/ k \in ToSet(out) THEN out ELSE Append(out, k), <<>>, keys)

gop_khoa(khoa_file, khoa_secret) == NoRepeats(Append(khoa_file, khoa_secret))

khoi_api_keys(khoa) == <<KeyLine(0, "api-keys", "")>> \o [k \in DOMAIN khoa |-> ItemLine(2, "", khoa[k])]

(* Items, and blank lines unless another key follows them.                  *)
OldKeys(t, j) ==
  \/ t[j].kind = "item"
  \/ /\ t[j] = Blank
     /\ LET next == Least({k \in j + 1..Len(t) : t[k] # Blank}, 0) IN next = 0 \/ t[next].kind = "item"

thay_api_keys(t, khoa) ==
  LET i == Least({j \in DOMAIN t : IsKey(t[j], "api-keys") /\ t[j].ind = 0}, 0)
      end == Least({j \in i + 1..Len(t) : ~OldKeys(t, j)}, Len(t) + 1)
  IN  SubSeq(t, 1, i - 1) \o khoi_api_keys(khoa) \o SubSeq(t, end, Len(t))

gia_tri_tu_config(t, name) ==
  LET i == Least({j \in DOMAIN t : IsKey(t[j], name)}, 0) IN IF i = 0 THEN "" ELSE t[i].val

Placeholders == {"__API_KEY__", "__MANAGEMENT_KEY__", "__CHAT_HISTORY_DSN__"}
Filled(t, mgmt, dsn) ==
  [i \in DOMAIN t |-> CASE t[i].val = "__MANAGEMENT_KEY__" -> [t[i] EXCEPT !.val = mgmt]
                        [] t[i].val = "__CHAT_HISTORY_DSN__" -> [t[i] EXCEPT !.val = dsn]
                        [] OTHER -> t[i]]
Left(t) == \E i \in DOMAIN t : _is_content(t[i]) /\ t[i].val \in Placeholders

----------------------------------------------------------------------------
(* pgstore-keys.py                                                         *)
ClientKeysAt(t, i) ==
  /\ IsKey(t[i], "api-keys")
  /\ t[i].ind > 0 => Section(t, i) > 0 /\ IsKey(t[Section(t, i)], "access")

ItemsOf(t, i) ==
  LET end == Least({j \in i + 1..Len(t) : /\ _is_content(t[j])
                                          /\ \/ t[j].ind < t[i].ind
                                             \/ t[j].ind = t[i].ind /\ t[j].kind # "item"}, Len(t) + 1)
  IN  SelectSeq(SubSeq(t, i + 1, end - 1), LAMBDA l : l.kind = "item" /\ l.ind <= t[i].ind + 2)

(* mutant: the entries of providers are taken for keys *)
scalar_any(l) == TRUE
_scalar(l) == l.name = ""

(* mutant: only the empty list is known in flow form *)
flow_unread(v) == IF v = "[]" THEN <<>> ELSE <<"">>

_flow_list(v) == FlowLists[v]
IsFlow(v) == v \in DOMAIN FlowLists

KeysAt(t, i) ==
  IF IsFlow(t[i].val) THEN _flow_list(t[i].val)
  ELSE LET items == SelectSeq(ItemsOf(t, i), _scalar) IN [k \in DOMAIN items |-> items[k].val]

(* All keys there are, as often as they stand there; mutant: this is all *)
found(t) ==
  LET places == SelectSeq([i \in DOMAIN t |-> i], LAMBDA i : ClientKeysAt(t, i))
  IN  FlattenSeq([n \in DOMAIN places |-> KeysAt(t, places[n])])

keys_from_text(t) == NoRepeats(found(t))

(* The keys of the image's example, and placeholders, are never kept.       *)
extract(t, KHOA_MAU) == SelectSeq(keys_from_text(t), LAMBDA k : k \notin KHOA_MAU \cup Placeholders)

----------------------------------------------------------------------------
(* What YAML says: the parent of a line is the nearest one above that is    *)
(* less deep, where the items of a list may be as deep as its key.          *)
Parent(t, i) ==
  Greatest({j \in 1..i - 1 : /\ _is_content(t[j])
                             /\ IF t[i].kind = "item" THEN t[j].kind = "key" /\ t[j].ind <= t[i].ind
                                ELSE t[j].ind < t[i].ind})

Step(t, i) ==
  IF t[i].kind = "key" THEN t[i].name
  ELSE Cardinality({j \in 1..i : t[j].kind = "item" /\ Parent(t, j) = Parent(t, i)})

Paths(t) ==
  LET path[i \in 0..Len(t)] == IF i = 0 THEN <<>> ELSE Append(path[Parent(t, i)], <<t[i].kind, Step(t, i)>>)
  IN  path

Content(t) == {i \in DOMAIN t : _is_content(t[i])}
Meaning(t) == LET path == Paths(t) IN {<<path[i], t[i].name, t[i].val>> : i \in Content(t)}

(* No key twice, nothing below a value, and what has one parent has one     *)
(* indentation.                                                            *)
IsYaml(t) ==
  LET path == Paths(t)
      places == {<<path[i], i>> : i \in Content(t)}
      depths == {<<Parent(t, i), t[i].ind>> : i \in Content(t)}
  IN  /\ \A x, y \in places : x[1] = y[1] => x[2] = y[2]
      /\ \A x, y \in depths : x[1] = y[1] => x[2] = y[2]
      /\ \A i \in Content(t) : Parent(t, i) > 0 /\ t[Parent(t, i)].kind = "key" => t[Parent(t, i)].val = ""

(* Where the plugin is switched on.                                         *)
Switch == <<"plugins", "configs", PLUGIN, "enabled">>

Place(names) == [k \in DOMAIN names |-> <<"key", names[k]>>]
Value(t, names) == {m[3] : m \in {x \in Meaning(t) : x[1] = Place(names)}}
Below(path, names) == Len(path) >= Len(names) /\ SubSeq(path, 1, Len(names)) = Place(names)
Without(t, names) == {m \in Meaning(t) : ~Below(m[1], names)}
=============================================================================
