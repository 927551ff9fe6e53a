----------------------------- MODULE ConfigEdits -----------------------------
(***************************************************************************)
(* One configuration text of CLIProxyAPI and those who write it: deploys   *)
(* and hand runs of render-config.py, plugin-config.py, the affinity edit  *)
(* of quota-failover.py, and the proxy, which writes the whole file anew   *)
(* after an edit on its page and keeps or chooses the form of the content:  *)
(* lists at or below the depth of their key or in flow form, maps in flow   *)
(* form or indented by four, client keys under "access".                   *)
(***************************************************************************)
EXTENDS ConfigText

CONSTANTS
  KeyFiles,    \* the lists of keys the shared file may hold
  Secrets,     \* CLIPROXY_API_KEY, "" for none
  WebKeys,     \* the lists of keys users may leave on the page
  MaxEdits     \* bound on edits on the page

ConfigAssumption == MaxEdits \in Nat /\ "[]" \in DOMAIN FlowLists

VARIABLES text, edits
vars == <<text, edits>>

(* config.template.yaml, without the parts that no script looks at.        *)
Template ==
  <<Comment(0), KeyLine(0, "remote-management", ""), KeyLine(2, "secret-key", "__MANAGEMENT_KEY__"), Blank,
    Comment(0), KeyLine(0, "api-keys", ""), ItemLine(2, "", "__API_KEY__"), Blank,
    KeyLine(0, "chat-history", ""), KeyLine(2, "dsn", "__CHAT_HISTORY_DSN__"), Blank,
    Comment(0), KeyLine(0, "plugins", ""), KeyLine(2, "enabled", "true"), KeyLine(2, "configs", ""),
    KeyLine(4, "model-fallback-router", ""), KeyLine(6, "enabled", "true"),
    KeyLine(6, "fallback", ""), KeyLine(8, "enabled", "true"),
    Comment(4), KeyLine(4, PLUGIN, ""), Enabled, Blank,
    Comment(0), KeyLine(0, "routing", ""), KeyLine(2, "session-affinity", "false")>>

(* render-config.py's main: what it writes, or the text as it was if it     *)
(* exits before.                                                           *)
Render(mgmt, dsn, khoa) ==
  LET new == thay_api_keys(Filled(Template, mgmt, dsn), khoa)
  IN  IF khoa = <<>> \/ mgmt = "" \/ Left(new) THEN text ELSE new

(* --tu-config takes what is not in the environment from the old text.      *)
ByHand(khoa) ==
  Render(gia_tri_tu_config(text, "secret-key"), gia_tri_tu_config(text, "chat-history-dsn"), khoa)

Init == text = Filled(thay_api_keys(Template, <<"k1">>), "m", "d") /\ edits = 0

Deploy ==
  /\ \E f \in KeyFiles, s \in Secrets : text' = Render("m", "d", gop_khoa(f, s))
  /\ UNCHANGED edits
RunByHand == (\E f \in KeyFiles : text' = ByHand(gop_khoa(f, ""))) /\ UNCHANGED edits
MergePlugin == text' = merge(text) /\ UNCHANGED edits
StopAffinity == text' = set_session_affinity_false(text) /\ UNCHANGED edits

----------------------------------------------------------------------------
(* The proxy: a section of the text is written anew.                       *)
Under(t, names) ==
  {i \in Content(t) : LET k == Greatest({j \in 1..i : t[j].kind = "key" /\ t[j].ind = 0})
                      IN  k > 0 /\ t[k].name \in names}
Rewrite(t, names, new) ==
  IF Under(t, names) = {} THEN t \o new
  ELSE SubSeq(t, 1, Least(Under(t, names), 0) - 1) \o new \o SubSeq(t, Greatest(Under(t, names)) + 1, Len(t))

Listed(ind, at, keys) ==
  <<KeyLine(ind, "api-keys", "")>> \o [k \in DOMAIN keys |-> ItemLine(at, "", keys[k])]
Flow(ind, keys) == {<<KeyLine(ind, "api-keys", v)>> : v \in {w \in DOMAIN FlowLists : FlowLists[w] = keys}}
Provider == <<KeyLine(0, "api-keys", ""), ItemLine(0, "name", "claude"), KeyLine(2, "api-key", "p1")>>

KeyForms(keys) ==
  IF keys = <<>> THEN Flow(0, keys) \cup {<<KeyLine(0, "access", "")>> \o f \o Provider : f \in Flow(2, keys)}
  ELSE {Listed(0, 0, keys), Listed(0, 2, keys)} \cup Flow(0, keys)
       \cup {<<KeyLine(0, "access", "")>> \o f \o Provider : f \in {Listed(2, 4, keys)} \cup Flow(2, keys)}

Router == <<KeyLine(4, "model-fallback-router", ""), KeyLine(6, "enabled", "true"), KeyLine(6, "session-affinity", "true")>>
Plugins(below) == <<KeyLine(0, "plugins", ""), KeyLine(2, "enabled", "false")>> \o below
Configs(below) == Plugins(<<KeyLine(2, "configs", "")>> \o below)
ByFour == <<KeyLine(0, "plugins", ""), KeyLine(4, "enabled", "true"), KeyLine(4, "configs", ""),
            KeyLine(8, PLUGIN, ""), KeyLine(12, "enabled", "false")>>
PluginForms ==
  {<<>>, Plugins(<<>>), Configs(Router),
   Configs(Router \o <<KeyLine(4, PLUGIN, ""), KeyLine(6, "enabled", "false")>>),
   Configs(<<KeyLine(4, PLUGIN, ""), Comment(4), KeyLine(6, "priority", "1")>> \o Router),
   \* forms merge does not recognise: a map in flow form, another depth, another word
   <<KeyLine(0, "plugins", "{}")>>, Plugins(<<KeyLine(2, "configs", "{}")>>), Configs(<<KeyLine(4, PLUGIN, "{}")>>),
   ByFour, Configs(<<KeyLine(4, PLUGIN, ""), KeyLine(6, "enabled", "yes")>>)}

RoutingForms ==
  {<<>>} \cup {<<KeyLine(0, "routing", ""), KeyLine(2, "session-affinity", v)>> : v \in {"true", "false"}}

Web(names, forms) ==
  /\ edits < MaxEdits /\ edits' = edits + 1
  /\ \E f \in forms : text' = Rewrite(text, names, f)

Edit ==
  /\ IsYaml(text) = TRUE     \* the proxy loads no other
  /\ \/ \E k \in WebKeys : Web({"access", "api-keys"}, KeyForms(k))
     \/ Web({"plugins"}, PluginForms)
     \/ Web({"routing"}, RoutingForms)

Next == Deploy \/ RunByHand \/ MergePlugin \/ StopAffinity \/ Edit
Spec == Init /\ [][Next]_vars

----------------------------------------------------------------------------
(* The form merge knows, which it writes itself and the template has: what  *)
(* is below plugins is indented by two, down to the switch, and the lines   *)
(* to the switch are blocks.                                               *)
Recognised(t) ==
  LET path == Paths(t)
  IN  \A i \in Content(t) : Below(path[i], <<"plugins">>) /\ Len(path[i]) <= Len(Switch) =>
        /\ t[i].ind = 2 * (Len(path[i]) - 1)
        /\ path[i] = Place(Switch) => t[i].val \in {"true", "false"}
        /\ \A n \in 1..Len(Switch) - 1 : path[i] = Place(SubSeq(Switch, 1, n)) => t[i].val = ""

TurnedOn(m) == IsYaml(m) /\ Value(m, Switch) = {"true"}

(* plugin-config.py, given a configuration in the form it knows, leaves one *)
(* in which the plugin's own switch is on and everything else means what it *)
(* did, the switch of all plugins too; and running it twice is running it   *)
(* once, in any form (plugin-config.py:39-70, "Script chi sua dung khoi     *)
(* plugins.configs, khong dung toi khoa/auth khac" l.5).                    *)
MergeIsTrue ==
  LET m == merge(text)
  IN  /\ merge(m) = m
      /\ IsYaml(text) /\ Recognised(text) =>
           /\ TurnedOn(m)
           /\ \A x \in Meaning(text) : x \in Meaning(m) \/ Below(x[1], Switch)
           /\ \A x \in Meaning(m) : x \in Meaning(text) \/ Below(x[1], <<"plugins">>)

(* Not so: in every form.  What is in flow form, at another depth or in     *)
(* another word is not found (plugin-config.py:24), and comes twice.        *)
MergeAlwaysTurnsOn == IsYaml(text) => TurnedOn(merge(text))

(* "Bat plugin deepseek-web-go" (plugin-config.py:2) is not so either when  *)
(* all plugins are off: only a block that merge makes has them on (l.45).   *)
PluginsAreOn ==
  IsYaml(text) /\ Recognised(text) => Value(merge(text), <<"plugins", "enabled">>) = {"true"}

(* quota-failover.py's edit turns affinity off and keeps every other        *)
(* setting, one of the same name elsewhere too (quota-failover.py:113-127   *)
(* "giu nguyen moi dong khac").                                             *)
AffinityIsTrue ==
  LET a == set_session_affinity_false(text)  where == <<"routing", "session-affinity">>
  IN  /\ IsYaml(text) => IsYaml(a)
      /\ "true" \notin Value(a, where)
      /\ Without(a, where) = Without(text, where)

(* The keys pgstore-keys.py reads are the client keys YAML sees, in order,  *)
(* each once, as a block, in flow form or under access, and no entry of a   *)
(* provider nor an empty one (pgstore-keys.py:84-131).                      *)
ClientKeys ==
  LET path == Paths(text)
      place == {Place(<<"api-keys">>), Place(<<"access", "api-keys">>)}
      flow(i) == _is_content(text[i]) /\ path[i] \in place /\ IsFlow(text[i].val)
      item(i) == text[i].kind = "item" /\ text[i].name = "" /\ path[Parent(text, i)] \in place
      lines == SelectSeq([i \in DOMAIN text |-> i], LAMBDA i : flow(i) \/ item(i))
  IN  FlattenSeq([n \in DOMAIN lines |-> IF item(lines[n]) THEN <<text[lines[n]].val>> ELSE FlowLists[text[lines[n]].val]])
KeysAreFound ==
  LET first == {i \in DOMAIN ClientKeys : ClientKeys[i] \notin {""} \cup {ClientKeys[j] : j \in 1..i - 1}}
      keys == keys_from_text(text)
  IN  /\ Len(keys) = Cardinality(first)
      /\ \A i \in first : keys[Cardinality({j \in first : j <= i})] = ClientKeys[i]

(* A render by hand, without the secrets, gives a configuration with every  *)
(* key of the shared file and the management key the old one had, and one   *)
(* with the secret adds to the file's keys (render-config.py:100-142).      *)
RenderIsTrue ==
  \A f \in KeyFiles, s \in Secrets :
    LET new == Render(gia_tri_tu_config(text, "secret-key"), "d", gop_khoa(f, s))
    IN  f # <<>> => /\ IsYaml(new) /\ ToSet(keys_from_text(new)) = ToSet(f) \cup ({s} \ {""})
                    /\ Value(new, <<"remote-management", "secret-key">>) = Value(text, <<"remote-management", "secret-key">>)

(* "Chay tay tren server: lay lai gia tri cu thay vi doi nguoi dung dat     *)
(* secret" (render-config.py:119): the chat history keeps its database.     *)
HandKeepsDsn ==
  [][RunByHand => Value(text', <<"chat-history", "dsn">>) = Value(text, <<"chat-history", "dsn">>)]_vars
=============================================================================
