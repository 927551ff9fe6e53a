---------------------------- MODULE QuotaFailover ----------------------------
(***************************************************************************)
(* cliproxy/quota-failover.py: a run patches the account files of two      *)
(* e-mail addresses, puts four settings one by one, and takes the whole    *)
(* configuration, edits the affinity line and puts it back, all through    *)
(* the management API of a proxy that users edit meanwhile.  Any call may  *)
(* fail, or take effect and lose its answer; the management key may have   *)
(* been changed, and the proxy bans an address after five wrong ones.      *)
(*                                                                         *)
(* A setting is TRUE when it is as the script wants it.                    *)
(***************************************************************************)
EXTENDS Integers, Sequences, FiniteSets, SequencesExt

CONSTANTS
  Files, Email,     \* account files, and the e-mail address of each
  Claude,           \* those of the provider claude, or of none
  Targets,          \* the two addresses
  MaxEdits          \* bound on what users change

FailoverAssumption ==
  MaxEdits \in Nat /\ IsFiniteSet(Files) /\ Claude \subseteq Files /\ Cardinality(Targets) = 2

VARIABLES
  files, settings,  \* the proxy's: account files, and the configuration
  keyok, edits,     \* the script's key is right; what users changed
  pc, list, at,     \* phase of the run, files left to patch, next call
  seen, config,     \* addresses patched, and the configuration as read
  touched, wrong    \* history of the run: what users changed, wrong keys sent

proxy == <<files, settings, keyok, edits>>
vars == <<proxy, pc, list, at, seen, config, touched, wrong>>

RETRY_SETTINGS == {"max-retry-interval", "max-retry-credentials"}
WantedSettings == RETRY_SETTINGS \cup {"switch-project", "switch-preview-model", "session-affinity"}
Settings == WantedSettings \cup {"other"}
FileState == [there : BOOLEAN, priority : BOOLEAN, disabled : BOOLEAN]
Nothing == [k \in {} |-> TRUE]

TypeOK ==
  /\ files \in [Files -> FileState] /\ settings \in [Settings -> BOOLEAN]
  /\ keyok \in BOOLEAN /\ edits \in 0..MaxEdits
  /\ pc \in {"idle", "list", "patch", "enable", "settings", "green", "red"}
  /\ \A k \in DOMAIN list : list[k].name \in Files /\ list[k].disabled \in BOOLEAN
  /\ seen \subseteq Targets /\ config \in {Nothing} \cup [Settings -> BOOLEAN]
  /\ touched \subseteq Settings \cup Files /\ wrong \in Nat

Init ==
  /\ files \in [Files -> {[there |-> TRUE, priority |-> FALSE, disabled |-> d] : d \in BOOLEAN}]
  /\ settings = [k \in Settings |-> FALSE] /\ keyok \in BOOLEAN /\ edits = 0
  /\ pc = "idle" /\ list = <<>> /\ at = 1 /\ seen = {} /\ config = Nothing /\ touched = {} /\ wrong = 0

----------------------------------------------------------------------------
(* The calls of main after the account files, in their order.              *)
Retry(key) == <<[call |-> "read", key |-> key], [call |-> "put", key |-> key], [call |-> "verify", key |-> key]>>
Switches == <<[call |-> "put", key |-> "switch-project"], [call |-> "put", key |-> "switch-preview-model"]>>
AffinityCalls == <<[call |-> "get", key |-> "config"], [call |-> "replace", key |-> "config"]>>

(* mutant: the configuration is read before the settings are put *)
CallsReadFirst ==
  <<AffinityCalls[1]>> \o Switches \o Retry("max-retry-interval") \o Retry("max-retry-credentials") \o <<AffinityCalls[2]>>

Calls == Switches \o Retry("max-retry-interval") \o Retry("max-retry-credentials") \o AffinityCalls

Locals(l, a, s, c) == list' = l /\ at' = a /\ seen' = s /\ config' = c
End(result) == pc' = result /\ Locals(<<>>, 1, {}, Nothing)

(* mutant: a refused call is made again *)
RefusedAgain == ~keyok /\ wrong < 9 /\ wrong' = wrong + 1 /\ UNCHANGED <<proxy, pc, list, at, seen, config>>

(* must: a wrong key, as any other refusal, ends the run.                   *)
Refused == ~keyok /\ wrong' = wrong + 1 /\ End("red") /\ UNCHANGED proxy

Fails == keyok /\ End("red") /\ UNCHANGED <<proxy, wrong>>

(* The call has its effect; its answer arrives, and the run goes on, or     *)
(* does not.                                                               *)
Answered(next) == keyok /\ (next \/ End("red")) /\ UNCHANGED <<keyok, edits, wrong>>

Start ==
  /\ pc \in {"idle", "green", "red"}
  /\ pc' = "list" /\ Locals(<<>>, 1, {}, Nothing) /\ touched' = {} /\ wrong' = 0
  /\ UNCHANGED proxy

(* mutant: the accounts of every address *)
WantsAny(f) == files[f].there /\ f \in Claude

Wants(f) == files[f].there /\ f \in Claude /\ Email[f] \in Targets

List ==
  /\ pc = "list" /\ UNCHANGED touched
  /\ \/ Refused \/ Fails
     \/ /\ Answered(pc' = "patch" /\ Locals(SetToSeq({[name |-> f, disabled |-> files[f].disabled] : f \in {g \in Files : Wants(g)}}), 1, {}, Nothing))
        /\ UNCHANGED <<files, settings>>

(* A file that is gone is refused.  The listing says which to enable.       *)
Patch ==
  /\ pc = "patch" /\ list # <<>> /\ UNCHANGED touched
  /\ LET f == Head(list).name
     IN  \/ Refused \/ Fails
         \/ /\ files[f].there /\ files' = [files EXCEPT ![f].priority = TRUE] /\ UNCHANGED settings
            /\ Answered(IF Head(list).disabled THEN pc' = "enable" /\ Locals(list, at, seen, config)
                        ELSE pc' = "patch" /\ Locals(Tail(list), at, seen \cup {Email[f]}, config))

Enable ==
  /\ pc = "enable" /\ UNCHANGED touched
  /\ LET f == Head(list).name
     IN  \/ Refused \/ Fails
         \/ /\ files[f].there /\ files' = [files EXCEPT ![f].disabled = FALSE] /\ UNCHANGED settings
            /\ Answered(pc' = "patch" /\ Locals(Tail(list), at, seen \cup {Email[f]}, config))

(* mutant: one of the two addresses is enough *)
AnyTarget ==
  /\ pc = "patch" /\ list = <<>>
  /\ IF seen # {} THEN pc' = "settings" /\ Locals(list, at, seen, config) ELSE End("red")
  /\ UNCHANGED <<proxy, touched, wrong>>

(* Only after the patches is an address without a file noticed.            *)
Missing ==
  /\ pc = "patch" /\ list = <<>>
  /\ IF seen = Targets THEN pc' = "settings" /\ Locals(list, at, seen, config) ELSE End("red")
  /\ UNCHANGED <<proxy, touched, wrong>>

Go(c) ==
  IF at = Len(Calls) THEN End("green") ELSE pc' = "settings" /\ Locals(list, at + 1, seen, c)

Put ==
  /\ pc = "settings" /\ Calls[at].call = "put" /\ UNCHANGED touched
  /\ \/ Refused \/ Fails
     \/ settings' = [settings EXCEPT ![Calls[at].key] = TRUE] /\ UNCHANGED files /\ Answered(Go(config))

(* read_int_setting: any HTTP status but success, 401 too, reads as None,   *)
(* and None is not compared; no answer at all ends the run.                 *)
Read ==
  /\ pc = "settings" /\ Calls[at].call \in {"read", "verify"} /\ UNCHANGED <<proxy, touched>>
  /\ \/ wrong' = (IF keyok THEN wrong ELSE wrong + 1) /\ Go(config)
     \/ keyok /\ Calls[at].call = "verify" /\ ~settings[Calls[at].key] /\ End("red") /\ UNCHANGED wrong
     \/ keyok /\ End("red") /\ UNCHANGED wrong

GetConfig ==
  /\ pc = "settings" /\ Calls[at].call = "get" /\ UNCHANGED touched
  /\ \/ Refused \/ Fails
     \/ Answered(Go(settings)) /\ UNCHANGED <<files, settings>>

(* The whole configuration as it was read, with one line changed; nothing   *)
(* is put if that line was right.                                          *)
PutConfig ==
  /\ pc = "settings" /\ Calls[at].call = "replace" /\ UNCHANGED touched
  /\ IF config["session-affinity"] THEN End("green") /\ UNCHANGED <<proxy, wrong>>
     ELSE \/ Refused \/ Fails
          \/ settings' = [config EXCEPT !["session-affinity"] = TRUE] /\ UNCHANGED files /\ Answered(Go(config))

----------------------------------------------------------------------------
(* Users of the management page.                                           *)
Web(what) ==
  /\ edits < MaxEdits /\ edits' = edits + 1 /\ touched' = touched \cup what
  /\ UNCHANGED <<pc, list, at, seen, config, wrong>>

WebSetting(k) == settings' = [settings EXCEPT ![k] = ~@] /\ Web({k}) /\ UNCHANGED <<files, keyok>>
WebFile(f) ==
  /\ files' \in {[files EXCEPT ![f] = new] : new \in FileState \ {files[f]}}
  /\ Web({f}) /\ UNCHANGED <<settings, keyok>>

(* The management key is changed under a run; the secret of the workflow,   *)
(* which a run reads once, is put right between runs.                      *)
WebKey ==
  /\ keyok' = ~keyok /\ (keyok \/ pc \in {"idle", "green", "red"})
  /\ Web({}) /\ UNCHANGED <<files, settings>>

Script == Start \/ List \/ Patch \/ Enable \/ Missing \/ Put \/ Read \/ GetConfig \/ PutConfig
User == WebKey \/ (\E k \in Settings : WebSetting(k)) \/ (\E f \in Files : WebFile(f))
Next == Script \/ User
Spec == Init /\ [][Next]_vars

----------------------------------------------------------------------------
(* A run that ends well has left every setting and every account of the two *)
(* addresses as it should be, but for what users have touched since it      *)
(* began, and both addresses have one (quota-failover.py:130-173).          *)
GreenMeansSet ==
  pc = "green" =>
    /\ \A k \in WantedSettings \ touched : settings[k]
    /\ \A f \in Files \ touched : Wants(f) => files[f].priority /\ ~files[f].disabled
    /\ \A e \in Targets : \E f \in Claude : Email[f] = e /\ (files[f].there \/ f \in touched)

(* quota-failover.py:62 "KHONG thu lai: sai key 5 lan la IP runner bi ban   *)
(* 30 phut": no run sends five wrong keys, though reading a setting does    *)
(* not stop at a refusal.                                                   *)
NeverBanned == wrong < 5

(* What the script is for (quota-failover.py:15-19, "giu nguyen moi dong    *)
(* khac" l.114): its steps change no other setting.                         *)
OnlyItsSettings == [][edits' = edits => settings'["other"] = settings["other"]]_vars
=============================================================================
