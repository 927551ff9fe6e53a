------------------------------ MODULE Collector ------------------------------
(***************************************************************************)
(* The collector of node-dedup/dedup.py and the reporters of               *)
(* ping-reporter/reporter.py that post to it.  A reporter reads who is     *)
(* online and which address the collector has, pings for a while, and      *)
(* posts its samples once.  The poll of node-dedup, the source SRC_NAME,   *)
(* does the same with its own list and stores by itself.  All threads of   *)
(* the service share one SQLite connection under a lock: what one leaves   *)
(* in an open transaction the next one commits.  Headscale may hold an     *)
(* offline collector node beside the new one.                              *)
(*                                                                         *)
(* A Tick is the least time between two polls of a process.  Rows older    *)
(* than Window are in no answer and are forgotten; the table keeps them.   *)
(***************************************************************************)
EXTENDS Latency

CONSTANTS
  Reporters,    \* REPORTER_NAME of each
  Peers, Host,  \* the nodes besides the collector, and the host name of each
  PingResults,  \* what LocalAPI may answer to the ping of an online node
  Addrs, First, \* the addresses a collector node may get, and that of the first
  Expected,     \* the sources a health check asks for; none for no checks
  MaxChanges    \* bound on changes and failures around the processes

ASSUME CollectorAssumption ==
  /\ MaxChanges \in Nat /\ SRC_NAME \notin Reporters /\ IsFiniteSet(Peers) /\ First \in Addrs
  /\ Expected \subseteq Reporters \cup {SRC_NAME}

VARIABLES
  up,                      \* external: the peers that are online
  nodes, home,             \* external: the collector's nodes, and where it listens now
  changes,
  running,                 \* the service runs
  rows, open,              \* committed samples, and those of an open transaction
  pc, peers, to, samples,  \* of each reporter and of the poll
  health, found,           \* a health check, and what it has read: the source and age of rows
  acked                    \* history: the samples answered with 200

world == <<up, nodes, home, changes>>
proc == <<pc, peers, to, samples>>
vars == <<world, running, rows, open, proc, health, found, acked>>

Sources == Reporters \cup {SRC_NAME}
Visible == rows \o open
Failed == [answered |-> FALSE, endpoint |-> FALSE, derp |-> ""]
Row == [age : 0..Window, src : Sources, dst : {Host[p] : p \in Peers},
        path : {parse_pingresult(pr) : pr \in PingResults \cup {Failed}}]

TypeOK ==
  /\ up \subseteq Peers /\ nodes \in [Addrs -> {"none", "online", "offline"}] /\ home \in Addrs
  /\ changes \in 0..MaxChanges /\ running \in BOOLEAN
  /\ rows \in Seq(Row) /\ open \in Seq(Row) /\ acked \subseteq Row
  /\ pc \in [Sources -> {"idle", "ping", "post", "sleep"}] /\ peers \in [Sources -> SUBSET Peers]
  /\ to \in [Reporters -> Addrs \cup {"nobody"}]
  /\ samples \in [Sources -> Seq(Row)]
  /\ \A s \in Sources : pc[s] = "post" <=> samples[s] # <<>>
  /\ health \in {"idle", "read", "ok", "stale"}

(* An earlier deployment may have left its node behind.                     *)
Init ==
  /\ up \in SUBSET Peers /\ home = First /\ changes = 0
  /\ nodes \in [Addrs -> {"none", "online", "offline"}] /\ {home} = {a \in Addrs : nodes[a] = "online"}
  /\ running = TRUE /\ rows = <<>> /\ open = <<>>
  /\ pc = [s \in Sources |-> "idle"] /\ peers = [s \in Sources |-> {}]
  /\ to = [r \in Reporters |-> "nobody"] /\ samples = [s \in Sources |-> <<>>]
  /\ health = "idle" /\ found = {} /\ acked = {}

----------------------------------------------------------------------------
(* mutant: the list of samples is not begun anew *)
SleepHolding(s) ==
  /\ pc' = [pc EXCEPT ![s] = "sleep"] /\ peers' = [peers EXCEPT ![s] = {}]
  /\ to' = IF s \in Reporters THEN [to EXCEPT ![s] = "nobody"] ELSE to
  /\ UNCHANGED samples

(* A cycle ends in a sleep, which a Tick ends.                             *)
Sleep(s) ==
  /\ pc' = [pc EXCEPT ![s] = "sleep"] /\ peers' = [peers EXCEPT ![s] = {}]
  /\ samples' = [samples EXCEPT ![s] = <<>>]
  /\ to' = IF s \in Reporters THEN [to EXCEPT ![s] = "nobody"] ELSE to

(* Something around the processes happens.                                 *)
Budget == changes < MaxChanges /\ changes' = changes + 1

Are(st) == {a \in Addrs : nodes[a] = st}

(* mutant: a collector node, online or not *)
AnyCollector == Are("online") \cup Are("offline")

(* The peers come in any order: of several online collectors the last is    *)
(* taken, and of several offline ones, if none is online, the first.        *)
Collectors == IF Are("online") # {} THEN Are("online") ELSE Are("offline")

ReadStatus(r) ==
  /\ pc[r] = "idle"
  /\ \/ /\ Collectors = {} \/ up = {}
        /\ Sleep(r)
     \/ /\ up # {}
        /\ \E a \in Collectors : to' = [to EXCEPT ![r] = a]
        /\ pc' = [pc EXCEPT ![r] = "ping"] /\ peers' = [peers EXCEPT ![r] = up]
        /\ UNCHANGED samples
  /\ UNCHANGED <<world, running, rows, open, health, found, acked>>

(* One after the other, for seconds each.                                  *)
Ping(s) ==
  /\ pc[s] = "ping" /\ (s = SRC_NAME => running)
  /\ UNCHANGED <<world, running, rows, open, to, health, found, acked>>
  /\ pc' = [pc EXCEPT ![s] = "post"] /\ peers' = [peers EXCEPT ![s] = {}]
  /\ \E pr \in [peers[s] -> PingResults \cup {Failed}] :
       /\ \A p \in peers[s] \ up : pr[p] = Failed
       /\ samples' = [samples EXCEPT ![s] =
            LET order == SetToSeq(peers[s])
            IN  [k \in DOMAIN order |-> [age |-> 0, src |-> s, dst |-> Host[order[k]],
                                         path |-> parse_pingresult(pr[order[k]])]]]

(* mutant: nothing is committed *)
InsertOnly(new) == open' = open \o new /\ UNCHANGED rows

(* Under the lock: all statements and the commit, which takes along what a  *)
(* failed writer left.                                                      *)
Insert(new) == rows' = rows \o open \o new /\ open' = <<>>

(* A statement or the commit fails: the rows before it stay in the open     *)
(* transaction, and the exception leaves the lock.                          *)
InsertRaises(new) ==
  /\ Budget /\ \E k \in 0..Len(new) : open' = open \o SubSeq(new, 1, k)
  /\ UNCHANGED <<rows, up, nodes, home>>

(* mutant: a post without an answer is made again *)
PostAgain(r) ==
  /\ pc[r] = "post" /\ running /\ to[r] = home /\ Insert(samples[r])
  /\ \/ acked' = acked \cup ToSet(samples[r]) /\ Sleep(r)
     \/ UNCHANGED <<acked, proc>>
  /\ UNCHANGED <<world, running, health, found>>

(* A sample without a host name is dropped.                                *)
validate_report(report) == Only(report, {x \in ToSet(report) : x.dst # ""})

(* post_to_collector and do_POST.  The answer may be lost.                  *)
Post(r) ==
  /\ pc[r] = "post" /\ running /\ to[r] = home
  /\ Sleep(r) /\ UNCHANGED <<running, health, found>>
  /\ LET report == validate_report(samples[r])
     IN  \/ /\ Insert(report) /\ UNCHANGED world
            /\ acked' \in {acked, acked \cup ToSet(report)}
         \/ InsertRaises(report) /\ UNCHANGED acked

(* Nobody answers there.                                                    *)
PostFails(r) ==
  /\ pc[r] = "post" /\ (~running \/ to[r] # home)
  /\ Sleep(r) /\ UNCHANGED <<world, running, rows, open, health, found, acked>>

(* The poll: upsert_db commits; without a node to ping nothing is stored.   *)
pingable_nodes == {p \in up : Host[p] # ""}

Fetch ==
  /\ pc[SRC_NAME] = "idle" /\ running
  /\ Insert(<<>>)
  /\ IF pingable_nodes = {} THEN Sleep(SRC_NAME)
     ELSE /\ pc' = [pc EXCEPT ![SRC_NAME] = "ping"] /\ peers' = [peers EXCEPT ![SRC_NAME] = pingable_nodes]
          /\ UNCHANGED <<to, samples>>
  /\ UNCHANGED <<world, running, health, found, acked>>

Record ==
  /\ pc[SRC_NAME] = "post" /\ running
  /\ Sleep(SRC_NAME) /\ UNCHANGED <<running, health, found, acked>>
  /\ \/ Insert(samples[SRC_NAME]) /\ UNCHANGED world
     \/ InsertRaises(samples[SRC_NAME])

(* The netcheck of a client goes into a table of its own and commits too.   *)
Netcheck ==
  /\ running /\ open # <<>> /\ Insert(<<>>)
  /\ UNCHANGED <<world, running, proc, health, found, acked>>

(* do_GET /metrics/health: the rows are read under the lock, and judged     *)
(* after it by the time it is then.                                         *)
HealthRead ==
  /\ running /\ Expected # {} /\ health # "read"
  /\ health' = "read" /\ found' = {[src |-> r.src, age |-> r.age] : r \in ToSet(query_latency(Visible))}
  /\ UNCHANGED <<world, running, rows, open, proc, acked>>

HealthAnswer ==
  /\ health = "read"
  /\ health' = IF stale_reporters(found, Expected) = {} THEN "ok" ELSE "stale"
  /\ found' = {}
  /\ UNCHANGED <<world, running, rows, open, proc, acked>>

----------------------------------------------------------------------------
Older(r) == [r EXCEPT !.age = @ + 1]
Aged(seq) == [k \in DOMAIN seq |-> Older(seq[k])]

Tick ==
  /\ UNCHANGED <<world, running, peers, to, samples, health>>
  /\ rows' = InWindow(Aged(rows)) /\ open' = InWindow(Aged(open))
  /\ acked' = {r \in {Older(a) : a \in acked} : r.age <= Window}
  /\ found' = {IF r.age > Window THEN r ELSE Older(r) : r \in found}
  /\ pc' = [s \in Sources |-> IF pc[s] = "sleep" THEN "idle" ELSE pc[s]]

(* The service dies: the open transaction is rolled back.                   *)
Crash ==
  /\ Budget /\ running
  /\ running' = FALSE /\ open' = <<>> /\ health' = "idle" /\ found' = {}
  /\ Sleep(SRC_NAME) /\ UNCHANGED <<up, nodes, home, rows, acked>>

Restart ==
  /\ ~running /\ running' = TRUE
  /\ UNCHANGED <<world, rows, open, proc, health, found, acked>>

(* A peer comes or goes; a collector node is seen to; a deployment gives    *)
(* the collector a new node; a call to LocalAPI or Headscale, or a post,    *)
(* is lost.                                                                 *)
PeerTurns(p) ==
  /\ Budget /\ up' = IF p \in up THEN up \ {p} ELSE up \cup {p}
  /\ UNCHANGED <<nodes, home, running, rows, open, proc, health, found, acked>>

NodeTurns(a, st) ==
  /\ Budget /\ nodes[a] \notin {"none", st} /\ (a = home => st # "none")
  /\ nodes' = [nodes EXCEPT ![a] = st]
  /\ UNCHANGED <<up, home, running, rows, open, proc, health, found, acked>>

Redeploy(a) ==
  /\ Budget /\ nodes[a] = "none" /\ home' = a /\ nodes' = [nodes EXCEPT ![a] = "online"]
  /\ UNCHANGED <<up, running, rows, open, proc, health, found, acked>>

CallFails(s) ==
  /\ Budget /\ pc[s] \in {"idle", "post"} /\ Sleep(s)
  /\ UNCHANGED <<up, nodes, home, running, rows, open, health, found, acked>>

Cycle(r) == ReadStatus(r) \/ Ping(r) \/ Post(r) \/ PostFails(r)
Poll == Fetch \/ Ping(SRC_NAME) \/ Record
World ==
  \/ Crash \/ \E p \in Peers : PeerTurns(p)
  \/ \E a \in Addrs : Redeploy(a) \/ \E st \in {"none", "online", "offline"} : NodeTurns(a, st)
  \/ \E s \in Sources : CallFails(s)

Next ==
  \/ Poll \/ Netcheck \/ HealthRead \/ HealthAnswer \/ Tick \/ Restart \/ World
  \/ \E r \in Reporters : Cycle(r)

Spec == Init /\ [][Next]_vars

(* Time passes, the loops go on, and Docker restarts the service.           *)
FairSpec == Spec /\ WF_vars(Tick) /\ WF_vars(Poll) /\ WF_vars(Restart) /\ \A r \in Reporters : WF_vars(Cycle(r))

----------------------------------------------------------------------------
(* A report that was answered with 200 is in the table, whole, whatever     *)
(* other writers fail and however the service dies (dedup.py:407-424,       *)
(* 960-968).                                                                *)
AckedIsStored == acked \subseteq ToSet(rows)

(* The deploy's gate: a health check that says ok has a sample of every     *)
(* expected source within the window at the time it answers, not only at    *)
(* the time it read (dedup.py:398-404, 997-1012).                           *)
HealthIsTrue ==
  [][health = "read" /\ health' = "ok"
       => \A s \in Expected : \E r \in ToSet(Visible) : r.src = s]_vars

(* The lookup of the newest sample per pair, which /derp shows, gives one   *)
(* row for a pair (dedup.py:618-638, test_dedup.py:634 "Chi lay lan ping    *)
(* moi nhat per (src, dst)"): no post is stored twice.                      *)
OnePerPair ==
  \A p \in Pairs(Visible) : Len(Of(query_all_server_pings(Visible), p)) = 1

(* /metrics/latency and /stats: however few rows the LIMIT leaves, what     *)
(* they say last of a pair is its newest sample, the chart ends with the    *)
(* newest that was answered, and no failed ping counts as a direct one      *)
(* (dedup.py:374-395, 427-457).                                             *)
Newest(S, a) == \A r \in S : a <= r.age
LatencyIsTrue ==
  LET found_ == query_latency(Visible)  agg == aggregate_latency(found_)  series == latency_series(found_)
      All(p) == {r \in ToSet(Visible) : Pair(r) = p}
  IN  /\ \A p \in DOMAIN agg : Newest(All(p), agg[p].last.age) /\ agg[p].direct <= agg[p].oks
      /\ \A p \in DOMAIN series : Newest({r \in All(p) : ok(r)}, Last(series[p]))

(* /derp: for every outcome of the probes that began before, the newest     *)
(* sample of each pair is on the page under its source's label, marked dead *)
(* if and only if its region's probe failed, as in the table of the peers,   *)
(* and a source is said to have no data only when it has none               *)
(* (dedup.py:773-862).                                                      *)
Label(s) == IF s = SRC_NAME THEN "vpn2" ELSE s
DerpIsTrue ==
  LET pings == query_all_server_pings(Visible)
      newest == {r \in ToSet(Visible) : Newest({o \in ToSet(Visible) : Pair(o) = Pair(r)}, r.age)}
  IN \A dead \in SUBSET Regions :
    LET page == render_derp_html(pings, dead)
    IN  /\ \A r \in ToSet(Visible) : [label |-> Label(r.src), dst |-> "", tag |-> <<"none">>] \notin page
        /\ \A r \in newest :
             \E l \in page : l.label = Label(r.src) /\ l.dst = r.dst /\ (l.tag[1] = "dead") = (r.path \in dead)
        /\ \A c \in Regions : via_tag([online |-> TRUE, direct |-> FALSE, relay |-> c], dead) = path_tag([path |-> c], dead)

(* How the deployment names things: no two peers have one host name, the    *)
(* collector goes by its default name, every source has a region that is    *)
(* probed, and no region is shown as the collector but its own              *)
(* (dedup.py:74-80, 820-834).                                               *)
DistinctNames ==
  /\ SRC_NAME = "collector"
  /\ \A p, q \in Peers : Host[p] = Host[q] => p = q
  /\ "" \notin Regions /\ "myderp" \in Regions
  /\ \A r \in Reporters : \E c \in Regions \ {"myderp"} : Base[c] = r
  /\ \A c \in Regions \ {"myderp"} : Base[c] \notin {"vpn2", SRC_NAME}

(* The three pages tell what is stored, however rows are cut, dated in one   *)
(* second or named: the aggregates, the newest per pair, and the page.      *)
PagesAreTrue == LatencyIsTrue /\ OnePerPair /\ DerpIsTrue

(* query_current_relay gives "lan ping moi nhat tu SRC_NAME" (dedup.py:602).*)
CurrentRelayIsOurs == \A r \in ToSet(query_current_relay(Visible)) : r.src = SRC_NAME

(* When collector and peers are there and an old collector node, if one is  *)
(* left, is offline, every reporter is heard again and again                *)
(* (reporter.py:71-86).                                                     *)
Settled ==
  /\ running /\ pingable_nodes # {} /\ nodes[home] = "online"
  /\ \A a \in Addrs \ {home} : nodes[a] # "online"
HeardAgain ==
  <>[]Settled => \A s \in Sources : []<>(\E r \in ToSet(rows) : r.src = s /\ r.age = 0)
=============================================================================
