------------------------------- MODULE Latency -------------------------------
(***************************************************************************)
(* node-dedup/dedup.py: what the collector computes of the samples in its  *)
(* table node_latency, for /metrics/latency, /metrics/health, /stats and   *)
(* /derp.  A sample here is [age, src, dst, path]: age is the time since   *)
(* it was stored, path is "" of a ping that failed, "direct", or the code  *)
(* of a DERP region.  Times of flight and the text of pages are left out.  *)
(* Rows are sequences in the order in which they were inserted.            *)
(***************************************************************************)
EXTENDS Integers, Sequences, FiniteSets, SequencesExt

CONSTANTS
  SRC_NAME,   \* the collector as a source
  Regions,    \* the region codes of DERP_PROBE_URLS
  Base,       \* a code without its geographic suffix, of each region
  Window,     \* the seconds a page or a health check looks back
  RowLimit    \* the LIMIT of query_latency

ASSUME LatencyAssumption == Window \in Nat /\ RowLimit \in Nat \ {0} /\ "direct" \notin Regions

ok(r) == r.path # ""
Pair(r) == <<r.src, r.dst>>

(* LocalAPI's answer to a ping: an error or no time of flight is a failure. *)
parse_pingresult(pr) ==
  IF ~pr.answered THEN "" ELSE IF pr.endpoint \/ pr.derp = "" THEN "direct" ELSE pr.derp

(* The rows of a set, in their order.                                       *)
Only(rows, S) ==
  LET kept[k \in 0..Len(rows)] ==
        IF k = 0 THEN <<>> ELSE IF rows[k] \in S THEN Append(kept[k-1], rows[k]) ELSE kept[k-1]
  IN  kept[Len(rows)]

InWindow(rows) == Only(rows, {r \in ToSet(rows) : r.age <= Window})

(* The rows by age, and of one age the last inserted first.                 *)
NewestFirst(rows) ==
  LET upto[a \in 0..Window] ==
        (IF a = 0 THEN <<>> ELSE upto[a-1]) \o Only(Reverse(rows), {r \in ToSet(rows) : r.age = a})
  IN  upto[Window]

(* mutant: oldest first *)
query_oldest(rows) ==
  LET found == Reverse(NewestFirst(InWindow(rows))) IN SubSeq(found, 1, IF Len(found) < RowLimit THEN Len(found) ELSE RowLimit)

query_latency(rows) ==
  LET found == NewestFirst(InWindow(rows)) IN SubSeq(found, 1, IF Len(found) < RowLimit THEN Len(found) ELSE RowLimit)

Of(rows, pair) == Only(rows, {r \in ToSet(rows) : Pair(r) = pair})
Answered(rows) == Only(rows, {r \in ToSet(rows) : ok(r)})
Pairs(rows) == {Pair(r) : r \in ToSet(rows)}

(* By pair; "last" is the first row of the greatest ts in the order given.  *)
aggregate_latency(rows) ==
  [p \in Pairs(rows) |->
     LET g == Of(rows, p)
     IN  [count |-> Len(g), oks |-> Len(Answered(g)), direct |-> Len(Only(g, {r \in ToSet(g) : r.path = "direct"})),
          last |-> g[CHOOSE k \in DOMAIN g : \A j \in DOMAIN g :
                       g[k].age <= g[j].age /\ (g[k].age = g[j].age => k <= j)]]]

(* The points of the chart, oldest first, of the pairs that answered.       *)
latency_series(rows) ==
  LET up == Answered(rows)
  IN  [p \in Pairs(up) |-> LET g == Reverse(NewestFirst(Of(up, p))) IN [k \in DOMAIN g |-> g[k].age]]

(* mutant: the rows of the query are trusted to be still in the window *)
stale_as_read(seen, expected) == {s \in expected : \A r \in seen : r.src # s}

(* Of rows of which only the source and the age are seen.                   *)
stale_reporters(seen, expected) ==
  {s \in expected : \A r \in seen : r.src = s => r.age > Window}

(* Rows joined with the least age of their pair.                            *)
query_all_server_pings(rows) ==
  LET seen == InWindow(rows)
  IN  Only(seen, {r \in ToSet(seen) : \A s \in ToSet(seen) : Pair(s) = Pair(r) => r.age <= s.age})

(* The inner query asks for SRC_NAME's newest row of a destination, the     *)
(* join takes every row of that destination and time.                      *)
query_current_relay(rows) ==
  SelectSeq(rows, LAMBDA r :
    \E s \in ToSet(InWindow(rows)) :
      /\ s.src = SRC_NAME /\ s.dst = r.dst /\ s.age = r.age
      /\ \A o \in ToSet(InWindow(rows)) : o.src = SRC_NAME /\ o.dst = s.dst => s.age <= o.age)

----------------------------------------------------------------------------
(* render_derp_html.  A line of the page is [label, dst, tag]: the label of *)
(* a source, and how the node is reached.  dead is the set of regions whose *)
(* probe failed.                                                            *)
_src_label(c) == IF c = "myderp" THEN "vpn2" ELSE Base[c]

(* mutant: the code is taken for the source's name *)
src_is_code(c) == IF c = "myderp" THEN "collector" ELSE c
_code_to_src(c) == IF c = "myderp" THEN "collector" ELSE Base[c]

Display(c) == IF c = "myderp" THEN "vpn2" ELSE c

path_tag(p, dead) ==
  IF p.path = "" THEN <<"failed">>
  ELSE IF p.path = "direct" THEN <<"direct">>
  ELSE <<IF p.path \in dead THEN "dead" ELSE "via", Display(p.path)>>

(* The table of the peers, by LocalAPI's status.                           *)
via_tag(peer, dead) ==
  IF ~peer.online THEN <<"offline">>
  ELSE IF peer.direct THEN <<"direct">>
  ELSE IF peer.relay = "" THEN <<"?">>
  ELSE <<IF peer.relay \in dead THEN "dead" ELSE "via", Display(peer.relay)>>

NoData(c) == [label |-> _src_label(c), dst |-> "", tag |-> <<"none">>]

LinesOf(c, pings, dead) ==
  LET mine == {p \in ToSet(pings) : p.src = _code_to_src(c)}
  IN  IF mine = {} THEN {NoData(c)}
      ELSE {[label |-> _src_label(c), dst |-> p.dst, tag |-> path_tag(p, dead)] : p \in mine}

render_derp_html(pings, dead) == UNION {LinesOf(c, pings, dead) : c \in Regions}
=============================================================================
