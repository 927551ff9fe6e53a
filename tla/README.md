# TLA+ models of the headscale deployment

The repository deploys a private tailnet: Headscale and its UI, DERP relays on several hosts, a gateway
that leads part of the tailnet into a customer VPN, an API proxy (CLIProxyAPI) whose keys and tokens
live in files or in PostgreSQL, and an edge of Caddy, nginx and Portainer. Most of it is configuration of
other people's programs. A dozen parts are programs of its own that keep state, run beside other actors
and can be interrupted; these modules are about them.

Paths below are relative to `src/`. A definition's lines are in `PROJECT.json` under `map`.

## 1. Inventory

| Component | Source | State | Operations | Hard part |
|---|---|---|---|---|
| Relay handlers | `relay-vpn5/server.go`, `main.go`, `frame.go` | `clients` map, one goroutine per connection, its reader | handshake, register, dispatch, route, keepalive, deferred cleanup | two connections of one client overlap; writes have no deadline |
| Relay sessions | `relay-vpn5/session.go` | table of UDP sockets by (src, dst), one reader each | get-or-create, send, remove, remove all | a session captures the connection that made it |
| Endpoint cache | `relay-vpn5/endpoint.go` | map of peers and its age | resolve, refresh, invalidate, ticker | the call to the sidecar runs outside the lock |
| Route agent | `vpn-gw/route-agent.sh`, timer, service | six files, the node's advertised routes | one run every 10 s: probe, decide, set, record | killed between command and file; edits; failing commands |
| node-dedup poll | `node-dedup/dedup.py` `main` | the fetched list, the plan | fetch, table, ping, approve, delete, rename | the plan is minutes old when applied |
| node-dedup collector | `node-dedup/dedup.py` HTTP part | `devices`, `node_latency`, `client_netcheck` | report, netcheck, health check, pages, pruning | threads and poll share one connection, with its open transaction |
| Ping reporter | `ping-reporter/reporter.py` | none | read peers, find the collector, ping, POST once | the collector moves during a round; a post is not repeated |
| CLIProxy store | `cliproxy/pgstore.sh`, `pgstore-seed.sh`, `pgstore-keys.py`, `deploy-cliproxy.yml` | files, database, spool, `.env`, state file | snapshot, enable, seed, off, plugin, verify (sync, check), rollback, export | any command may be the last; users edit and docker restarts the proxy meanwhile |
| Config rendering | `cliproxy/render-config.py`, `plugin-config.py` | `config.yaml` | render, merge | edits of lines in a file that others write in other forms |
| Quota failover | `cliproxy/quota-failover.py` | remote configuration | list, patch, put | GET, edit, PUT of the whole file; a dozen calls |
| Gateway boot, reporter | `vpn-gw/entrypoint.sh` | config version file, tunnel, firewall | fetch, fall back, connect, report, kill, restart | files of one boot meet those of the next |
| Preflight | `scripts/verify-preflight.py` | none | ask about a key nobody has, list, ask about every node | nodes change keys while they are asked about |
| Portainer deployment | `deploy-portainer-vpn4.yml`, `rollback-portainer-vpn4.yml`, `portainer-vpn4/` | transaction directory with markers and copies, checkout, edges | stage, verify, recover, commit | cut short anywhere, followed by another run |
| Beszel bootstrap | `beszel/bootstrap.py`, `caddy_block.py` | admin account, systems, a block of the Caddyfile | log in, create, add, replace | a refusal reads as "nothing there" |
| Headscale, DERP, edge, chat database, previews | the rest | declarative | linear scripts | none of their own |

How they interact: relay handlers share the clients map, the session table and the cache, each under
its own lock; the cache asks a Tailscale sidecar over a socket. The route agent talks to the dashboard,
to the gateway's network namespace and to the node through `docker exec`, and to its own next run only
through files. The poll and the HTTP threads of node-dedup share one SQLite connection under a lock; the
poll shares Headscale with its users. A CLIProxy deploy shares files, spool and database with the
running proxy, and with the next deploy only what it leaves on disk. Reporters post to the collector, whose
samples its poll, the pages and a deploy's health check read. The other scripts call a service over HTTP, or edit
files and containers of one host; each meets users, failing calls and its own earlier runs, and none meets another.

What makes each one correct: *relay*: a packet reaches only a peer that was addressed, the map leads
only to live handlers, nothing outlives its handler. *Cache*: an answer is one the sidecar gave for that
peer. *Agent*: dead VPN withdrawn, healthy one advertised, no flapping, lock respected. *Dedup*: one node
of a device always stays, an online node is never deleted, what is advertised is approved, every device is tidy and every MAC
in its row in the end. *Store*: no key, provider or token in use is lost by a deploy, however it ends; the
database is never overwritten; the sample key is served only if the proxy restarts in the middle of a rollback. *Collector*: what was answered is stored, what
the pages and the health check say is what is stored, and every source is heard again. *Scripts*: a green end
means that the thing was done; a red one can be recovered; an edit of a text in a form
the script knows changes what it means to and nothing else; nobody is locked out.

## 2. Modules

| Module | Models | Composed of |
|---|---|---|
| `EndpointCache` | `endpoint.go`, one process per goroutine that looks up or refreshes | |
| `EndpointCacheAlone` | the cache with arbitrary callers and invalidations, and a history of the sidecar's answers | `EndpointCache` |
| `SessionTable` | `session.go`: table operations and `readLoop` | `EndpointCache` |
| `Relay` | `server.go`: every handler, clients, network, and all of the above | `SessionTable` |
| `RelayProofs` | theorems about it and the cache, and that it implements `RelayService` | `Relay`, `EndpointCacheAlone`, TLAPS |
| `RelayService` | what the relay promises of packets, abstractly | refined by `Relay` |
| `RouteAgent` | `route-agent.sh`, timer, dashboard, VPN, operator | |
| `RouteAgentProofs` | theorems about it | `RouteAgent`, TLAPS |
| `NodeDedup` | the poll, `record_report`, Headscale around them | |
| `NodeDedupProofs` | theorems about it | `NodeDedup`, TLAPS |
| `PgStore` | the store scripts in the order the workflow calls them, web users, the proxy | |
| `PgStoreProofs` | theorems about it | `PgStore`, TLAPS |
| `Latency` | the queries, aggregates and pages over the latency table, as operators on rows | |
| `Collector` | the poll's pings, reporters, the insert and its transaction, the health check, deployments of the collector | `Latency` |
| `CollectorProofs` | theorems about it | `Collector`, TLAPS |
| `KeySync` | `sync`, `check` and the rollback at the end of `verify`, call by call | |
| `QuotaFailover` | the quota script's calls against a proxy that users edit | |
| `ConfigText` | a configuration as lines, the line edits of three scripts, and what YAML makes of the lines | |
| `TextProofs` | theorems about two of the edits, for every text | `ConfigText`, TLAPS |
| `ConfigEdits` | these edits in any order with the proxy's rewriting | `ConfigText` |
| `Gateway` | boot, reporter and restarts of the VPN gateway, the dashboard | |
| `Preflight` | the preflight against a fleet that changes | |
| `PortainerDeploy` | both workflows, their recovery, cuts and restarts | |
| `CaddyText` | a Caddyfile as lines with brace counts, `remove-caddy-site.py`, `caddy_block.py` | |
| `CaddyEdits` | the two scripts against people who edit block by block | `CaddyText` |
| `Beszel` | the bootstrap, run again and again | |
| `Scripts` | one of the eight above (`QuotaFailover`, `KeySync`, `Preflight`, `Beszel`, `Gateway`, `PortainerDeploy`, `ConfigEdits`, `CaddyEdits`), chosen at the start | all eight |
| `DeployProofs` | lemmas about `PortainerDeploy`, as it runs in `Scripts` | `Scripts`, TLAPS |
| `ScriptsProofs` | theorems about the scripts, one after the other | `DeployProofs`, TLAPS |
| `MC...` | the constants' values for TLC | each its module |

The `MC` modules define values only; each `.cfg` is a run. Operators whose comment begins with
"mutant" are faulty variants of the definition that follows; no specification uses them. They exist so that
each property can be seen to fail on a plausible bug.

### Relay

A handler is a program counter `pc[c]`: `hello`, `info`, `register` are the three stages of the
handshake, `loop` is the `select`, the other phases are the places inside `dispatch`, `route` and the deferred
function where a lock is taken or dropped, the sidecar is called, or a TCP write may block.
`loc[c]` holds what `route` keeps in local variables across these points (destination, `destCC`, address,
session), which is how stale reads are possible. `inbox[c]` is the frames that were read and not yet
dispatched: socket buffer and `frameCh` together. A frame is a destination key, `Ping`, or `Other` for
the ignored types; contents and encoding are left out. `stalled[c]` is a client that does not read:
writes to it wait, as `sendFrame` has no deadline. `toClose[c]` is what `Remove` and `RemoveAll` took out of
the table under the mutex and close after it. `SendUDP` may fail at any time (socket closed or
network); `GetOrCreate` may fail when a socket cannot be opened. `dstAddr` is written under the table's lock
and read without it; the two orders of write and read are both steps of the model.
The cancelled `ctx` is seen by `readLoop` only between packets, as in the code.

`asked` and `delivered` are histories. `RelayService` knows only them and the key each connection proved:
a packet is written to a connection only from a peer that addressed its key or that its key addressed.
`ServiceSpec` states that `Relay` implements it, with `owner <- ckey`; it is checked for packets between
TCP clients (`RelayLocal`), and proved for all, with replies over UDP (section 4).

### Endpoint cache

`call[c]` is a goroutine's place in `getPeer` and `refresh`. The request, the sidecar's answer and the
installation of the answer are separate steps, because the lock is not held during the call. `fresh`
stands for `time.Since(updated) < ttl` and `Expire` lets it end at any time. `IsUDPCapable` has no
caller. `FirstPublic` keeps the order of the candidate list.

### Route agent

One run of the script goes through `pc`: list and probe (`Begin`), the two streak files, the read of the
node's preferences, the decision with its `tailscale set`, then `last_change_epoch`, the flaps file and the lock
file. Between any two the clock may tick, the admin edit the list, the VPN turn, the container restart
with empty routes, the operator remove the lock, or the run be killed. Epochs are kept as ages in timer
periods and saturate where the script cannot tell values apart; streaks saturate at their threshold.
`F_STATE` is written and never read, and left out. A `tailscale set` whose `docker exec` fails may have taken effect all the same.
`okRun`, `failRun`, `down`, `unsaid` and `killed` are histories of the true probes, of the agent's own withdrawal, of whether
that one was reported as failed or its run killed before it was noted, and of kills.

### node-dedup

`list` is the answer to the poll's one `GET /node`; `todo` the approvals, then the actions computed from it, as sets. The
script makes lists of them: approvals are taken by the order of the ids, and `Precedes` says which of two
actions comes first in the list, so that `Act` takes the same action as the loop. The script compares ids as strings; the model's
order is that of the ids written with one number of digits.
Between steps Headscale changes: nodes register, drop, come back, advertise, and an administrator
deletes, renames or restricts them. `Act` may take effect and lose its answer, which ends the poll as an
exception does. A node has the plain host name (`clean`) or that and a suffix; Headscale keeps given names
unique (`Taken`), so a rename fails while another node holds the name. `Report` is an HTTP thread in
`record_report`, and a row's `mac` is the device whose MAC it holds. `LastSeenNumbers` says whether the API
gives `lastSeen` as an object with seconds, which is the one form `normalize` reads as a number; the runs
use `TRUE`.

### CLIProxy store

`files`, `db` and `spool` are three copies of a configuration (a set of API and provider keys) and a set of
tokens. The proxy in mode `db` serves the spool and writes edits through to the database. A deploy is the
list of commands of `deploy-cliproxy.yml`, one step for each that changes a store, in the order of the
workflow; `secret` says whether this deploy has the store's password. `Aborted` ends it after any step, as
`set -e` or a cut SSH session does; the next deploy starts from what is on disk. `verify` may roll back.
A user adds or removes keys, providers and tokens at any moment through the page of whatever mode the
proxy is in. Docker restarts the container at any moment (`Restart`): it comes up with the DSN it was created
with, whatever `.env` says by then, and reads the database anew. While it cannot reach the database the calls of
the deploy fail, as `CheckKeys`, `CheckTokens` and `Sync` may. `kept` is what was in use when the deploy began
less what users removed since or a restart lost before the snapshot, and `stored` what the database held then.
`reborn` says that the proxy was once restarted over a database that a rollback had emptied under it.

### Latency and collector

A row keeps an age instead of a time: 0 is this second, and ages above `Window` are gone, so that pruning and the
window of a query are the same set. `rows` is what is committed and `open` the open transaction of the one connection that the
poll and all HTTP threads share under a lock: a statement that fails leaves the rows before it in `open`,
visible to every reader of the process, to be committed by the next writer or lost with the service. `Cycle(r)` is a round of
a reporter: the status (peers, and the collector's address among Headscale's nodes), the pings, one `Post`
whose answer may be lost; `Poll` does the same without HTTP. `Redeploy` gives the collector a new address
and leaves the old node behind, online for a while and then offline. The health check reads its rows and judges them in two
steps, since time may pass in between. `acked` is a history of the samples whose report was answered.
`NewestFirst` is SQLite's order by time, of one time the last inserted first, built from the layers of each age: TLC's `SortSeq` is
not defined for a strict order with ties.
`Latency` translates the SQL and the Python over it: the window, the LIMIT, the aggregates with `last`, the newest row of
each pair by a join on the time, and the lines of `/derp` with their labels and dead regions.

### Texts: ConfigText, CaddyText

A configuration is a sequence of lines with an indentation, a kind (key, item, comment, blank), a name and a value; the
scripts' functions are operators on such sequences under their own names. `Paths` and `Meaning` say, independently
of the scripts, what YAML reads in the lines; every property compares the two. The proxy writes a section anew in any form
it may choose, with the same names at other depths: client keys as items at or below the depth of their key, in flow form (`FlowLists`
says what each such value holds, repeated and empty keys among them; a flow list over several lines is left out) or under `access`; the plugins
as blocks indented by two, with and without the plugin, its switch or all of them off, and in forms that `merge` does not know (an empty map
`{}`, steps of four, `yes`). `Recognised` says which forms `merge` knows. The proxy loads nothing that is not YAML, so it edits nothing else.
A Caddyfile is a sequence of lines with the braces each opens and
closes; what people mean is a sequence of blocks, and `FileOf` writes it down. The two scripts must do to the lines
what `WithoutSite` and `WithStatus` do to the blocks. A comment may have a brace too many, which the scripts count and Caddy does not;
`Adopted` is the workflows' check that Caddy takes the new file before it replaces the old one.

### KeySync, QuotaFailover, Preflight, Beszel

One action for each call. A call is answered, is refused, fails, or has its effect and loses its answer. Users edit
between any two. `touched`, `gone` and `moved` are histories of what others changed under the run, since no script can answer for
that. `PgStore` takes the whole of `KeySync` for one step; `KeySync` shows what that step can leave.

### Gateway

A configuration is known by its version, 0 being the mounted file; `cms` says what each version holds (credentials or not;
a good, bad or absent client.ovpn). `pc` follows the boot. Under `set -e` the last test of the fetch ends the boot if an answer has
no version, as in the code. `Kill` does nothing: the kernel does not deliver SIGKILL to process 1 of its own namespace from
inside it; this is external to the repository and is the one assumption behind `KillRestarts` below.

### PortainerDeploy

A workflow is a list of commands (`DeployScript`, `RemoveScript` and the two recoveries), one for each step of the shell
that changes the checkout, a container or the transaction directory, in the order of the file. Any may fail before or
after its effect; `Cut` is a cancelled run. `disk` is what the edge files say and `live` what each edge loaded when it
was created; `Restart` is Docker restarting one. The markers and copies decide what a recovery touches.

### Scripts

The eight scripts share no state. One run checks them all: `script` is chosen in `Init`, the variables the chosen one lacks
stay at a dummy value, and each property is the conjunction of what the parts promise, under the same name for the same promise.
A few names (`pc`, `left`, `edits`, ...) serve several scripts.

## 3. Runs

| Run | Instance | Result |
|---|---|---|
| `EndpointLookup` | 1 peer, 2 goroutines, peer absent, direct, relayed with a public or only a private candidate | `Resolve` gives only addresses the sidecar made usable for that peer |
| `RelayUdp` | 2 connections of one client, 1 UDP peer, 2 sessions, sends may fail | a session's handler has not yet cleared it; no socket is lost |
| `RelayLocal` | 2 connections of a client that reconnects and 1 of another, TCP only | the map leads only to serving handlers; `Relay` implements `RelayService` |
| `RelayLive` | 1 connection with every frame type, itself and a UDP peer as destinations, the ticker, a client that stops reading | types; a dead client's handler, sockets and readers end |
| `RelayReconnect` | 2 connections, TCP only | **violated**: a live client can be missing from the map |
| `AgentSteady` | fixed list, thresholds 2 and 3, hold 4, hour 9, at most 2 changes | many changes lock, dead is withdrawn, healthy is advertised |
| `AgentHostile` | three lists (one empty, one with a wide prefix), every failure on | types, lock, up only after enough good probes (until a run is killed), up only after the hold time of a withdrawal that was noted |
| `Dedup` | 3 nodes of one host name, 2 of them of one user, 1 router among these, 5 changes | one node stays; in the end advertised routes are approved, each device is tidy unless an earlier one cannot get its name, each MAC is in its row unless another user's node has no row |
| `DedupOnline` | the same | **violated**: an online node is deleted |
| `PgStore` | a shared key, one added by hand, the sample, a provider, 2 tokens (one from a secret), 3 deploys, 2 edits, restarts of the proxy without a bound | keys, web data and tokens survive, the database is kept, the sample is served only after a restart over a database that a rollback emptied |
| `Collector` | 1 reporter beside the poll, 1 peer, 2 addresses of the collector, the other one perhaps left by an earlier deployment, 1 change (a deployment, a failing statement or call, a crash, a peer or node that comes or goes), window 1, LIMIT 2, pings that are relayed or carry both an error and a path | what was answered is stored; pages and health check tell what is stored; every source is heard again |
| `Scripts` | 4 account files, 4 API keys, 3 nodes, 2 systems in 3 runs, 2 versions, 2 commits in 2 workflow runs, Caddyfiles of 2 blocks, also with an unbalanced comment, 2 edits, 2 faults, 1 edge restart | a green end means done (for the hub: but for additions it was refused and printed), no ban, no key taken away, one answer's files, the gateway comes back, edges recover, edits are exact in the forms the scripts know, and all client keys are found in every form |

**Why the bounds are enough.** Relay: the interesting cases need a second connection of a client
whose first is not cleaned up (2), a third party that routes to them while that happens (3), and a second
session made while the first is still in `toClose` (2). One frame in the inbox suffices because handlers take
frames one at a time; it does not show the reader blocking on a full queue. In the safety runs the connections of one
client are symmetric (`Others` are not those of the first client), and so are the sessions; the run with liveness uses no symmetry. `RelayUdp` leaves the histories `asked` and
`delivered` out of the fingerprint (`VIEW`): no guard reads them and its two invariants do not mention them.
`PgStore` leaves out what a deploy left behind and the next one writes before it reads it. A sidecar whose answers change is checked in `EndpointLookup`, on
the cache alone. Each connection is used once, so a
behaviour has at most as many reconnects as there are connections.
Agent: the thresholds are the smallest with a difference between one probe and enough probes, the hold time
is longer than the streak, and the hour holds more changes than the limit. Dedup: two nodes are the least that can
be duplicates, and a third of another user with the same host name the least with which a rename fails for ever and a report without a row of its own
address reaches another's row; five changes are enough for two to register, drop, and one to return, with the API
away in between. Four nodes, two of each user, were checked with four changes. Store: three deploys let the store go on, off and on; two edits let a token
be added in one mode and removed in another. Collector: the interesting cases need a second source, so that a pair's newest row
and the LIMIT compete, one deployment, so that the address read is dead when it is used, a failed insert whose rows the next writer commits, and a window of two seconds, so that rows age
out between a read and a verdict. The first address is fixed, since addresses are only compared; of the rows it read the health check keeps the sources and ages, which is all it
judges by. Two changes with one address of the collector, a failed insert followed by a crash for one, were checked too. Scripts: two edits are enough for a user to change something before and after the script reads
it; two faults for a failure and a failure of its recovery; two workflow runs for a run to meet what another left behind; three runs of the
bootstrap for the third to find what two broken ones left; two blocks for a site with a neighbour on either side, and a script runs on its own
output. While the models were built each script was also checked alone on larger instances (3 edits, 3 workflow runs, 3 blocks) with the same result.

`CHECK_DEADLOCK FALSE` is set where the model really stops: the relay when every connection has been
used and ended, the store when deploys and edits are used up, a script when it has ended.

### Disagreements between code and text

Two are kept as runs; each checks a sentence of the code's own comments.

* `RelayReconnect`: `server.go:176` deletes `clients[clientKey]` whichever connection is there. When the old
  handler of a client ends after the client's new connection has registered, the new one is no
  longer found and packets for it take the UDP path or are dropped, until it connects again. Go's
  own derper compares the connection before it deletes.
* `DedupOnline`: `dedup.py:1107` plans from the list of the start of the poll. A node that reconnects during the
  pings is deleted while online (l.12 says never).

TLC refutes the following as well. Each formula is stated in its module, with the quotation; to see the behaviour, give it to TLC as the only
property, with the constants named (for modules under `Scripts`: those of `Scripts.cfg` that the module declares).

| Formula | Constants | What happens |
|---|---|---|
| `RouteAgent!DeadIsWithdrawn` | `AgentSteady`, `Lists <- TwoLists` | `route-agent.sh:140` withdraws only if the node advertises exactly the wanted list; after an edit it does not, so a VPN that then dies stays advertised (l.39 says three failures withdraw it) |
| `RouteAgent!ManyFlapsLock` | the same | only a withdrawal looks at the number of changes (l.144), so edits re-advertise without limit (l.42) |
| `RouteAgent!UpAlwaysAfterHold` | `AgentHostile`; also with `MayCrash = FALSE`, or with `MayFail = FALSE` | a withdrawal whose command took effect and reported failure, or whose run is killed next, is not noted (`route-agent.sh:141-149`), so the next rise need not wait (l.41) |
| `NodeDedup!ApprovingTakesNothing` | `Dedup` | `approve_routes` replaces the set by one computed from the list, so an approval made since is taken back (`dedup.py:1097`; l.267 says routes are only added); `RoutesGetApproved` says that what is advertised is approved again |
| `NodeDedup!AlwaysTidy` | `Dedup` | a rename whose name another node holds raises and ends every poll (l.1107-1119), so the duplicates of later devices stay (l.7-12); `EventuallyTidy` says that this is the only way |
| `NodeDedup!MacsAlwaysArrive` | `Dedup` | a report whose address is in no row writes its MAC into every row with its host name (l.414-416), whoever's device it is, again and again |
| `Relay!ReplyReachesClient` | `RelayUdp`, no symmetry and no view | a session reused by a client's new connection still replies to the old one (`session.go:72`) |
| `Relay!RoamedIsHeard` | `RelayUdp`, one connection, IPs h1 and h2, `Statuses <- MCRoaming`, no symmetry and no view | `readLoop` keeps the address it read when it started (`session.go:111`), so replies from a roamed peer's new address are dropped |
| `PgStore!SeedIsFinished` | `PgStore`, `SeedStops = TRUE` | `pgstore-seed.sh:108` commits the configuration before the tokens, and `need-seed` looks only at the configuration: a seed stopped between them is never completed (l.112) |
| `PgStore!PluginKeepsEdits` | `PgStore` | `plugin-deepseek` writes back a whole configuration dumped a moment before (`pgstore.sh:193-205`); a web edit in between is lost (`cliproxy/README.md:74`) |
| `PgStore!NoSampleEver` | `PgStore` | a rollback empties the database under the running container (`pgstore.sh:213`); if docker restarts it (`docker-compose.yml:16`) before the force-recreate, or the deploy is cut there, the proxy serves its image's keys and writes them to the database, which the next deploy keeps (`pgstore-keys.py:133-135` says they must not be kept) |
| `PgStore!RestartKeepsKeys` | `PgStore` | the same restart takes the keys that only the spool still held; so does one after `plugin-deepseek` wrote an older configuration back (`cliproxy/README.md:74`) |
| `Collector!OnePerPair` | `Collector`, 2 peers, `Host <- MCSameHost`, `RowLimit = 9`, without the assumption of `MCCollector` that names differ | two online nodes with one host name give two newest rows of one pair, since the join is on the time alone (`dedup.py:628`) |
| `Collector!CurrentRelayIsOurs` | `Collector` | the join of `query_current_relay` does not compare the source (`dedup.py:609`), so a reporter's row of the same second is taken for the collector's own; only tests call it |
| `ConfigEdits!HandKeepsDsn` | `Scripts` | `render-config.py:121` looks for a key that the file does not hold under that name; a render by hand drops the chat history's database (l.119) |
| `ConfigEdits!MergeAlwaysTurnsOn` | `Scripts` | a map in flow form, a block at another depth or a switch in another word is not found (`plugin-config.py:24`), and what `merge` adds comes twice: the result is not YAML or has two switches (l.2 says the plugin is turned on) |
| `ConfigEdits!PluginsAreOn` | `Scripts` | `merge` writes `plugins.enabled: true` only in a block of its own (l.45); a standing `enabled: false` of all plugins is left, and the plugin does not run (l.2) |
| `CaddyEdits!NeighboursStay` | `Scripts` | with two comments that have a brace too many the count takes a neighbour for part of the site, and Caddy accepts the result (`remove-caddy-site.py:40`, against l.9-11) |
| `QuotaFailover!OnlyItsSettings` | `Scripts` | `quota-failover.py:166-169` puts back the configuration it read: a web edit in between is lost (l.114) |
| `KeySync!NoRollbackForKey` | `Scripts` | a refused management key is told from a failing store in the reads and not in the PATCH (`pgstore-keys.py:230`), so a deploy may roll the store back for it (l.205) |
| `Preflight!StrangeBodyFails` | `Scripts` | a 200 answer whose JSON has no `Allow` passes for a denial (`verify-preflight.py:64`, against l.87) |
| `Beszel!HubComplete` | `Scripts` | a refused addition is printed and the run ends green without the system (`bootstrap.py:57-60`) |
| `Beszel!OneOfEach` | `Scripts` | a refused listing reads as an empty one and every system is added again (`bootstrap.py:52`, against l.2) |
| `Gateway!FallsBack` | `Scripts` | an answer without `configVersion` ends the boot instead of falling back (`entrypoint.sh:73`, against l.32-34) |
| `Gateway!VersionIsApplied` | `Scripts` | after a restart while the dashboard is silent the gateway runs on mounted files beside the version an earlier boot wrote down |
| `Gateway!KillRestarts` | `Scripts`, `FairSpec` | the reporter's SIGKILL to process 1 from inside the container does nothing, and the loop has ended (`entrypoint.sh:296-301`) |
| `PortainerDeploy!UpComesBack` | `Scripts` | the recovery of a failed removal starts Portainer and not its login gate (`rollback-portainer-vpn4.yml:160`) |
| `PortainerDeploy!DiskIsServed` | `Scripts` | the recovery of a deploy resets the checkout over the files it has just restored (`deploy-portainer-vpn4.yml:272`) |
| `PortainerDeploy!BackupsKept` | `Scripts` | the next run deletes the copies that a failed recovery left (l.68) |
| `PortainerDeploy!OnlyOwnChanges` | `Scripts` | a run whose last clean-up failed is rolled back by a later one that fails before it begins (l.258) |

Others were seen while reading or modelling and no formula of the modules states them:

* An invalidated endpoint may come back as fresh: a refresh that got its answer before the `Invalidate`
  installs it after (`endpoint.go:127-136`, comment at 85).
* The candidate list is also used for peers the sidecar reports as relayed, though the type's comment
  (`endpoint.go:19-23`) says TCP is used for them.
* If the API does not answer and `VPN_GW_ROUTES` is empty, a healthy route is withdrawn at once
  (`route-agent.sh:64-69`, 127). A change whose command took effect and reported failure is missing from the flaps file as well.
* Between a rollback's `reset` and the force-recreate (`pgstore.sh:213-222`) the proxy still runs on
  the database; a token saved then is wiped by the rollback of a later seeding deploy. The properties speak of
  deploys that began with a database that had a configuration, and `began = "cut"` marks a proxy that a
  rollback left so.
* After a rollback the spool stays. The next seed takes it as the newest copy (`pgstore.sh:156-159`) although the
  files have been in use since, and `snapshot-keys` brings back keys that users deleted meanwhile.
* A deploy that stops between rendering and `verify` loses keys added by hand in file mode; the
  next deploy no longer knows them.
* `SEEDED_AUTH` unset counts as "seeded" in `verify` (l.276) and as 0 in `rollback` (l.212), so a deploy
  whose `enable` failed may roll back when the files have more tokens than the database.
* A failed deploy of Portainer takes a Portainer down that was up before it (the recovery runs `down` whatever was there). An edge that Docker
  restarts between the reset and the marker takes the candidate's file unmarked; the properties except edges that restarted.
* `find_site_bounds` counts braces in comments too: an unbalanced one in a comment moves the end of a site. `EditsAreTrue` says that with one such comment the result is right or Caddy refuses it
  and the file stays; with two, `NeighboursStay` is refuted.
* The page of latencies shows the region `myderp` under the name "collector" (`dedup.py:833`) whatever `SRC_NAME` (l.74) says the collector's own pings are stored under.
* `set_session_affinity_false` sees no `routing` that is indented; YAML reads it, if the whole top level is. `AffinityOff` has the margin as a hypothesis.
* The health check expects `vpn4,vpn6` by default while the reporters of the repository are `vpn3` and `vpn5`.
* `entrypoint.sh` appends its kill-switch rules at every boot, and skips those for `tailscale0` if the interface is late; a restart of the sidecar
  leaves the gateway in the old network namespace. The packet filter is not modelled.

### Fairness

* Relay: strong fairness of each handler, session reader and of `Dispatch \/ ReadError`. The Go scheduler runs
  every runnable goroutine and `select` chooses among ready cases at random, so frames are not passed
  over for ticks for ever; a blocked write is woken when the client reads. Two assumptions are not the
  code's: the sidecar answers or fails each request (`Status` has no deadline), and a client that stopped
  reading reads again or goes away (writes have no deadline). Without the second a single client blocks
  every handler that routes to it; that is recorded as a hazard.
* Agent: the timer fires and a started run ends; the clock advances.
* Dedup: the poll loop goes on (`main` catches every exception), and an online node reports now and then.
* Store: no liveness is claimed.
* Collector: time passes, the poll and each reporter's loop go on (both catch every exception and sleep), Docker restarts the service
  (`restart: unless-stopped`). `HeardAgain` speaks of a deployment that has settled: the service runs, a peer answers, and no old collector node is online.
* Gateway: the boot's next command and the reporter's next turn come, and Docker restarts the container. `ComesBack` supposes that
  the dashboard in the end stays with a good file or without an answer; while it answers without a version the container restarts for ever.

## 4. Proofs

Each theorem speaks of every value of the constants under the module's named assumption, so of any number of connections, keys,
nodes, deploys, faults and edits; the run named with it shows the same formula on a small instance. The assumptions say that bounds are
naturals, that lists name what exists, and that the sets a program loops over are finite (`Peers`, `Ids`, `Nodes`, `Files`).
An invariant that was strengthened was first checked by TLC on the instance of its run.
Six modules prove in three steps each: the initial state satisfies the invariant, every action keeps it (one
lemma for each part, over lemmas that say once what an action may change), and it implies the property. Where a lemma needs
induction (a filter of rows, the choice among candidates, an order of ages), it takes the least counterexample: the library's
induction theorems have an operator as a parameter, which the provers cannot instantiate.

### Relay (`RelayProofs`)

* `ResolvesWhatWasReported` (run `EndpointLookup`): an address given for a peer is one the sidecar made usable for it. `HeardInv` adds that
  the map, every answer not yet installed and every entry in a lookup's hands are covered by the history. `FirstPublicIsListed` is the lemma about the choice.
* `RegisteredServes` (`RelayLocal`): the clients map leads only to handlers that serve the key. `RegInv` adds that a handler has a
  key from the handshake's second step to its end. It shows why the unconditional delete of the deferred cleanup is
  harmless to this property, though not to `ConnectedIsRegistered`: it removes entries and never leaves one behind.
* `FoundWhileServed` is the other half of what `RelayReconnect` refutes: in every behaviour in which no two handlers of one key are served at once (`NoOverlap`), a handler that serves is
  the one the map gives, and `ConnectedIsRegistered` holds. The hypothesis is about the behaviour, not the constants: a client that waits for its old handler to end before it connects again
  meets it, and by the theorem an overlap is the only way to be missed. The step that needs it is the deferred delete, harmless when no other handler of the key is there.
* `RelayTyped` (`RelayLive`), `SessionsServed`, `NoSocketIsLost` (`RelayUdp`): by `RelayInv`. `LocalsInv` says what a handler remembers in `route` (a key it
  has asked for, a connection of that key, a list of sockets only while it closes them), `MadeInv` that a session in use or in the table was made
  for a pair its client asked for. A socket is lost by no interleaving of `GetOrCreate`, `Remove`, `RemoveAll` and the readers.
* `RelayImplementsService` (`RelayLocal`, without UDP there): `Spec => ServiceSpec`. Each step is a step of `RelayService` or a stutter;
  a delivery is allowed because `LocalsInv` (for TCP) and `MadeInv` (for a reply) lead back to a pair in `asked`.

### Route agent (`RouteAgentProofs`; runs `AgentHostile`, and `AgentSteady` for the last two)

* `TypeCorrect`; `LockHolds`: nothing is advertised under the lock. The lock is written after the withdrawal, so `LockInv` adds the program points in between.
* `UpMeansHealthy`: until a run is killed, the node goes up only after `OkThreshold` good probes in a row. `StreakInv` ties the streak file to the true
  streak, with the point where it is a step behind.
* `UpMeansHeld`: the node goes up only `Hold` after the agent's own last withdrawal, over kills, failures and edits, except for a withdrawal the script does not know of
  (`unsaid`: the two ways in which TLC refutes the rule without the exception). `HoldInv` ties `last_change_epoch` and the run's `now` to that withdrawal.
* `DeadIsNeverKept`: a run that ends with `FailThreshold` failures behind it leaves nothing advertised, if the list is never edited, commands work and no run is killed;
  the container may restart and the operator unlock. `FailInv` says that when a run decides one of the two streaks is broken, `OnlyList` that the node
  advertises the list or nothing. These are hypotheses because TLC refutes it without them (an edited list, section 3).
* `FlappingLocks`: more than `MAX_FLAPS` changes in an hour lock the agent, if moreover the container does not restart and nobody
  unlocks. `FlapInv`: withdrawn and unlocked, fewer changes than the limit are in the hour; the lemmas `CountAged`,
  `CountAppended` and `CountPruned` say what ageing, a new line and the pruning do to the count.

### node-dedup (`NodeDedupProofs`; run `Dedup`)

* `OneIsKept`: the service never deletes all nodes of a device. Not inductive alone: `Planned` says that what is left to do was planned from this poll's list, and
  `KeeperStays` that the service has deleted none of the listed nodes before the plan is applied, and no keeper after. `GreatestExists` shows that a
  group has a keeper, `DeletesAreDoomed` that no deletion hits one.
* `OnlyOfflineIsDeleted` is the other half of what `DedupOnline` refutes: a node that the service deletes was listed, was offline in the list, and is not the keeper of its device. So the one way for an
  online node to be deleted is to come back during the poll. `NodesMove` says which action may take a node away; the rest is `Planned`.
* `DedupTyped`.

### Store (`PgStoreProofs`; run `PgStore`)

`StoreInv` has a part for each promise, said of every program point of a deploy and not only of its end. `NoSample`: a store that is on or will be turned on by this
deploy has a configuration, and without a restart in a rollback the sample key is nowhere. `Placed`: where the proxy runs at which point. `Stored`: the database holds what it did, less what users took out.
`KeysKept`, `WebKept`, `TokensKept`: where what must survive is at that moment (files, database or spool). `HalfSeeded`. From it: `KeysAreKept`, `DatabaseIsKept`, `WebDataIsKept`,
`TokensAreKept`, `SampleNeedsRestart`, `StoreTyped`, whether or not a seed may stop half-way; and `SeedIsFinishedUnlessStopped`, which has as its hypothesis that none stops,
since TLC refutes it otherwise (section 3).

### Collector (`CollectorProofs`; run `Collector`)

* `AckedIsKept`: what was answered with 200 is committed until it leaves the window. `CollectorInv` needs `Pinging` (who pings has somebody to ping), without
  which a report could be empty and `TypeOK` false. `OnlyKeeps` and `JoinHas` say what a filter and a join of rows contain.
* `HealthAnswersAreTrue`: a check that says ok is right when it answers. `StillThere` relates the rows it read to the table: what is still in the
  window of what it read is still in the table, because rows are only added, age alike in both, and a crash, which drops the open ones, ends the check.
  `NewestFirstHas`: sorting loses and adds nothing. `CollectorTyped`.
* `PagesTellWhatIsStored` (`PagesAreTrue`): the latency page, the aggregate, the series, the newest row of each pair and the lines of `/derp` say what the table says, for tables of any length and any
  LIMIT. It has `DistinctNames` as its hypothesis: no two peers share a host name, and labels and regions belong to one source. `MCCollector` assumes it too, so TLC evaluates it; with two
  equal host names TLC refutes `OnePerPair` (section 3). `Once` is the invariant: of a source, peer and moment there is one row, in the table and in the samples not yet stored; and a row of
  this moment means that its source sleeps until the next, so that it stores one report in a second. `NewestFirstSteps` says that the order is by age, `AggregateIsTrue` that the first row met of a pair is its newest.

### Texts (`TextProofs`; run `Scripts` for the same promises on the proxy's texts)

* `MergeOnce`: for every text, and every set of names that has those `merge` writes, `merge` keeps every other line as it is and in its order, adds none but its own (an
  `enabled: false` of the plugin becomes `true` in its place), and changes nothing when it is run again. `Merged` says where the lines went; `IsOn`, with the places of the keys it finds, is what makes the second run stop.
  If no line is indented by one, three or five (`ByTwo`), YAML reads the plugin's own switch as `true` as well, and as nothing else if the result is YAML: `OnIsRead` follows the parents from the switch up to `plugins`.
  The theorem does not say that the result is YAML, which it need not be (`MergeAlwaysTurnsOn`), nor that all plugins are on (`PluginsAreOn`).
* `AffinityOff`: for every text that is YAML (`IsYaml`) and has its top level at the margin (`AtMargin`), what `set_session_affinity_false` leaves is YAML, has no affinity that is `true`, means outside of
  `routing` what it did, and differs only in lines named `session-affinity` inside `routing`. Files the proxy writes meet both hypotheses. YAML's reading is the function `Paths`, defined by recursion over lines; that such a function exists and is the only one
  (`PathExists`, `OnePath`) is proved by the least line without a path, since the library's theorem has an operator as a parameter. `PathsByParents` then gives the path of a line by its parent's, and
  `InSection` ties the script's scan backwards for the section to the path.

### Scripts (`ScriptsProofs`, `DeployProofs`; run `Scripts`)

`OwnSteps` says that only the script chosen at the start moves, so each has an invariant of its own under `script = ...`:

* `SyncInv` (`KeySync`): `Bounded` counts refused keys: a sync sends one at most because a refusal ends it, and a rollback is entered from the first only; `LetIn` says
  which keys were seen to work; `StoreOn` that only a store that is on is rolled back.
* `VerifyInv` (`Preflight`): every listed node is waiting or in one list, and an endpoint whose strange answer passed for a no is found out because it accepts nobody.
* `HubInv` (`Beszel`): what the listing said there is, is there; each system the run has passed is there or its addition was refused.
* `BootInv` (`Gateway`): from the answer on, the credentials and the file openvpn runs with are of the version written down, or mounted.
* `QuotaInv` (`QuotaFailover`): `WrongKeys` counts refused keys by place, `SettingsSoFar` and `AccountsSoFar` say what has been set, up to others' edits.
* `EdgeInv` (`PortainerDeploy`, in `DeployProofs`): `Marked`, `Kept` (a changed edge is marked, and its old file copied before), `Returned` (how far a recovery
  is) and `Achieved` (how far a run is), by the command it is at. `DeployDoes` and its like read the lists of commands, `Where` says what is to the left and right of a position.

From these: `ScriptsTyped`, `GreenMeansIt` (`GreenIsTrue`), `NoBan` (`NeverBanned`), `GatewayHasOneAnswer` (`OneAnswer`), `RoutesRecover` (`Recovers`) and `KeysStay` (`OnlyAdds`).
The two editors of texts (`ConfigEdits`, `CaddyEdits`) promise nothing but `EditsAreTrue`, of which `TextProofs` has two parts.

### Only model-checked

* Liveness: `HealthyIsAdvertised`, `RoutesGetApproved`, `EventuallyTidy`, `MacsArrive`, `DeadClientIsCleared`, `HeardAgain`, `ComesBack`. The
  prover does not treat fairness and ENABLED.
* `EditsAreTrue` as a whole. It speaks of the texts that the proxy writes, as they come out of its writer after any edits, and of what YAML reads in the result at every path. `TextProofs` proves what two of the edits do to
  every text; that `merge` leaves YAML and the meaning of everything else, in the form it knows, is checked only; the key lists are gathered with `FlattenSeq` and `SelectSeq`, and a Caddyfile's depth is a `FoldLeft`, whose definitions the provers cannot unfold.

No module declares a recursive operator; recursion is by recursive functions.

## 5. Not modelled

Encodings, logging and HTML; data races on `dstAddr` beyond the two orders; shutdown of the relay
(the process exits); more than one host. Of the store: the first install without a `config.yaml`, a
database wiped from outside, the schema check, `cooldown_store`, archives in `backups/`, `WAS_ENABLED`, the rewrite of
`.env` that could lose a line when cut, the first moments in which the proxy's watcher reloads a file.
Of node-dedup: the contents of netchecks, the sender check, the forward of reports to the dashboard and the HTML itself. Of the gateway: the packet filter, whose verdict
depends on chains that tailscaled inserts, the name server, and what the reporter posts. Of the relay: the reader goroutine that outlives its handler on a full queue, which the inbox folds away.
The workflows that only copy files, the migrations inside PostgreSQL and the configuration of other people's programs have no logic to model. The other components of the
inventory are listed with the reason in `PROJECT.json`.

## 6. Plan

Done in this order, the most important behaviour first: `EndpointCache`, `SessionTable`, `Relay`,
`RelayService`; `RouteAgent`; `NodeDedup`; `PgStore`; `Latency` and `Collector`; the texts and their
edits; the scripts, composed in `Scripts`; then the proofs of section 4.

Left, in the order of what it would say:

1. `ConfigText`: that `merge` leaves a text in the form it knows (`Recognised`) YAML, with the meaning of everything else (`MergeOnce` has the lines and the plugin's switch).
2. `CaddyText`: that `remove-caddy-site.py` leaves every line outside of the site as it was.
3. `NodeDedup`: that if nobody else acts a device whose nodes are all known keeps the greatest by `Beats` (`OneIsKept` and `OnlyOfflineIsDeleted` say that one is kept, and what may go).
