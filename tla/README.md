# RustNps: specification and proofs

RustNps is a reverse proxy in two programs. `nps`, the server, listens on public
ports; `npc`, the client, sits behind a firewall and keeps a *control connection*
to the server. When somebody connects to a public port, the server asks the client
over the control connection to open a *data stream* (a new connection, or a stream
of a multiplexed one), and relays bytes between the two. An operator changes
clients, tunnels and hosts through a Web interface while all this runs. Everything
is threads and mutexes around one shared structure, `Registry` (`src/src/server.rs`).

This directory holds TLA+ modules for the parts of that program that are
concurrent or must survive failures, TLC configurations for small instances, and
TLAPS proofs. `PROJECT.json` maps every definition to the lines it models and lists
runs, mutants, findings, hazards and theorems.

## The parts

| Part | State | Operations | Module |
|---|---|---|---|
| Control plane (`handle_bridge_conn`, `control_loop*`) | `Registry.controls`, one channel and one thread per connection | hello, insert, write loop, removal; connect, leave, reconnect after 5 s | `ControlRegistry` |
| Link requests and slots (`request_client_stream`) | `pending`, `active_conn_counts`, `max_conn` | access check, acquire, look up, queue, send, wait, time out, wrap, drop | `LinkRequest`, composed with the control plane |
| Mux session (`mux.rs`) | stream map, `closed`, accept channel, `last_activity` | open, data, close, half close, session close, idle timer | `MuxSession`, implements `StreamService` |
| Relay (`relay.rs`) | two copy threads per end, TLS connection shared by both, `FlowCounter` | copy, half close, flush, count, refuse | `Relay` |
| Tunnel listeners (`start_tunnel_task`, `stop_tunnel_runtime`, `start_*_listener`) | `listeners`, `listener_shutdowns`, `tunnel_live_conns` | start, stop, bind, accept, serve, disconnect | `TunnelRuntime` |
| Hosts (`find_host_route`, `handle_http*_host_conn`) | hosts, response cache, target cursors | match, select, redirect, proxy, cache | `HostProxy` |
| Health (`start_health_monitor`, `set_client_health_target_state`) | failure counts, `health_targets` | probe, report, mask, restore | `HealthMonitor` |
| Store (`store.rs`, `persist_registry`) | four JSON files and a temporary file each, the id sequence | `save_all`, `write_atomic`, `load` | `Store` |
| Web mutations (`mutate_*`), configuration upload (`install_client_config`) | `clients` and all of the above | add, edit, delete, enable, disable, copy, upload | in every module whose state they touch |

How they meet: a listener or a host request calls `request_client_stream`, which
uses the control connection and is answered by a Data connection or a mux stream;
the pair of sockets goes to `copy_bidirectional`. Listeners and hosts choose a target
that the health monitor has not masked. The Web handlers change the records, save
them, and then stop, start or disconnect what depends on them, mostly without a
lock held over the whole. A handler appears in several modules, each with the part
of its effect that the module's state shows; they are not composed into one
specification, whose state space would be the product.

What is hard here, and hardly reached by the repository's tests: a client that
reconnects while the server still runs the thread of its old connection; answers that
arrive after the request gave up, or twice; slots reserved on one path and released
on another; listeners stopped and restarted under two differently keyed maps; a crash
in the middle of a save; mux streams created while the session closes; two threads
flushing one TLS connection; health reports overtaking one another. The list with
lines is under `hazards` in `PROJECT.json`.

## Modules

### ControlRegistry

One client key. State: `status` (the client exists and is enabled), `controls`
(the handle in `Registry.controls`, named by the connection whose thread made it),
`handler` (where that thread is: reading the hello, accepted, in its write loop, out
of it), `mailbox` (the channel of the handle), `link` (the TCP connection), `npc`
(the connection the client reads), `exited`, `admin` (the steps of the thread that
disables the client, and the handle it took out), `enabling` (a thread that enables it).

| Action | Code |
|---|---|
| `Connect`, `NpcLeaves`, `NpcExits` | `client.rs` `control_loop`, `control_loop_with_reconnect` |
| `Handshake`, `Register`, `WriteControl`, `LoopEnds`, `RemoveControl` | `server.rs` `handle_bridge_conn`, Control branch |
| `Enable`, `RestartTunnels` | `mutate_client_status` with status on: the record, then the tunnels |
| `Disable`, `StopTunnels` | the same with status off (delete and change of vkey withdraw the key the same way) |
| `TerminateControl`, `TerminateCounts`, `TerminateStop` | `terminate_client_connection`, one step per lock |
| `SendOpen` | the send in `request_client_stream` |
| `Break` | the network (external) |

The module has the actions and the properties of the control plane; the specification
is that of `LinkRequest`, because a request that waits keeps a clone of the handle
(the parameter `held`), and with it the channel of a stale handler open.

Details that carry the behaviour: the write loop ends only when a write fails or
when every sender of its channel is gone (`HasSender`: the registry, the Web thread,
requests); the server never reads the connection; TCP takes one write after the
peer has closed before it reports an error (`down`, then `reset`). The client reads
without a timeout and never writes, so it may never learn that its connection is gone
(`lost`). The removal at the end of a handler does not look at whose handle it removes.
`mux_sessions` is written but never read and is left out.

One timing assumption, `ServerQuiet`: the five seconds the client sleeps before it
reconnects are longer than what runnable server threads still have to do. Without
it a starved thread could fall behind by any number of reconnections. Stopping tunnels
(up to a second each), waiting in `recv_timeout` (at least ten seconds) and the TLS
handshake of a link are *not* assumed to be shorter.

One Web thread at a time disables the client; another may enable it meanwhile.

### LinkRequest

Extends `ControlRegistry`. A request is one call of `request_client_stream` with its
link id, and then the stream it returned until that is dropped. Each critical
section of the code is one action: access check, reading `max_conn`, test and
increment of the count, cloning the handle, insertion into `pending`, sending,
receiving or timing out, releasing the slot, removing the entry, wrapping, dropping.
`AnswerArrives` takes the sender out of `pending` (Data connection or mux stream),
`HandOver` sends the stream or, if the reply cannot be written, drops the sender.
`reserved` records who owns a slot; in the code it is the local `slot_reserved`,
until the stream is returned, and is not recorded after that: `DropStream` releases
unconditionally. `WrapTransport` is trivial for a plain stream; compression (`Compress`)
and the TLS handshake (`Crypt`) can fail, which leads to `leaked`, and the handshake can
hang, since it reads from the client without a timeout.

`TunnelStep` is what `stop_tunnel_runtimes` does to the requests: the visitors of tunnels
are shut down (`cut`). Those of hosts and secrets (`Hosted`) are in no tunnel's list.

`NoPeer` are requests whose peer address could not be read: the access check lets
them through without looking at the client. `held` is the set of handles cloned by
requests in flight; it keeps the channel of a stale handler open.

### StreamService and MuxSession

`StreamService` says what the users of a session are promised. A *half* is one end
of one stream. What a half writes is delivered to the other in order; its reader is
told of the end when the other half has closed and everything was delivered, or
after it closed its own direction, or when its end of the session is lost. The
second reason is not what one would wish for: it is what the code does
(see *Races and disagreements without a run*).

`MuxSession` models `mux.rs` at both ends: `wire` (frames on the way to each end),
`loop` (`read_loop`), `closed`, `drain` (between the two steps of `close_session`),
`streams` (the map), `chan` (the channel of a half; 0 stands for `None`), `pc` (how
far the half is: checked, inserted, open, Close sent, entry dropped), `sent`, `got`,
`eof`, `gone` and `broken`.

| Action | Code |
|---|---|
| `OpenStream`, `InsertStream`, `SendOpenFrame` | `open_stream`, `create_stream`: test of `closed`, insertion, Open frame |
| `WriteStream`, `ReadStream` | `write` and `read` of the halves |
| `SendCloseFrame`, `DropStream`, `CloseWithoutSession` | `close_write_once` with and without a session |
| `ReceiveOpen`, `Accept`, `ReceiveData`, `ReceiveClose`, `FlowExceeded`, `ReadWithoutSession`, `ReadFails` | `read_loop` |
| `IdleTooLong` | `ping_loop` |
| `Drain` | the second half of `close_session` |
| `LetGo` | `client.rs` `ensure_mux_session`, `open_mux_stream`: the holder's reference goes |
| `BreakConnection` | the network (external) |

Details that carry the behaviour. A write to a broken connection is lost, whether it
reports an error or not. Streams hold the session weakly: a session the client lets
go of takes the senders of its streams with it, sends nothing, and keeps the
connection open until the next frame arrives. The server never lets go of a session,
because its accept loop waits on a channel whose sender is in the session. Only
received frames count as activity for the idle timer. `read_loop` clones a sender
under the lock and uses it afterwards; both are one step, since nothing another
thread does in between can be told from its doing so before or after.
`LetGo` may happen whenever no thread uses the session: the holder and the links
that replace it are not modelled.

### Store

`clients` is `Registry.clients`, each with its tunnels and hosts (*items*) reduced to
id, on or off, `no_store`, vkey and origin; `disk` and `tmp` are the four files and
their `.json.tmp` companions; `work` is what a Web or bridge thread is doing; `seq` is
the id sequence. `unsaved` remembers that a save failed after a change.

| Action | Code |
|---|---|
| `ClientAddCheck`, `ClientAddInsert` | `mutate_client_add`, `register_web_user`: the check and the insertion are two critical sections |
| `ClientStatus`, `ClientDelete`, `ClientEdit` (`Rekeyed`), `GlobalSave` | the handlers of the same name |
| `ItemAdd`, `ItemDelete`, `ItemStatus`, `ItemEdit` | `mutate_tunnel_*`, `mutate_host_*`; an addition may be refused after it has drawn its id |
| `UploadHello`, `UploadRead`, `UploadRefused`, `UploadInstall` | the Config branch and `install_client_config`; an upload is not saved |
| `SaveBegin`, `WriteTmp`, `Remove`, `Rename`, `SaveFails` | `persist_registry`, `save_all`, `write_atomic`, one step per file operation, under the lock on `clients` |
| `Crash`, `Boot` | `load`, `install_persistent_state`, `observe_id` |

`Image` says what `save_all` writes (clients without `no_store`, or with an item to
keep), `Load` what a start makes of it, including records in the format of the Go
program. A start fails on a file that does not decode and takes a missing one as empty.
`Put` adds a client to the map or replaces it, as `HashMap::insert` does.

### TunnelRuntime

Tunnel records, `listeners` (the keys), `shutdowns` (from id to the thread whose flag
it is), the listener threads, the connections and UDP workers, and `work`: what a
handler still has to stop and to start. A handler changes the records in one step and
leaves that list; stopping is `StopFlag` (set the flag), `StopConns` (disconnect),
`StopWait` (poll until the key is free or a second has passed); starting is
`StartKey` (insert the key or give up) and `StartSpawn`. A listener thread is `Bind`,
`Poll`, `NoAccept` or `Accept`, `Unlist` (frees the key), `Unflag` (removes the flag).
A connection is registered, checks the tunnel (`Check`), and is served by one of
`ServeTcp`, `ServeHttpProxy`, `ServeSocks5`, `ServeUdp`.

Details that carry the behaviour: ids are not unique, so `tunnel_is_active` asks for
whichever record of the id comes first (`MayBeActive`, `MayBeInactive`); binding fails
while another socket, also one kept by a UDP worker, has the port; the wait for an old
listener can time out. `dropped` is a history variable: ids an upload left out.

### Relay

One connection between a visitor and a target through both programs, each with two
copy threads (`up`: local socket to link, `down`: the reverse). Without `crypt` a write
goes to the wire. With it, a thread seals a chunk into a numbered record
(`WriteLink`, `Seal`), and then flushes: `TakePending` under the lock of the connection,
`WriteTaken` under that of the socket. The reading thread flushes too. A write to a link that is cut
or whose other end has gone may fail or be taken and lost. The receiver
accepts records only in the order of their numbers, as TLS does. `Meter` and `Record`
are the counter at the server, shared with other connections (`OtherTraffic`); the
metered halves count a chunk after they have written it or read it (`AfterWrite`,
`AfterRead`).

### HealthMonitor

The monitor of `npc` goes through the checks in turn (`Probe`), counts failures,
reports each `max_failed` failures and each recovery over a connection of its own, and
waits for the answer. At the server `Validate` and `SetTargetState` are the two steps
of the Health branch. Reports are lost (`ConnectionLost`, `HelloLost`), both programs
restart, and the client is disabled, enabled or given another vkey (`ClientStatus`,
`ClientEdit`, `WebFinishes`). A target is up, down, or accepts connections without
answering 200, so that a TCP rule and an HTTP rule disagree about it.

### HostProxy

A request is a thread: it arrives on the HTTP or HTTPS listener, looks for a host
(`find_host_route`), and is redirected, passed through, answered from the cache, or
fetched and perhaps stored, with the hosts and the cache under separate locks. The Web
and uploads change the hosts meanwhile; `MaskChanges` is the health monitor.
`host_matches`, `route_supports_scheme`, `Better`, `select_target` and
`cache_key_for_request` are the code's functions. `find_host_route` is the loop over
the enabled clients (`Found`) around the loop over the hosts of a client (`BestOf`), with
`Better` in its body; the order in which the map yields the clients is a choice
(`Orders`).

### MC modules and proof modules

An `MC` module instantiates each specification for TLC (values of constants that a
configuration cannot write, symmetry sets). The theorems are in `LinkRequestProofs`
(control plane and requests together), `MuxSessionProofs`, `StoreProofs`, `TunnelRuntimeProofs`,
`HostProxyProofs`, `RelayUpProofs` and `RelayProofs` (which extends it), and
`HealthMonitorProofs`. Operators commented as mutants are plausible bugs; substituting one
for the definition it names must break a property.

## Runs

| Run | Instance | Shows |
|---|---|---|
| `control_plane` | 3 connections, 1 request for an encrypted stream, 1 break with or without notice, 1 toggle, client enabled or disabled at first | `NoDanglingHandle`, `EventuallyOnline`, `StaleHandlersEnd`, `RequestReturns` |
| `requests` | 2 requests (one without a peer address, one compressed), 2 connections, limits 0 and 1, 1 toggle, 1 edit, 2 answers each, the client may exit | `TypeOK`, `SlotLimit`, `SlotAccounting`, `NoPendingLeak`, `AtMostOneStream` |
| `stale_removal`, `disable_race`, `slots_terminate` | smallest instances | disagreements, below |
| `mux_service` | 1 stream, 2 writes each way, all faults | `ImplementsService`, `InOrder`, `NoStreamLeak` |
| `mux_liveness` | 2 streams, opened and closed only, no faults | `CloseArrives`, `ImplementsService` |
| `store` | 2 vkeys, 2 workers, ids to 3, 2 handlers, 2 crashes, 1 failing operation | `AlwaysLoadable`, `RestartRestores`, `IdsBelowSeq` |
| `tunnels` | 1 client, 3 ports (one UDP, one refused), 2 listener threads, 1 connection, 1 handler thread, 2 operations | `KeysMatchThreads`, `StopDisconnects`, `StoppedCloses` |
| `relay` | plain and TLS, limits 0 and 1, 2 chunks up, 1 down, 1 fault | `InOrder`, `EndAfterAll`, `LimitStops`, `ClosedRelayEnds` |
| `health` | one target under an HTTP rule (1 failure) and a TCP rule (2), 2 vkeys, 2 reports, 1 fault, 2 Web operations | `MaskIsRemembered`, `FailingIsMasked`, `PassingIsRestored` |
| `hosts` | 2 clients, 3 hosts as entered, 1 upload, 2 kinds of request, 2 at a time, cache of 1, 2 changes | `CacheConsistent`, `AnswersFit`, `RouteIsLongest`, `WebHostsDistinct`, `Rotation` |

### Bounds

Connections, listener threads and report connections are re-used once their thread has
ended, so they bound what is alive at a time: three control connections are a stale
handler, the one that replaced it and the next (`control_plane` has also been run with
two breaks and with two toggles, which takes several minutes); two listener threads are an old one
that ends late and its successor. Breaks, toggles, edits, crashes and faults bound the
environment only. Two requests are one more than the largest limit. Two answers cover
the mux stream and the Data connection the client falls back to. The mailbox bound is
at least the number of requests in every `LinkRequest` run, so it never blocks a send.
Two writes are enough for one to be lost, overtaken or left unread behind another; two
mux streams with writes and faults are too many states. Two crashes let the second hit
the repair of the first. A cache of one page is at its limit with every insertion.
`tunnels` has one handler thread, because two are too many states; the proofs of
`KeysMatchThreads` and `StopDisconnects` are for any number. `StoppedCloses` is
therefore checked for operations one after the other, but against listeners and
connections that end late.

Deadlock checking is off where the bounded environment can be used up and every thread
wait, which is a legitimate rest; in `health` and `hosts` something can always happen.

### Fairness

Weak fairness of the next step of each thread that is not waiting for somebody else:
operating-system threads are scheduled. In particular: server threads, the client's
reconnection (it retries for ever when `auto_reconnection` is on), a thread in
`request_client_stream`, whose wait is bounded by `recv_timeout`, and one that has taken
a sender, in `LinkRequest`; `read_loop`, a thread inside `open_stream`,
`close_write_once` or `close_session`, and the reader of a stream in `MuxSession`; the
listeners in `TunnelRuntime` (the accept loops poll); the copy threads in `Relay`, where
a socket is taken to accept what is written to it; the monitor, the handlers of reports
and the Web handler in `HealthMonitor`.

Where the code waits for the other side without a timeout, nothing is assumed, and the
properties except the wait: the TLS handshake of a link (`Shaking` in
`EventuallyOnline`, `StaleHandlersEnd` and `RequestReturns`), a control connection lost
without notice (`Deaf` in `EventuallyOnline`), a relay whose link is cut
(`ClosedRelayEnds`), a health report that is never answered (`Settled` in
`FailingIsMasked` and `PassingIsRestored`). Nothing is assumed of visitors, operators,
targets, failures, of requests and answers, or of how long a stream or connection stays
open.

## What disagrees with the docs and tests

* `stale_removal`: the clean-up of a replaced control handler removes the *new* handle
  (`server.rs` 560), although `docs/architecture.md` 35 calls the map that of the active
  handles; the client has to reconnect a second time. (`EventuallyOnline` shows that it
  gets there.)
* `disable_race`: a client disabled between its handshake check and the insertion of its
  handle stays online (500, 519), against what the test at 5186 asserts.
* `slots_terminate`: disabling a client shuts down the visitors of its tunnels, forgets
  its connection count (1073), and leaves the streams of hosts and secrets open. When
  the client is enabled again, `max_conn` more streams are admitted beside them;
  `docs/server_config.md` 97 calls `max_conn` the largest number of concurrent ones.

### Races and disagreements without a run

The models contain these behaviours; the properties are stated so that they allow them,
and no run is kept for each.

* A stream admitted without a limit releases a slot it never had once a limit is set
  (2026); a failure of `wrap_server_transport` loses a slot (1979). `SlotLimit` and
  `SlotAccounting` are therefore about a client no operator has touched
  (`Undisturbed`), and count a lost slot as taken.
* A request for an encrypted stream whose client falls silent in the TLS handshake never
  returns (`relay.rs` 611), although `docs/server_config.md` 21 speaks of a link timeout.
* A client whose control connection is lost without notice is not told and does not
  reconnect, and the handle of a vanished client stays in `controls` until something is
  sent to it; `Ping` is never sent.
* Closing one direction of a mux stream drops the entry through which the other arrives
  (`mux.rs` 216): its reader sees the end although the peer has not closed. A visitor
  that half-closes after its request can lose the answer that way.
* A mux stream inserted after its session was drained is not told that the session is
  closed.
* With `crypt`, the two threads of an end take records from the TLS connection under one
  lock and write them under another. When the local side closes, the reading thread can
  take the close_notify out; the writing thread finds nothing to flush and shuts the
  socket down; the write of the reading thread fails, and it gives up with data
  undelivered although nothing had failed. In the same way records can reach the wire in
  the wrong order, which the other end rejects. (`InOrder` shows that wrong data is never
  delivered.)
* A listener thread frees its key before its flag (926). The handler that waits for the
  key starts the next thread in between, and the old thread then removes the flag of the
  new one, by id. The next edit to another port has no flag to set, and the listener
  stays on the old port. (`StoppedCloses` shows that switching off or deleting the tunnel
  still closes it.)
* `write_atomic` removes the old file before it renames the new one (`store.rs` 347): a
  crash in between leaves none. `AlwaysLoadable` allows a missing file.
* An upload overwrites what the Web added to the client while it was being installed
  (734, 762). An upload that leaves out a tunnel does not disconnect its connections,
  and one that moves a tunnel leaves the old listener open.
* A health report that arrives late masks a healthy target until it fails and recovers
  again, and one validated under an old vkey misses the mask that moved. A report that is
  never answered stops all probes.
* Hosts always use the first live target (2621), although `docs/configuration.md` 83
  speaks of turns; a cached page outlives its host; `auto_https` also redirects requests
  that came over HTTPS (2909).

## Proofs

All for arbitrary constants that satisfy the named assumptions.

* `TypeCorrect`: in particular the slot count stays a natural number.
* `NoPendingLeakAlways`, `AtMostOneStreamAlways`: from `PendingInv`, which says where
  the sender of a request is: as long as it has not been made or is in `pending`, no
  thread has it and no stream was sent. Hold with operators, breaks and edits.
* `RequestsFindLiveHandles`: `NoDanglingHandle`, which is inductive with the types: the
  removal at the end of a handler comes before the thread returns, and it removes any
  handle.
* `SlotAccountingAlways`, `SlotLimitAlways`: from `SlotInv`, which holds as long as the
  client is `Undisturbed` (a disturbed client stays disturbed). It ties the count to the
  requests that are charged (`Charged`: those that hold a slot and those that lost one),
  each request's `reserved` to its control state, and the limit it read to the current
  one. Each path that gives a slot back takes exactly one request out of `Charged`, which
  is where a double or forgotten release would show. Finiteness of `Charged` is part of
  the invariant, so the set of requests may be infinite.
* `NoStreamLeakAlways`: an entry could be orphaned if a stream were started twice, so
  the invariant follows the Open frames: `OpenOnce` says that there is at most one for
  a stream, only while the server has no object for it and the client is past
  `open_stream`. `GoneInv` adds that a session the client let go of has no entries and
  gets none; it is needed for the close that finds no session.
* `FilesAlwaysLoad`: a rename publishes the temporary file, so `SaveInv` adds that one
  worker at a time is in `save_all` (`OneSaver`, the lock on `clients`) and that the
  temporary file of the file it is about to rename is complete (`TmpWritten`).
* `TypeCorrect` and `IdsAlwaysBelowSeq` of `StoreProofs`: from `MemInv`. The sequence is
  compared with the memory and with what handlers are about to insert; the files need
  only be well formed, since a start passes every id it reads to `observe_id`, which a
  greatest-element argument over finite sets turns into a bound.
* `RestartAlwaysRestores`: `Progress` says that a save has put the present memory into
  the files before the one it is at and into the temporary file it is about to rename,
  which is where the lock over the whole of `save_all` enters. `ImageLoads` is the
  lemma that `Restart` inverts `Image`: what is dropped is exactly what is not stored,
  and records find their client again by its vkey.
* `KeysAlwaysMatchThreads`, `StopAlwaysDisconnects`: both from `TunnelInv`. For the
  keys it needs that a handler in `spawn` has something to start (`StopsFirst`). For the
  connections, that a connection not yet shut down is in `tunnel_live_conns`
  (`Registered`: it is registered before it checks the tunnel), and that a handler
  switches the tunnel off before it disconnects (`Stopping`). There is a lemma for each
  handler, each step that stops and starts, each step of a listener and of a connection.
* `AnswersAlwaysFit`, `CacheAlwaysConsistent`, `WebHostsAlwaysDistinct`: from `HostInv`. A
  page is stored under the key of its own request (`CacheInv`), and the key a thread
  computed at the start is that of the response it stores (`ThreadInv`), although the host
  may have been edited meanwhile; the queue enumerates the keys (`OrderInv`).
* `RouteAlwaysLongest`: an induction over each of the two loops: after `k` rounds the
  best is a candidate among those seen and at least as long as each of them. For any
  number of clients and hosts and every order of the map.
* `RotationAlways`: after `k` selections the cursor is the starting one plus `k`, up to
  the wrap-around that `select_target` makes; hence `n` selections are a rotation of the
  `n` live targets. From any cursor, also one left by a longer list.
* `InOrderAlways`: from `Inv`, per end: what is still to be read
  continues what was taken (`Source`), what was written and is held is in order (`Sink`).
  Without TLS the wire continues it (`Wired`). With TLS records may be on the wire in any
  order; each carries the chunk of its number (`Sealed`), and what has been opened is the
  first ones (`Opened`), because the receiver takes only the number it expects.
* `EndAfterAllAlways`: `EndOK` and the part of `Wired` that says why a source has given up.
  With TLS the end of the socket is accepted without a close_notify, and the property is
  not claimed.
* `LimitStopsAlways`: `Flow` compares the counter with what has passed, up to the chunk
  each thread has moved and not yet counted. `RelayUpProofs` has the invariant and the
  steps that do not read the link, `RelayProofs` those that do, and the theorems.
* `MaskAlwaysRemembered`: from `MaskInv`. A report whose connection is open is the one the
  monitor waits for, and the check it is about has reached `max_failed` (`OneReport`), so
  the mask it sets is remembered. The counter is cleared on an `Ok` only, and by then the
  mask is gone (`Restored`). Masks are under the present vkey only. A late report breaks
  this, hence the hypothesis `[]~Late`: `MaskInv` is kept by the steps from states
  without one.

`TypeCorrect` is proved for `Relay`, `Store`, `TunnelRuntime`, `HostProxy`, `LinkRequest`
and `HealthMonitor`, and is the first conjunct of the invariants above.

Induction over data. The provers cannot instantiate the library's induction theorems,
which take a predicate as parameter. `HostProxyProofs` states induction for *sets* of
numbers (`LeastNat`, `NatInSet`), from which it follows that a recursive function over
`0..n` has the values its equation says (`LoopExists`) and that a bounded set of numbers
has a greatest (`HasGreatest`). This is enough for `Without`, `BestOf`, `Found` and the
rotation, and in `StoreProofs`, which has its own copy of the last lemma, for
`observe_id`.

Only model-checked, because the prover does not do liveness under fairness:
`EventuallyOnline`, `StaleHandlersEnd`, `RequestReturns`, `CloseArrives`,
`StoppedCloses`, `ClosedRelayEnds`, `FailingIsMasked`, `PassingIsRestored`. Also only
model-checked: `InOrder` and `ImplementsService` of `MuxSession`. The three
disagreements are counterexamples and need no proof.

## Not modelled

* Several client keys in `ControlRegistry` and `LinkRequest` (they share no state but
  the registry's maps), and with them the connection counts left under an old vkey.
* The client's mux holder: one mutex around an `Option`, whose races all end in `LetGo`.
* Rate limits (they only delay), the messages of the TLS handshake, bytes: a chunk is a value.
* Parsing of configuration files, port lists and addresses; the tunnel limit and its
  comparison: a refusal is a choice.
* The map from UDP peers to workers; the list of secrets; P2P.
* IP authorisation, captcha and Web sessions: maps with expiry times, each under one
  lock. A refusal is a choice of the access check.
* Header rewriting, certificates, white lists, basic authentication, SOCKS5 messages and
  the file service, except for their outcome.
* Transports, framing, views, logging, command line: I/O, parsing and presentation.
