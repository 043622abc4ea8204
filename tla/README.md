# A TLA+ model of jokertc

jokertc is one Go process that helps two browsers (a "device" and a "phone")
set up a WebRTC call: a WebSocket signaling endpoint that pairs them, an
embedded STUN/TURN server that relays for them, and the HTTP plumbing around
both (health checks with load-balancer draining, metrics, static test pages).
This directory holds a formal model of it: TLA+ modules, the TLC runs that
check them on small instances, and proofs checked by TLAPS.

## The system

| Component | State | Operations | Interacts with | Hard part | Correct when |
|---|---|---|---|---|---|
| Pairing registry, `signaling/hub.go`, `protocol.go` | `sessions` map (two slots, `readySent`, lonely timer per session) behind one mutex; per peer a bounded channel and a one-shot close request | `join`, `leave`, `forward`, `expireLonely`, `Close` | called by handlers and timers; writes only to channels | what a function does after it unlocked, with pointers it read before; callbacks already running when a timer is stopped; replacement; full channels | slots name live peers; `readySent`, timers, map and gauge agree; departures are announced; one side offers; displaced peers are closed |
| Connection goroutines, `signaling/conn.go`, `routes.go` | per socket: handler, writer goroutine, a context, the `closing` channel, the socket; `Hub.wg` | `handleConn`, `awaitJoin`, `readLoop`, `writeLoop`, `flushAndClose` | calls the registry; reads its channels; ended by `Hub.Close` through a context hook | who closes the socket and who may never; clients that stop reading; shutdown against a connection that just arrived | one writer; nothing left behind; every ended connection leaves the registry; shutdown terminates |
| Health checks, `healthcheck/` | `isReady` | `/livez`, `/readyz`, `/drain`, `/undrain` | HTTP server | two drains at once, an undrain while a drain sleeps | the load balancer gets `DrainDuration` to notice |
| Server and main, `server/server.go`, `cmd/server/main.go` | the servers, `errCh`, a `WaitGroup` | `New`, `RunInBackground`, `Shutdown` | starts and stops all others | order of shutdown, errors nobody reads, a component failing while another starts | shutdown ends every component; the first error is reported; no sender blocks |
| STUN/TURN server, `turn/turn.go` | listeners, `stopped` | `New`, `Run`, `Close` | pion | partial failure of `New`; `Run` against `Close` | closed once, listeners released |
| STUN packet layers, `turn/stun.go`, `stunlog.go`, `stunfilter.go`, `anyauth.go` | table of attempts per source; counter of dropped packets | `ReadFrom`, `WriteTo`, `count`, `forEachAttribute`, `decodeAddress`, `forgeIntegrity` | wrap pion's packet connection | attribute lengths at the end of a packet; the table at its limit; two goroutines on one table | no read outside the packet; the table is bounded; what passes is unchanged |
| Credentials, `signaling/credentials.go`, `turn/auth.go` | none | `turnCredentials`, `Authenticate` | join, pion | | what the hub hands out is what the relay accepts |
| Test pages, `server/static/*.html` | one peer connection per page | message handlers | the signaling protocol | handlers that await while messages arrive | one offer per peer connection |
| Metrics, API, logging, CLI, `metrics/`, `api/`, `common/`, `cmd/cli/` | counters | none that changes state of interest | | | |

## Modules

| Module | What it is |
|---|---|
| `Pairing` | what the registry promises, without mutex, channels, timers or goroutines |
| `Hub` | the registry: every operation of `hub.go`, with the mutex, the timers and the channels; implements `Pairing` |
| `Signaling` | EXTENDS `Hub`: the handler and writer goroutines of `conn.go`, the client, and shutdown |
| `Closing` | what `Hub.Close` promises the rest of the process: `Signaling` implements it, `Lifecycle` uses it |
| `Lifecycle` | the process: `main`, `server.Server`, `turn.New` and `Run`, and the health-check handlers |
| `StunMessage` | STUN packets and credentials: the attribute walk, the mapped address, the forged integrity, what pion decides |
| `StunListener` | EXTENDS `StunMessage`: the layers around the relay's UDP socket, their table and counter, reader and writers |
| `MCHub`, `MCSignaling`, `MCLifecycle`, `MCStun` | small instances for TLC |
| `HubProofs` | EXTENDS `Hub`: types and the invariants of the registry |
| `HubFrames` | EXTENDS `HubProofs`: what the channels hold |
| `HubRefinement` | EXTENDS `HubProofs`: every step of `Hub` is a step of `Pairing` or a stutter |
| `HubLiveness` | EXTENDS `HubRefinement`: what the goroutines of the registry bring to an end |
| `SignalingProofs` | EXTENDS `Signaling` and `HubProofs`: its safety theorems, among them that it implements `Hub` |
| `SignalingLiveness` | EXTENDS `SignalingProofs`, `HubLiveness`, `HubFrames`: what the goroutines of a connection bring to an end; that they provide the fairness of `Hub`; what follows for real connections |
| `LifecycleProofs`, `StunProofs` | EXTEND `Lifecycle`, `StunListener`: their theorems |

### Hub

A `*peer` is an element of `Peer`; `join` makes a new one each time, so a client
that reconnects is another element. A session is a key of `live`; `slot`,
`readySent` and `lonely` are the fields of `*session` (`lonely[s]` is the device
whose `*time.Timer` the field holds). `Lower` stands for `strings.ToLower`, so two
labels may be one key.

A critical section is one step when it sends nothing on a channel (`Forward`,
`Leave`, `ExpireLonely`, `CloseSweep`). `join` sends while it holds the mutex, and
writers drain the channels meanwhile, so it is two steps with `mu` held between:
`JoinRegister` (register, `joined`, `ready`, the timer) and `JoinAnnounce`
(`remote_joined` to everyone, unlock). What is done after unlocking is a step of
its own that uses the pointers read before: `CloseReplaced`, `ForwardSend`,
`LeaveSend`, `ExpireSend`, `ExpireClose`, `CloseGauge`. `at[p]` says where p's
handler stands and `target[p]` whom it has captured.

The lonely timer goes `armed`, `firing` (the callback runs and waits for the
mutex; `Stop` has no effect any more), `sending`, `closing`, `done`.
`p.send` is `Send`: a full channel drops the frame and requests the close;
`closeOnce` keeps the first reason. Frames carry, besides their type, the peer they
are about, which is not on the wire: the properties need it.

### Pairing

The registry as a client may think of it: `pair` is who has which place, `agreed` the
sessions whose two peers were told of each other, `displaced` who lost a place and is to be
asked to leave, `owed` the pairs <<partner, leaver>> for which a word is due, `closing` who
was asked to leave for whatever reason. `Hub` maps to it by `pair <- slot`,
`agreed <- readySent`, `used <- at # "dialing"`, `closing <- closeReason # "none"`,
`open <- sweep = "open"`; `displaced` holds the targets of the joins between their
registration and `CloseReplaced` and the devices whose timer is between `ExpireLonely` and
`ExpireClose`, and `owed` the targets of handlers between `Leave` and `LeaveSend`. So what
the code still has to do after an unlock is a debt of the abstract registry:
`PairingSafety` says that debts arise, and are paid, only as `Pairing` allows,
`PairingPromises` that they are paid. `Settled` and `LostForGood` are what a client may
conclude from `Pairing` alone: one place each, never a second one, and the two of a session
are told of each other exactly while both are there.

### Signaling

`handler[p]` follows `handleConn` from `websocket.Accept` to its deferred calls;
`writer[p]` follows `writeLoop` and `flushAndClose`; `cancelled[p]` is the connection
context; `link[p]` is the socket: `up`, `stalled` (the client does not read, so a
write does not return) or `down`. `wg` is the WaitGroup's counter and `stage` how far
`Hub.Close` has come: `cancelled`, `waiting`, `released` (the last `Done` has woken it
and it has not run yet), `waited`, or `panicked` (it woke to a counter that is no
longer zero, which the runtime answers with a panic).

Each step is a step of `Hub`, or leaves `Hub`'s variables alone. The actions are
grouped by who takes them: `HandlerSteps`, `WriterSteps`, `ClientSteps`, the shutdown
hook, `Close`. The socket library is not part of the repository; it is modelled from
how `conn.go` uses it: `Read` and `Write` end with their context and the socket is then
closed, `Close` and `CloseNow` are bounded.

### Closing

`inside` are the connections between `wg.Add` and `wg.Done`, `gone` those that have ended,
`phase` where `Hub.Close` stands: `open`, `closing`, `released`, `closed` or `panicked`.
`Signaling` maps to it by `Running`, the handlers that are done, and `Phase`, which takes its
`cancelled` and `waiting` for `closing`; the sweep and the gauge are stutters. `Lifecycle` maps
to it by its `/ws` requests, and there `phase` is the variable `hub`. So the two modules, whose
product is out of TLC's reach, meet in this one: `ClosingSafety` says that the connections do no
more than `Closing` allows, `HubSafety` that the process expects no less, and `ClosingPromise`
is the fairness of a cancelled socket that `Lifecycle` assumes.

### Lifecycle

`main` is where the main goroutine stands: `new`, `created` (after `signal.Notify`),
`select`, then the steps of `Shutdown` in their order (`signaling`, `sockets` while
`Hub.Close` waits, `api`, `draining` while `srv.srv.Shutdown` waits, `metrics`, `turn`,
`wait`), `exited`; or `failed` and `killed`, when `New` fails and when a signal comes before
`Notify`. `goroutine[c]` is what `srv.wg.Go` runs for component `c`: `ListenAndServe` split
where `Shutdown` can come between (`starting`, `listening`, `serving`), or `turn.Server.Run`;
`failing` is at the send on `errCh`, `sent` and `returned` are its ends. `stopping` holds the
servers that `Shutdown` was called for, `bound` the open listening sockets.

`at[r]` is where the handler of request `r` stands; `sleeping` is inside `/drain`,
`socket` is a hijacked `/ws` connection that `Hub.Close` waits for, also one that comes while it
waits, and `late` one that came after it. `hub` is how far `Hub.Close` is: a socket that comes
between the end of the last one and the wakeup of `Close` makes the WaitGroup panic, which ends
the process (`SignalingPanics`) as main's return does (`Exit`): what is in a handler then is cut off
(`CutOff`). Of the hub only that much is here; the rest is `Signaling`.
`age[r]` is the time since the request was read. Time is discrete, and a handler that does not sleep takes none:
`Tick` waits until every handler sleeps. An answer written `WriteTime` or more after the
request was read is `lost`; the connection's write deadline has passed. `down` is how long the
load balancer could have seen `/readyz` fail, `undone` the drains an `/undrain` has overtaken;
both are there for the property. The requests of the metrics server, which do not sleep, and
the exit status are left out.

### Stun

A packet is a record: `len` is how many bytes came, `declared` what its header claims, and
`attrs` the attribute headers a walk would meet, each with its offset and the length it
claims. Both lengths may lie. A value is a tuple of what it says and a digest is a free term,
so a MAC is right only when key, covered length and covered attributes are. `Visited` is
the walk of `forEachAttribute`; `Forge` is `forgeIntegrity`, including that it writes past
the end of an integrity attribute that is too short; `Verdict` is what pion makes of an
allocation, external and modelled from the comments in `anyauth.go` and the rule in
`auth.go`. Where the MAC is written over the header of the next attribute (`Spilt`), the walk reads
two of its bytes as a length, any number `SpiltLen`, and goes on where that leads it.

`conf` is the part of the configuration that chooses the layers of `turn.New`: logger,
filter, rewriter, in this order from the socket. `Read` is one packet through all of them, or
up to the filter; `hand` holds what pion's only reading goroutine was given; `answers` are
the binding responses pion owes or is writing. An answer is written in two steps, `Send` and
`Report`, because the attempts its log line shows are read after the write, while the reader
counts. `arrived`, `shown` and `line` are history for the properties: requests that came,
how many were logged at info, and the line this step wrote.

## Runs

| Run | Instance | Shows |
|---|---|---|
| `hub_registry` | 3 peers, 2 ids, channels of 2, timers, `Close` | every interleaving of joins, replacements, departures, timeouts and the sweep: slots, `readySent`, timers, map and gauge agree; departures announced; displaced peers being closed; who may lose a slot and when `ready` is sent; a goroutine inside a hub function has its next step to take, a join that announces to full channels too (`NobodyStuck`); every step is one `Pairing` allows |
| `hub_pair` | 2 peers, 1 id in two spellings, channels of 3, 2 signals each, fair | the order of frames a client may rely on; debts are paid (`PairingPromises`); a timed device does not wait for ever |
| `hub_stale_bye` | 3 peers, 1 id | **violated**: a phone reads `bye` after the `ready` of a pairing that stands |
| `hub_alone` | 2 peers, 1 id, fair | **violated**: a device does not stay alone without a limit |
| `signaling_safety` | 2 connections, 1 id, channels of 1, 1 signal each, pings, stalls, `Close` | one writer per socket; nothing left when a handler returns; a departure is announced after the socket is closed; the wait is complete for the handlers it counted; registry and gauge end empty |
| `signaling_liveness` | 2 connections, 1 id, channels of 1, stalls, fair | a client that reads is closed on request, without signals and pings (with them it is `CloseRequestsAreHeard`); `Hub` is implemented with its fairness |
| `signaling_one_client` | 1 connection with all of it at once: timer, signal, pings, stall, `Close` | its goroutines wait only for what they are meant to wait for (`WaitsAreJustified`); an unanswered ping ends the connection; a connection that its client, its loops or `Close` ends returns; `Close` returns whatever the client does |
| `signaling_slow_peer` | 2 connections | **violated**: a client that stops reading is never closed |
| `signaling_close_waits` | 1 connection | **violated**: `Close` returns while a handler runs whose connection was accepted before `Close` was called |
| `lifecycle` | 3 components, 2 requests, 45/30/30 s as 3/2/2 | whatever starts, fails, drains or is signalled: an error is fatal and its sender does not block; `Shutdown` returns, or panics in `Hub.Close`, and leaves no goroutine and no socket; only a sleeping drain is cut off, after the whole graceful period, unless the panic cuts off whatever there is; the hub is used as `Closing` allows, sockets that come while `Close` waits or after it included (`HubSafety`); an answered drain has given its time |
| `lifecycle_drain` | 2 requests | **violated**: a call to `/drain` is answered |
| `stun` | 2 sources (IPv4, IPv6), table of 1, 2 requests each, all 8 configurations, about 50 packets | the table is bounded, exact, and hides no source; a disabled listener answers nothing; the line about a response is true; the session's token opens the relay and, without the rewriter, nothing else does; a packet that lost its end is read within what is left |

### Bounds, and why they are enough

Three peers are the least that give a pair and somebody who replaces one of it, and a
pair and a stranger in another session; a fourth would only make two such cases happen at
once. Channels of one and two frames make the full channel happen in every situation; the
code's 16 would only delay it. A channel of three holds `joined`, `ready` and a signal, or
two signals of one sender in a row, which is what the order of frames is about: that is
`hub_pair`, and `hub_registry` therefore has no signals. `MaxSignals` bounds the frames one
client sends and `MaxRequests` the binding requests of one source; they are the only bounds
that are not parameters of the program. `Shutdown` and `NoReceiver` switch `Close` and the
lonely timer off in the runs whose question they do not touch; the timer beside the
connection layer is in `signaling_one_client`. Two connections on one id pair with or replace
each other; a third adds nothing to what one connection's goroutines do to their own socket.
Symmetry is over peers, and in `hub_registry` over the two session ids too (`Lower` is the
identity there and both ids are model values); it is used only in runs without liveness
properties. Runs allow deadlock, because a system whose clients are all gone stops, and a
process that has exited does nothing.

In `lifecycle`, two requests are a drain and another drain, an undrain or a socket; the
properties relate no more than two. The unit of time, 15 s, divides the three durations that
matter, and only their order does: sleep longer than write deadline and graceful period.

In `stun`, a table of one is full with the first source, so the second is past the cap; two
requests of each are one that is new and one that is not. `SpiltLen` is 16, with which the walk of
a packet that is written over skips one attribute and meets the next. The packets have each shape the
code tells apart: no attribute, padded ones, a too short integrity, attributes after it, two
names or two integrities, the wrong realm, user or password, a masked, an unmasked and a
wrongly masked address, no cookie; whole, cut, and with a header that claims four bytes more
or less. `CutAt` are the lengths at which the property cuts again: below the header, inside an
attribute header, inside a value, between two attributes.

### Fairness

`Hub`: a goroutine inside a hub function keeps running, an armed timer fires
(`time.AfterFunc`), and its callback gets the mutex however often others take it: strong
fairness, because a `sync.Mutex` that somebody has waited for longer than a millisecond is
handed over. No client has to join, send, leave or read, and nobody has to call `Close`.
`hub_pair` and `hub_alone` assume it directly; that connections provide it is checked in
`signaling_liveness`, with `FairSpec` as a property, and proved (`HubIsScheduled`).

`Signaling`: weak fairness for the steps of a handler and of a writer outside its `select`,
which covers what the code bounds itself: `joinTimeout` (`AwaitFails`), `PingTimeout`
(`PingFails`), the shutdown hook. A `Write` returns only while the client reads
(`WriteReturns`): nothing in the code bounds it. Strong fairness (`Contended`) for what is
ready again and again while other things are taken: the ended context and the close request
in the writer's `select`, because Go picks among ready cases at random; a `Read` whose
context has ended, which a client that sends for ever may satisfy once more but not always;
the flush, which `closeGrace` ends however many frames are left; the mutex that `leave`
waits for. A join goes on under weak fairness, whoever holds the mutex meanwhile: the label
is chosen in the step that reads it, so one of its steps is always enabled. All of it is
assumed only as long as the process runs (`Alive`): the panic of the WaitGroup ends it.
`signaling_slow_peer` assumes besides (`SlowSpec`) that a client which reads now and then
takes its frame, so its counterexample is a client that never reads again, not one that is
unlucky.

`Lifecycle`: weak fairness of `main`, of each component's goroutine, of each handler that is
not a hijacked connection, and of the clock, as long as the process has not panicked. A socket
has to end only once the hub has cancelled it, which `KeepsClosingPromise` proves of the
goroutines of `Signaling`. No signal, no failure and no request has to come.

The STUN modules state no fairness: whether a datagram or its answer gets through is nobody's
promise.

## What is proved

For every set of peers, sessions and labels, every channel capacity, with and without
timers and shutdown. The assumptions are `HubAssumption` (`nil` is not a peer, the empty
label is not a label, `Lower` is a function, the capacity is positive) and
`PingsAssumption`; the other components name theirs below.

`HubProofs`. No single invariant of the registry is inductive: that a slot names a live
peer needs the timer to belong to a lone device, which needs `readySent` and the map to be
right. The induction has two layers. `Handlers` is the types and where a handler or a
timer stands (one that has a target captured a peer; one that is inside has a label and a
role); it is inductive by itself. `RegistryOK` is the conjunction of `NoStalePeer`,
`ReadySentIffPaired`, `NoEmptySession`, `TimerGuardsLoneDevice` and the fact that a timer
handle exists only when the timeout is configured; it is inductive relative to `Handlers`.
The steps that change the map are `join`, the two that empty a slot (one lemma,
`VacateStep`, serves `leave` and `expireLonely`) and the sweep; all others are covered by
`QuietStep`. On top: `SessionsAreExact` (the map is the sessions somebody is in and the gauge
is their number, which needs the map's cardinality and, while `Close` is between unlock and
`Add`, the number it took along), `EvictionCorrect` (a peer loses its slot only for one of four reasons) and
`OrphanClosed` (one that lost it and is still served has its close requested or owed).

`HubFrames`. All four properties are about what a step may do to a channel, so this is proved
once (`ChannelChange`): it leaves the channel alone, takes its head, abandons it, appends one
frame whose sender is known, or makes the channel of a peer that is joining. `FramesKnow` is
what a queued frame tells about the peer it names: that it has joined, and, for a signal, that
it has sent it and will not send it again (`FramesOlder`). From this `FramesInOrder` and
`OneInitiator` follow frame by frame. `DepartureIsAnnounced` adds what becomes of a peer that
has a slot (`SlotFate`): it keeps it, leaves and then owes its counterpart a bye, is replaced,
which queues a newer `ready` or requests the close, or falls to the sweep; the timer takes none
that is paired. `ReadyWhenPaired` is an action property: the join that forms a pair tells both
or closes the one it cannot tell (`PairIsTold`), and a `ready` is new only to one whose pair has
just formed (`ReadyIsNew`).

`HubRefinement`. `ImplementsPairing` has one lemma per action. It needs the invariants:
`readySent` is "both were told" only because it agrees with the slots, a departure frees the
leaver's own place only because no slot is stale, and a debt is made once because a handler
with a target captured it in its own critical section. `DisplacedIs` and `DisplacedKept` turn
the set of displaced peers, a union over handlers and timers, into one fact per peer.
`PairsAreSettled` is about the abstract registry by itself: whatever implements it, so `Hub`
and real connections too, keeps `Settled` and `LostForGood`.

`SignalingProofs`. `HubImplemented`: every step of the connection layer is a step of `Hub`
or a stutter, so all of the above holds among real connections. `Places` ties a handler's
place to its place in the hub, its writer and its socket, and `WgExact` the counter to the
handlers between `Add` and `Done`. From these and the registry's invariants:
`NothingLeft`, `OneWriter`, `SocketFirst`, `WaitCorrect`, and `ShutdownClean` (the only one
that needs all layers: handlers are done, so no slot names anybody, so no session is in the
map, so the gauge is zero). `ImplementsClosing` is the refinement of shutdown: `WgExact`, as a
fact on cardinalities (`CounterCounts`), makes "the counter is zero" into "nobody is inside", so
`Wait` returns only then; only `Enter`, `Return` and the steps of `Close` are seen
(`MovesInside`, `OthersUnseen`).

`HubLiveness` and `SignalingLiveness` prove the liveness of the registry and of the
connections, for every number of peers, sessions and connections. A proof of liveness has
two halves. That a step whose turn has come is enabled is a fact on ENABLED, which the
prover does not expand: it is stated as an invariant, `NobodyStuck` for the registry and
`WaitsAreJustified` for the connections, checked by TLC (`hub_registry`,
`signaling_one_client`), and a hypothesis of the theorems. Both are worth stating without
the proofs: the first is the comment "this cannot block" of `send`, the second that no
goroutine waits for the other in a circle. `signaling_one_client` has no second connection
to hold the mutex; with `WaitsAreJustified` among its invariants `signaling_safety` passes
as well, in half as much time again. The other half is proved from the fairness and the
invariants above:

* A step that is due stays due until it is taken (`HandlerAlone`, `TimerAlone`,
  `OthersWait`): nobody moves another's handler or timer, whatever the others do in between.
* The mutex is given back again and again (`MutexReturned`, `MutexFreed`), so what waits for
  it under strong fairness gets it. With these, `DebtsArePaid` (`PairingPromises`: a bye
  owed is sent, a displaced peer is asked to close) and `LoneDevicesResolved`.
* `handleConn` has no way back, except that its read loop repeats while the socket is open.
  `Ahead` is the number of places before a handler until that loop ends; in a join, and
  anywhere once the socket is closed, each of its steps lowers it (`AheadFalls`), so a join
  ends (`JoinEnds`) and a handler whose socket is closed comes out of its loop
  (`ClosedComesOut`). What can be taken any number of times before a goroutine moves on, a
  frame in the `select`, a message in `Read`, a frame in the flush, is where `Contended` is
  needed (`FlushIsBounded`, `LoopIsLeft`, `CancelledReadEnds`).
* What ends a connection comes from four sides: its socket is closed (`OverEnds`), its loop
  has ended (`StoppingEnds`), the hook of `Close` fires (`HookCloses`), its writer has ended
  and cancelled the context (`WriterEndsBoth`). Together `EndedConnectionsReturn`,
  `SilentClientsAreClosed` and `CloseRequestsAreHeard`.

`HubIsScheduled` is the fairness half of the refinement: with `HubImplemented`, the
connection layer implements `Hub` with `Hub`'s fairness. Each step that `Hub` assumes fair
is a step of a handler or a timer of `Signaling` (`HubRuns`, `NextInHub`); `NobodyStuck`
says, in both directions, when it is enabled in `Hub`, and `WaitsAreJustified` that it is
then enabled in `Signaling`. It needs that the WaitGroup does not panic (`[]Alive`), because
nothing runs any more when it has. While `Close` is not called it cannot (`OpenIsAlive`), so
without shutdown the promises hold among real connections (`PromisesAmongConnections`), and
with it they hold or the WaitGroup has panicked (`PromisesUnlessPanic`); the safety of the
pairing holds there in any case (`PairingAmongConnections`).

From these pieces follow statements from one end of the program to the other, about more
connections and more at once than any instance with fairness has, so no run checks them.
`EndedConnectionsClear`: a connection that is being ended gives back its place in the registry,
its socket and its writer. `KeepsClosingPromise`: once `Close` is called every connection ends,
those that come meanwhile included. `DisplacedConnectionsReturn`: a peer that was replaced or
timed out is not only asked to close, its handler returns. The way goes through another
goroutine's `close` after its unlock, its own writer's `select`, the flush, the read loop and
the leave (`AskedReturns`). `LoneDevicesReturn`: a device whose timer is set gets a phone or its
handler returns. The last two except a client that is found not reading again and again
(`[]<>(link[p] = "stalled")`): it is the client of `signaling_slow_peer`, and the theorems say
that nothing else keeps such a connection.

`LifecycleProofs`, for every set of requests, every choice of components that has the API
server, and all durations (`LifecycleAssumption`). `Serving` (types, `Stages`, `Requests`) ties
what has been stopped, the graceful period and the ages to where `main` stands; each property is
then a part that is inductive beside it. `GraceGiven` needs that while `Shutdown` waits, age
plus what is left is at least the whole period; it excepts the panic of the hub's WaitGroup, which
ends the process before that period has begun and cuts off what it finds (a `/drain` at any age). `SendersFree` counts: the channel holds at most
one error per goroutine that has sent (`Errors`, a fact on cardinalities), and there are three.
`ShutdownComplete` needs to know which sockets a goroutine still owes (`Ports`), because
`Shutdown` does not close the one of a server that has not registered it. `DrainsGiveTime` needs
that the drain that took the flag down has slept exactly as long as it has been down.
`UsesClosing` needs that a socket is a request to `/ws` and is late only when `Close` has
returned (`Upgraded`), and which stages of `main` have which stage of the hub (`Stages`).

`StunProofs`, for every set of sources, every set of packets that are laid out one attribute
after the other with whatever lengths, every cap (`ListenerAssumption`, and
`SpiltAssumption`: what a length of two bytes can be). Facts about the walk
come first: what it visits is a prefix, each attribute lies within the bytes there are, and of
a cut packet it visits a prefix of what it visits of the whole (`TruncationIsHarmless`).
`RelayAdmission` then is about one packet: the forged MAC covers what pion will check, for
every position of the integrity attribute and whatever follows it. `AttemptsAreExact` is the
induction: a source in the table has all its requests counted, and a source that sent and is
not in it found the table full, which stays so because no source is ever removed; the
cardinality of the table's domain is the rest. `ReportsAreTrue` needs in addition that each
answer owed was asked for by a request that was counted or found the table full; with
`DisabledIsSilent` it is `AnswersTrue`.

Only model-checked:

* `NobodyStuck` and `WaitsAreJustified`, which speak of ENABLED. The theorems of the two
  liveness modules have them as hypotheses.
* `CloseReturns`: `Wait` returns when the last handler it counted has, and that all of a set of any
  size do is an induction over the counter. Proved of it is that each handler returns
  (`EndedConnectionsReturn`), and what is true when `Wait` does (`WaitCorrect`).
* `ShutdownReturns` and `ComponentErrorIsFatal`, which rests on it: the graceful period of any
  length is an induction over the clock, the sockets one over the set of requests.

Every other invariant, action property and liveness property of a passing run is stated by
a theorem. The other way round, `ClosingSafety` and `OneInitiator` are proved and in no run. The
first TLC has checked on the instance of `signaling_safety`; the second, that a `ready` names a peer
of the other role in one's own session and tells only the phone to offer, is nothing an
interleaving could break, because the role in a frame is that of the slot, and is there for the
proofs about frames that rest on it.

## Where code and documents differ

* `bye` after `ready` (`hub_stale_bye`). `leave` sends `bye` after it unlocked. A new
  device can pair with the phone in between, and the phone reads `ready` for the new device
  and then the `bye` of the old one, while it is paired. The design document says `bye` means
  that the other side left.
* A device may wait alone without a limit (`hub_alone`). `join` sets the lonely timer only for
  a device that finds no phone and stops it when one comes; `leave` never sets it again. A
  device whose phone has left waits until it goes by itself. The configuration calls
  `NoReceiverTimeout` "how long a device may wait alone".
* A slow client is not closed (`signaling_slow_peer`). The close request of a full channel is
  heard in the writer's `select`, and the writer is inside `ws.Write` on a context that has
  no deadline. Pings come from the same loop. A client that keeps TCP alive and does not read
  keeps its slot, its goroutines and its socket until it goes; so does one that was replaced
  or whose lonely timer expired.
* `Close` does not wait for all (`signaling_close_waits`). `wg.Add` is inside the handler,
  after `websocket.Accept`, and the HTTP server accepts until after `Close`. A late
  connection may join a session after the sweep; it is closed by the hook and cleans up after
  itself (`ShutdownClean` covers it). If it enters between the last `Done` and the wakeup
  of `Wait`, `Wait` panics and the process ends in the middle of `Shutdown`, which
  `ShutdownReturns` and `ComponentErrorIsFatal` allow for.
* `/drain` is not answered (`lifecycle_drain`). With the defaults its handler sleeps 45 s and the
  server's write timeout is 30 s, so the client sees the connection close. The flag is
  changed all the same. The test calls the handler without a server, with 200 ms.

Seen while modelling, without a run:

* `forward` also sends after it unlocked, so a frame of a replaced device can follow the
  `ready` of the new one.
* A lonely timer whose callback already waits for the mutex while a phone joins and leaves
  evicts the device although the join stopped it.
* The comment on `flushAndClose` says the connection context is already cancelled when a
  close is requested, and nothing cancels it.
* `turn.New` leaves its UDP socket open when TCP fails, and `server.New` both when the
  signaling configuration is wrong, which ends the process at once.
* The line about a response to a source past the cap of the table shows 0 attempts;
  `stunlog.go:26` says that the attempt count goes on every line.
* `forgeIntegrity` looks at no message type: a binding request that carries a name and an
  integrity is rewritten too, which `anyauth.go:25` excludes. With two names or two
  integrities in a request it takes the last, and pion, as modelled, the first.
* An integrity attribute that claims less than 20 bytes is written past its end, over the
  attributes that follow, never past the packet (`Spilt`). No property depends on it: pion refuses
  such a request, and `RelayAdmits` speaks of those that were signed.
* `announceJoin` puts a frame into the channel of every peer of every session, so joins elsewhere
  can fill the channel of a peer that had no time to read, and close it. A full channel is what the
  code takes for a slow peer; the model has these closes, and no property calls them wrong.
* In the test page a second `ready` builds a new peer connection while `offerSent` stays set,
  so no offer is made on it; an offer that was being made when the user hung up and connected
  again may be sent as well as the new one.

## Not modelled

* Frames and join messages as JSON, the HTTP routing and the upgrade check, the read limit
  (a client that exceeds it is a client that goes).
* Counters other than the session gauge, log lines other than those the table of attempts
  decides about, `turn/events.go` (callbacks that log), the metrics exporter, the API stub,
  the CLI stub, logging setup: nothing depends on what they do.
* The command line of the server: parsed once, before anything runs; the durations it sets are
  constants of `Lifecycle`.
* The random bytes of a session's token (tokens are elements of a set), and the choice of
  the relay's address and port range.
* The test pages. They run in a browser; what reaches the server from them is what the
  client of `Hub` and `Signaling` may do, in any order, so no property of the server depends on
  them. What was seen in their handlers is in the list above.
* pion, the socket library and `net/http` are not part of the repository. They are modelled
  from how the code uses them, as external definitions.

## Plan

Done: `Hub` and its invariants, then `Signaling`, which composes with `Hub` by EXTENDS because
the two share variables; `Lifecycle`; `Pairing` as the abstract specification of `Hub`; the
STUN layers; `Closing` between `Signaling` and `Lifecycle`; proofs of all safety properties; the liveness of the registry and of the
connections, and the fairness part of `Signaling` implements `Hub`, from two facts on ENABLED.

Left, in order of use:

1. A page as a client of `Hub`, if the test page becomes a product: one offer per peer
   connection, with awaits against a second `ready`.
2. `NobodyStuck` and `WaitsAreJustified` as theorems instead of hypotheses, once a prover handles
   ENABLED, and `CloseReturns` and `ShutdownReturns`, once one instantiates an induction.
