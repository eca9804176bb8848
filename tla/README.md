# Verification of the VLF gateway

TLA+ specifications of the VLF proxy: a gateway with a relay lane (HTTP
polling) and two session lanes (QUIC and TLS/TCP), the client library that
speaks to it, a SOCKS and a TUN client built on that library, and a transit
hop. The modules model the Go source, TLC checks them on small instances, and
TLAPS proves the most important invariants for all values of the constants.

`PROJECT.json` maps every definition to source lines and lists the runs, the
mutants that each property must catch, the findings, the hazards and the
theorems.

## The system

| Part | State | Operations | What makes it hard |
|---|---|---|---|
| TTL wheel (`internal/store/ttl_wheel.go`) | cursor, slot maps, entry map | Upsert, Touch, Remove, tick, callbacks, Close | rounding and wrap-around; callbacks run after the lock is released, on the wheel's goroutine |
| Ring buffer (`internal/relay/ring_buffer.go`) | array, two indices, size | Write, Read, Close | two-part copies, full buffer, end of stream |
| Relay connection (`internal/relay/conn.go`) | ring, upstream queue and byte count, flags, Once, WaitGroup | readLoop, writeLoop, Enqueue, Recv, MarkEOS, Close | five kinds of threads; Close waits for the loops |
| Relay manager (`internal/relay/manager.go`, `internal/store/relay_store.go`) | connection table, store, timers | Open, Send, Recv, Ping, Close, idle expiry, Shutdown | an Open has five steps; four parties close |
| Limits (`internal/limits/manager.go`) | slot counters, byte and packet windows | reserve, release, allow | slots given back exactly once |
| Session server (`internal/session/server.go`, `internal/store/session_store.go`) | session table, store | register, unregister, Shutdown | registration against expiry and shutdown |
| Session over TCP (`internal/session/tcp_session.go`) | flow table, one framed connection | Run, open, data, close flow, Close | flow loops that close the session they are counted in |
| Session over QUIC (`internal/session/session.go`) | TCP and UDP flow tables, datagram queues | control loop, pumps, workers, drain, Close | workers, cancelled contexts, late insertions |
| Datagrams (`internal/session/datagram.go`) | partial packets | fragment, add, clean up | loss and reordering |
| Frame codec (`internal/session/frame.go`) | a stream of bytes | encode, write, read, decode | several writers, a frame in three Writes, deadlines |
| Authentication (`internal/auth`) | nonces by client | verify, check and store | boundary of the nonce lifetime |
| Metrics (`internal/metrics`) | gauges, per-second windows | observe, publish | clamped gauge updated around a channel |
| Client library (`internal/sessionclient`) | pending opens, flows | dial with fallback, open, read, write, close | late answers, full queues, close under a lock |
| SOCKS client (`cmd/socks_client`) | mode, failure windows, cap, permits, flows; UDP associations | policy evaluation, permits, NAT entries | values read under a lock and used after it |
| TUN client (`cmd/tun_client`) | shared clients with counts, UDP flows | acquire, release, mark bad, expiry | broken clients replaced while in use |
| Transit hop (`internal/transit`) | listeners, UDP sessions | accept, forward, expire, Shutdown | insertion during Close |
| Gateway process (`cmd/gateway`) | contexts, error channels | start, ordered shutdown | order of the parts, requests that outlive a limit |

The client opens a connection by HTTP; the manager reserves a slot, dials,
creates a relay connection, stores it with an idle timer in the wheel and
starts its two loops. Requests touch the timer. The connection ends by a
client's close, by a Recv that has drained an ended stream, by the idle
timer, by an overflow of the ring or by Shutdown; all go through
`relayConn.Close`, whose last act, `onConnClosed`, removes the connection
from the table and the store, gives back its slot and lowers the gauge.

A session begins on a QUIC or a TLS/TCP listener, authenticates, is registered
with an idle timer and then serves the frames of its control stream, one flow
per OPEN. Clients dial through the client library, which falls back from one
transport to the next; the SOCKS and the TUN client decide which transports
it may try and how many flows they open. On a signal, or when a lane or the HTTP
server fails, the gateway stops the HTTP server, then the relay, then the sessions.

## Modules

| Module | Models | State and actions |
|---|---|---|
| `TTLWheel` | the timing wheel | `cursor`, `slots`, `entries` as in the struct; `callbacks` what the current tick has still to run; one action per method, `tick` up to the unlock, one `RunCallback` per callback. `due` is a history variable: what is left of the TTL last set |
| `BoundedFIFO` | what the downstream buffer promises | a queue; abstract |
| `RingBuffer` | the circular buffer | `buf`, `r`, `w`, `size`, `closed`; `res` is the last call with its argument and result |
| `RelayConn` | one relay connection | a program counter per goroutine and request; every atomic access, channel operation, ring call, Once and WaitGroup step is an action. Uses the queue that `RingBuffer` implements |
| `RelayManager` | manager, store, slot counters, wheel goroutine, Shutdown | `phase` of each Open, `body` of each Close, the tables, the timers and who waits for whom. Sees a connection and the wheel through what `RelayConn` and `TTLWheel` establish |
| `Limits` | byte windows of clients and sessions, packet windows of sessions | a clock, one window of each kind, and what passed at every instant |
| `TCPSession` | one session over TLS/TCP with its registration in the server | a program counter for Run, for every flow's loop, for the idle timer and for Shutdown; the flow table, the state of each target, both gauges. A flow is an OPEN_TCP request with the object made for it, and two flows may have the same `flow_id` |
| `QUICSession` | one session over QUIC | the same for Run, controlLoop, acceptFlowStreams, a handleFlowStream per stream with the two pumps, which no WaitGroup counts, and a udpReadLoop per UDP flow |
| `Datagrams` | UDP over QUIC datagrams | the network as a set, the read loop, the queues and workers, the reassembler, the drain and the queue counter |
| `Frames` | the control stream, byte by byte | what each writer has still to send, the bytes on the wire, how far the reader is; every message format of frame.go with its encoder and decoder; `WriteFrame` makes three writes, `ReadFrame` reads as it can, a deadline may tear a frame |
| `Gateway` | main, the HTTP server, both lanes, the session server, the relay as a whole | where main is in start and shutdown, the state of each lane, session and relay connection, the contexts and error channels; the timers and the wheel goroutine that runs their callbacks |
| `TCPSessionClient` | the client's end of a TCP session | callers and their channels, readLoop, flows with their queues, readers and closers, closeWithError; the gateway answers as `TCPSession` does |
| `QUICClient` | the client's end of a QUIC session | callers behind ctrlMu, the control stream, datagramLoop, UDP flows, close |
| `RelayClient` | a flow of the relay transport and the HTTP handlers | a request is one step, lost before or after the gateway has served it |
| `SessionClient` | Dial, then the transport it settled for | composes the three above (`T`, `Q`, `R`), over all 32 configurations of the five switches |
| `FlowCap`, `PolicyMode` | the policy controller of the SOCKS client | permits, flows and the adaptive cap, with a request's reading of the clock as a step of its own; modes, failure windows and the loop that switches |
| `SocksUDP` | UDP associations of the SOCKS client | associations, entries per target, janitor, reverse loops, Close in as many steps as it has critical sections |
| `TunClient` | shared clients and the UDP manager of the TUN client | `pool` is one key of c.clients with its count; a program counter per flow, and the fields runState sets one by one; `hung` are the clients whose Close waits for itself |
| `Transit` | the transit hop | handlers, copies and tracked connections; the sessions of a lane; Shutdown step by step |

`MC*` modules give the constants values, and `MCSharedTables`, `MCAdmission`,
`MCGateway`, `MCDatagrams` and `MCEdges` put together modules that share no state: the
variable `part` says which of them a behaviour is about, and the others stay in
one initial state. That is not a claim about their interaction; where parts
interact, one module has both, or sees one through what the other
establishes. `*Proofs` modules hold the proofs.

Abstractions. Data are counted units in `RelayConn` and in the clients, bytes
in `RingBuffer`, `Datagrams` and `Frames`. Time is the tick of the wheel or of
the loop concerned. Connection ids are random in the code and unique here.
`RelayManager` takes from `RelayConn` that Close returns (`CloseReturns`)
unless readLoop overflowed, in which case it never does (`OverflowCloses` is
violated): `MayOverflow` switches that case on. `Gateway` takes from
`RelayManager`, `TCPSession` and `QUICSession` that a Close returns or hangs;
a hanging one appears as `StuckRelay` and `StuckSession`. In `TCPSession` a write
is one step, because `writeMu` only lets a blocked write delay the others
(`Frames` shows what the lock is for); touch leaves an armed timer armed and is
not shown. In `Gateway` a session is silent or not: frames and datagrams of the
client and data of its targets all touch the timer, which fires for a silent
session only, and a session may come to life again until it does. A sender that loses the race with `close(upstreamQueue)` panics,
which net/http recovers; the model ends that request. In the client library such
a panic ends the process, and the model stops. QUIC datagrams may be lost or
overtake each other; QUIC does not duplicate them. `Frames` counts in base 4
where the code has 128, so that lengths and types of two digits are short, and
leaves out varints of more than ten bytes. In `Limits` the clock does not go
back: Truncate strips the monotonic reading, so that a wall clock set back would
prolong a window. In `TunClient` a racing read returns a value that was written.
A few steps join what nobody can tell apart: a datagram's read and its look-up in
`SocksUDP`, and the retry of a timed-out Read in `RelayConn`.

## Runs

| Run | Bounds | Shows |
|---|---|---|
| `shared_tables` | wheel: 4 slots, 2 keys, TTLs of 1 to 4 and of 8 ticks, with fractions and a negative one; ring: capacity 3, two byte values, payloads up to 4 bytes; TUN: up to three flows and two dials, also two states of one pair of addresses | entries fire exactly on time and Close returns; the ring implements `BoundedFIFO`; reference counts are exact unless a client was replaced in use, nothing else is leaked or closed early, idle states expire and main returns, unless a client's Close hangs over a UDP flow that a state closed early has left |
| `conn_down` | 4 units from the target, ring of 2, a polling client and a closer | no holes in the client's stream, EOF after all data, quiescence; Close returns and both loops end unless readLoop overflowed |
| `conn_up` | two senders of 3 units, chunks of 2, window 2, queue of 3 | byte accounting, bounded overshoot of the window, prefix order |
| `conn_overflow` | 3 units, ring of 2 | violated: an overflow does not close the connection |
| `admission` | relay: 3 connections, 2 clients, limits 2 and 1, 2 idle ticks, overflow; SOCKS client: three requests, a cap of one above the present flows and one a second, readings of the clock up to a second old, turns a tick late | slots, limits, timers, leftovers, gauge; permits and flows are exact whatever fails, their number stays within the cap, and their rate but for what old readings cost |
| `gateway` | relay manager with 2 connections; process with two TCP sessions, with a QUIC session and a relay connection, or with two lanes that may fail; windows of 3 and 2 ticks over 6 ticks, limit 2 | idle connections are closed and Shutdown returns; a session silent in both directions is closed by its timer; sessions clients were told of are closed, listeners close, any failure ends the process, a relay connection left open is one whose request outlived the HTTP server; two windows at most meet in a span, and refusals do not prolong one |
| `tcp_session` | two flows with one `flow_id`, one frame left in the reader's buffer | stream gauge, no lost target, late flows closed again, nothing left, Run returns unless a loop called Close |
| `quic_session` | two TCP flows and a UDP flow of one number, two streams | the same over QUIC, where Run and Shutdown always return; streams are finished unless the flow was closed before the stream was attached |
| `datagrams` | two workers, queues of 1, two packets of one and two fragments, of two flows or of one, there also both fragmented; frames of all formats from two writers | a target gets the packet that was sent unless one of its fragments was lost, dropped, overtaken, drained or expired; packets never mix; the counter is exact until the clamp replaces a value; workers end. Frames arrive whole and in each writer's order unless a deadline tore one, and all arrive unless the stream fails |
| `tcp_shutdown` | one flow | violated: Shutdown hangs in the Close of a session whose loop calls Close, too |
| `session_client` | all configurations; three requests, two units of data, a queue of 1; relay: three units each way, two empty polls | Dial falls back in order and keeps one connection; each request is answered once and succeeds by its own answer only; no holes but what the code drops; closing ends readers and callers; a relay read returns the bytes in order or ends |
| `edges` | two requests and two errors for the modes, two associations with two targets, one transit connection and two sessions of one address | survival lasts its time and ends; limits are kept, sessions closed once and by their own key; Serve and Shutdown return |

A property that a run checks joins the facts about one component that belong
together; each fact has a name and a comment of its own in its module:

| Property | Joins |
|---|---|
| `WheelSound` | types, `MapsAgree`, `OnTime` |
| `ClientsShared` | `RefsExact`, `RefsCovered`, `UsedStaysOpen`, `LeftOpenIsReplaced`, `HangsOverLost` |
| `StatesReleased`, `StatesEnd` | types, `RunningFound`, `EndedReleased`; `IdleExpires`, `MainReturns` |
| `ClientStream`, `CloseQuiets`, `UpstreamSound` | types, `NoHoles`, `EOFComplete`; `CloseReturns`, `Quiesced`; `UpstreamAccounting`, `WindowOvershoot`, `UpstreamPrefix` |
| `SlotsExact`, `NoneForgotten`, `RelayEnds` | types, `Accounting`, `LimitsKept`; `IdleCovered`, `NothingLeft`, `GaugeSettles`; `IdleClosed`, `ShutdownReturns` |
| `ShutdownLeaves`, `GatewayEnds` | `ToldAreClosed`, `RelayLeftIsLate`; `GatewayStops`, `ListenersClose` |
| `WindowsBounded` | `BytesInMinute`, `PacketsInSecond`, `RefusedBriefly` |
| `FlowsKept` (TCP) | types, `StreamsCounted`, `NoStrayTarget`, `LateFlowCloses`, `Released` |
| `FlowsKept` (QUIC), `EndsClean`, `SessionEnds` | types, `NoStrayTarget`, `LateFlowCloses`, `StreamFinished`; `QuietAtCleanup`, `Released`; `RunReturns`, `ShutdownReturns` |
| `PacketsIntact`, `StreamWhole` | types, `Intact`, `NoMixing`, `PartsClaimed`; types, `FramesIntact` |
| `DialSettles`, `AnswersMatch`, `StreamsInOrder`, `FlowsKnown`, `ReadersEnd`, `CloseEnds` | what the three transports promise of dialling, answers, bytes, flows, readers and closing |
| `Admission`, `SurvivalMode`, `AssociationsKept`, `SessionsKept`, `TransitEnds` | `PermitsExact`, `CapKept`, `RateKept`; types, `SurvivalKept`, `SurvivalEnds`; types, `LimitsKept`, `GaugeDrift`, `LeftOverIsLate`; types, `LiveInTable`, `SessionsCounted`, `CleanReturn`, `RangeReaches`; `ShutdownReturns`, `IdleEnds` |

Bounds. Four slots is the smallest wheel the constructor builds; two keys meet
in a slot and overtake each other. A ring of three cells wraps in every
position with payloads on both sides of the boundary. Two concurrent senders
suffice for the window race, and each has a full and a partial chunk. Of three
connections two belong to one client, so that both limits are reached
and a refused request, a dialling one and a closing one coexist. Two flows of
one number are enough for a loop to meet a successor of its flow. The two ends
of a relay connection are run apart: they share only the flags, which both
runs exercise. Two sessions are enough for one to hold up the wheel while the
other waits, or to register around the snapshot of Shutdown. Six ticks hold two
windows of three and a span across their boundary. Two packets of two fragments
give every order of arrival, a queue of one is full at once, and two workers make
a drain race with a send. Three TUN flows with two dials let a broken client be
replaced while two flows use it. Two transit sessions of one address are a session
and its successor. Three requests under a cap of one a second let one with an old
reading of the clock come between two others. `session_client` has one request of each
kind over QUIC: a second TCP request, whose failure without a flow the first may take
for its own, passes too, but takes four times as long.

Deadlock checking is off in `conn_down`, `conn_overflow` and `admission`, because
after an overflow the system really stops there, in the `TCPSession` runs,
where it stops when a loop calls Close, and in `session_client`, where a client
is done or has panicked. Elsewhere the
system goes on, or stutters explicitly once it has finished.

Fairness. Goroutines that can run do run (weak fairness of each loop, of each
closing body, of a begun Open and of the wheel); a Write of the relay has a
deadline. A Read of an open target or client connection may block for ever, as
may a write of a TCP session, which has no deadline; the loops of a
QUIC session are only fair once its connection is closed or its context done. No
client or target has to come, send, poll, close or leave, an HTTP request need not end,
a flow's loop need not call Close, and no packet has to arrive. The wheel's
select chooses at random among ready channels, which is strong fairness of its
exit; a Go mutex hands itself to a waiter that has starved, which is strong
fairness of the lock around a frame.

## Findings

The violation runs show where the code does not do what `src/README.md` says.
A downstream overflow blocks readLoop in its own Close, so that the
connection and its slot are kept; in `RelayManager` the wheel goroutine then
hangs on it at its idle expiry and Shutdown does not return, which is why
`gateway` sets `MayOverflow` to FALSE. The loops of a TCP session do the same:
one that cannot write to the client, as happens when the client leaves during a
download, waits for a Close that waits for it, and Run, the idle timer or
Shutdown waits with them.

Other behaviour that a reader may not expect is stated as the exception that a
property allows, and needs no run of its own:

- A TTL longer than one turn of the wheel, and no whole number of turns, fires
  one turn early (`ttl_wheel.go:113`, `:158`). The defaults, 20 s and 60 s, are
  far below the turns of 256 and 512 s; `ExactTTLs` excludes the case.
- The relay's send window can be exceeded, by at most what `WindowOvershoot` allows.
- A client's first frames are dropped if they come before its flow is in the
  table, and later ones when the flow's queue is full (`NoHoles`).
- A timed-out open leaves its flow open at the gateway (`OrphanTimedOut`,
  `QOrphanLeft`).
- `quicClient.close` hangs when a UDP flow is open: it calls the flow's Close
  with the lock held that Close takes (`quic_client.go:343`, `QCloseReturns`). In the
  TUN client a state that expires or is closed while OpenUDPFlow is under way leaves
  such a flow: the Close of its client, by the last release or at the end of main,
  does not return, and expiry or main stops with it (`HangsOverLost`, `StatesEnd`).
- An OPEN_TCP_FAIL or OPEN_UDP_FAIL that names no flow ends whatever request of its
  kind reads it, also when it is a late answer to another one (`quic_client.go:235`,
  `QOrphanLeft`).
- acquireFlowPermit reads the clock before it takes the lock (`main.go:616`). A
  request that waits for the lock while a second begins sets `capWindowSec` back, and the
  count of this second begins again: more permits than the
  `max_new_flows_per_sec=2` of `src/README.md:403` may be granted in it (`RateKept`).
- A flow closed while readLoop is about to send to it panics the client
  (`tcp_session_client.go:572`, `OpenInTable`).
- A deadline in the middle of a control frame leaves the reader inside it
  (`quic_client.go:294`, `FramesIntact`).
- A stream attached to a flow that was closed meanwhile stays open as
  long as the session (`session.go:307`, `StreamFinished`).
- The gauge of NAT entries of the SOCKS client is not lowered by Close
  (`main.go:1835`, `GaugeDrift`), and a stale turn of its loop may end survival mode
  early (`main.go:771`, `SurvivalKept`).
- A broken client of the TUN client that is replaced in use is never closed, and
  a UDP state closed while it is set up leaks or releases twice (`LeftOpenIsReplaced`,
  `EndedReleased`).
- A transit connection tracked after Shutdown's Range is not closed by it, and a
  session may start after `lane.Close` has waited (`RangeReaches`, `CleanReturn`).

## Proofs

| Theorem | For | Argument |
|---|---|---|
| `WheelTypeOK`, `WheelMapsAgree`, `WheelNotLate` | any number of slots, keys and TTLs | the three together are inductive: placing an entry needs the maps to agree to remove the old one, and lateness is measured from the slot the entry names |
| `WheelOnTime`, `WheelIsSound`, `WheelNeverEarly` | every TTL is of at most one turn or of whole turns (`ExactTTLs`) | then the distance from the cursor to the slot, plus the rounds, is the number of ticks left; a tick shortens both by one |
| `RingTypeOK`, `RingImplementsFIFO` | any capacity, any payloads | the invariant `w = (r + size) % Capacity` makes the two copies of Write continue the content and those of Read take its front; each action maps to the same action of `BoundedFIFO` |
| `ManagerTypeOK`, `ManagerAccounting`, `ManagerLimitsKept`, together `ManagerSlotsExact` | any finite set of connections, any clients and limits | `Lifecycle` says that a connection is in the table exactly from its insertion to its removal by `onConnClosed`; so each close releases once, and each step changes the set of holders by what it adds to the counters |
| `ManagerNoneForgotten` | the same | `Tracked`: the store, the wheel and the callbacks know only connections that Open has added; until Shutdown begins a close starts after the addition and sweeps both; the gauge is the number of increments less that of decrements, which `Lifecycle` makes the size of the table when nothing is under way |
| `ConnClientStream`, `ConnUpstreamPrefix` | any finite set of senders, any receivers and closers, any windows and sizes | `Units` and `Chunks` place every unit and every chunk: with the client or the target, in the ring or the queue, or in a loop's hands, which its program counter tells; `Ended` says that the end of the stream is marked with nothing in hand. They hold only with `Marked` and `OneBody`, by which a ring that was closed stays closed and `eos` is set before |
| `ConnQuiesced` | the same | `LoopsCounted` makes `wg.Wait` wait for the loops that Start has begun; `Quiet` says that one that begins after it, since Close overtook Start, finds the connection closed and the queue empty |
| `CapPermitsExact`, `CapCapKept`, `CapRateKept`, together `CapAdmission` | any finite set of requests, any thresholds, any age of a reading of the clock | each request moves between the sets that the counters count; the cap is set, when it is enabled, no lower than what is under way; `GrantedInv` ties the permits of this second to the code's counter while its window is this second, and to the requests with an old reading that have reset it |
| `TunRefsExact`, `TunRefsCovered`, `TunUsedStaysOpen`, `TunLeftOpenIsReplaced` | any finite set of flows, any number of dials | `Counted` compares the count with the holders of the client in the table and `Fresh` says that a client just dialled is nobody's yet; `Phase` ties a flow's program counter to whether it holds a client |
| `TunTypeOK`, `TunRunningFound`, `TunEndedReleased`, together `TunStatesReleased` | the same | `SInv`, on top of the former: a state is in m.flows from its creation until closeState deletes it, nobody closes it before, and while it has not been closed early the flow, the entry and the client it owns are each behind the field that closeState reads |
| `TunHangsOverLost`, with the counts above `TunClientsShared` | the same | a UDP flow that its state still owns holds the client (`SInv`), whose count is then not zero (`Counted`); so a client is closed over an open flow only if that flow's state was closed early, or by main while flows still use it |
| `TCPFlowsKept` | any finite set of requests, any `flow_id`s and limit | `Roles` and `Registered` place every goroutine; `OneClose` has Close's body run once, with the connection shut before it takes the flows, so that a dial that ends later fails to answer and closes its flow; `Opening` says that nobody else has a flow that is being opened; with these, each step moves a flow from one place the gauge counts to another (`Table` makes the snapshot as large as the table). `LoopsCounted` gives the wait group its type only: what Wait waits for matters to the liveness properties |
| `LimitsRefusedBriefly` | any limit, window and amounts | `FullSinceRefusal`: a full window began no later than the first refusal, whatever was asked since, and lasts a minute from its beginning |
| `GatewayRelayLeftIsLate` | any sessions, lanes and relay connections | `RelayPhase`: once the HTTP server has shut down in time no Open is under way, so that the snapshot of the relay's Shutdown has every connection |
| `GatewayToldAreClosed`, with the former `GatewayShutdownLeaves` | the same | `Registered` and `ToldRun` say that a session a client was told of is in the table until its own Run removes it, so that the snapshot has it; `Pending` that those Shutdown has not yet closed are still on its list |
| `QUICFlowsKept`, `QUICEndsClean` | any finite set of OPEN requests, any `flow_id`s and streams | the loops run only while Run waits for them (`Quiet`); Close's body runs once and shuts the connection before it empties the tables (`OneClose`); only controlLoop enters flows, each of them once (`Dialling`), so that what comes after Close leaves again (`Emptied`); a stream that has found its flow is closed with it (`Attaching`, `Attached`) |
| `SocksAssociationsKept` | any finite sets of associations and targets, any limits | readClientPackets alone inserts entries, so that the room and the target it found free stay so while it dials (`RoomLeft`); `Placed` says where an open entry is: in the table, on Close's list or with the reader; the gauge of associations is their number, that of entries is off by what Close took (`GaugeDrift`) |
| `TransitSessionsKept` | any connections and client addresses, any number of sessions, also both at once | the socket of a session is open from its creation to its finalization (`Sockets`), which whoever won the Once does alone (`Finalizing`); `Awaited` and `Reached` say what lane.Close and Range had before them |

Assumptions: `WheelAssumption`, `RingAssumption`, `ManagerAssumption`,
`ConnAssumption`, `FlowCapAssumption`, `TunAssumption`, `SessionAssumption`,
`QUICSessionAssumption`, `SocksUDPAssumption`, `TransitAssumption` and
`LimitsAssumption`, which state what constructors and configuration enforce,
that threads, requests, flows and addresses of different kinds are different, and that
connections, requests, senders and flows are finitely many; the theorems about
`Gateway` need none.

The proofs are in `SharedTablesProofs` (wheel and ring), `GatewayProofs` (relay
manager, limits and the process), `RelayConnProofs`, `TCPSessionProofs`,
`QUICSessionProofs`, `TunClientProofs`, `SocksUDPProofs` and `EdgesProofs` (flow cap and
transit hop).

The theorems but `WheelNeverEarly` and `RingTypeOK`, which no run checks, and those
that an inductive invariant holds (`ConnIInv`, `CapIInvKept`, `TunIInv`, `TunSInv`, `TCPIInv`,
`QUICIInv`), are about facts that the runs check on their instances, too. Many leaves
name Zenon: they need no arithmetic, and the SMT translation of a long module is slow.

Only model-checked:

- all liveness properties, `CloseReturns` and `EOSStopsBoth` of `RelayConn` among
  them (TLAPS does not handle fairness here);
- `UpstreamAccounting` and `WindowOvershoot` of `RelayConn`, and `BytesInMinute` and
  `PacketsInSecond` of `Limits`: sums over a queue or over a span of time, which
  need an induction over data;
- what a recursive definition computes for every input, the frame decoder among
  them: the modules with proofs use none;
- the properties of `Datagrams`, `Frames`, the client library and `PolicyMode`.

## Not modelled

- Authentication and the replay cache (`internal/auth`): an HMAC and the lifetime
  of a nonce. The other models see an authentication that succeeds or fails.
- Configuration, certificates, parsing of addresses and SOCKS headers, HTTP
  decoding and the wording of answers: read once, or without state.
- Metrics that only grow, and the packet rate that `metrics.go` publishes every
  second with its hold window: nothing in the system reads them back.
- `pingLoop` of the QUIC session, which only writes, and the loops that print
  statistics; `lastActive` and `ExpiresInMS` of a relay connection, which feed
  a reported number.
- The per-client index of the relay store, which the gateway does not read.
- Packet endpoint, routes and device of the TUN client: I/O and libraries. Its
  permits and modes are those of `FlowCap` and `PolicyMode`.
- Echo servers, smoke tests and the benchmark, which drive the system from outside.
