# autocar: a TLA+ verification project

autocar is a split proxy written in Go. A *client* process accepts SOCKS5 and
HTTP on the local machine and carries streams and UDP messages to a *server*
process, either over a native QUIC protocol (with a TLS fallback) or, in
web-cover mode, inside HTTP/3 or HTTP/2 sessions that look like ordinary web
traffic. This directory holds TLA+ models of the parts of the code whose
correctness depends on interleavings, failures, order and limits, the TLC
configurations that check them on small instances, and TLAPS proofs about
them: of every component but the reassembler, all safety properties the runs check
are also theorems.

`PROJECT.json` is the index: components, runs, the mutant that shows each
property can fail, the source lines behind every definition (`map`), hazards,
the findings and the theorems.

    tlc -workers 2 -config MCNativeClient.cfg MCNativeClient   # one run
    tlapm PacketSendQueueProofs.tla                            # one proof module

## 1. The system: inventory

State, operations and difficulty of each component, in the order in which a
request meets them (paths are under `src/internal` unless they say otherwise).

| component | source | state | operations | what is hard | correct when | module |
|---|---|---|---|---|---|---|
| Command line | `src/cmd/autocar` | goroutine per listener, error channel, contexts | start, signal, close, join | two listeners fail while the main goroutine closes them | first error reported, process ends | `Supervisor` |
| Local proxy | `proxy/` | tracked connections, listener lifecycle, a connection's destination, UDP socket and workers | accept, CONNECT, UDP ASSOCIATE, forwarded requests, `Shutdown` | shutdown against connections being accepted or removed; three goroutines per association | a drained shutdown leaves nothing; whatever a client's handler opened goes with it | `LocalProxy` |
| Relays | `tunnel/common.go`, `tunnel/web_handler.go`, `proxy/relay.go` | two pumps, half-closes, the idle deadline | copy, half-close, owner's end | errors of one direction while the other moves; one deadline for both | a half-close follows the whole stream; idle means both directions; nobody is left blocked | `Relay` |
| Native QUIC client | `tunnel/quic.go` 447-1240 | shared connection, dial in flight, breaker (failure time, probe, health generation), closed flags, wait group | `DialContext`, `DialPacket`, dial worker, `invalidate`, `Close` | several callers share one dial and one connection; stale failures; caller timeouts; late dials; concurrent `Close` | one probe, one dial, no orphan, nobody's flow cut by another caller, `Close` is a barrier | `NativeClient` |
| Client events | `tunnel/observability.go` | selected path, bounded queue, dispatcher flag | commit, enqueue, dispatch | order is fixed under one lock, delivery happens outside of it; slow handler | commit order, latest transition never lost | `ClientEvents` |
| QUIC stream writer | `tunnel/quic.go` 1273-1478 | write lock, deadline generation, active pace wait | `Write`, `CloseWrite`, `Close`, deadlines | the writer sleeps without the lock | honest errors, `Close` frees every writer | `StreamWriter` |
| Pacing | `accel/pacer.go`, `capacity_probe.go` | token bucket, rate, probe | `Wait`, refund, rate changes | refund on cancellation, rate change and probe during a sleep | never above what was granted; no stale sleep | `Pacer` |
| UDP associations | `tunnel/datagram.go` | per connection: session maps, reservations, id counter; per server: slots, per-source counts | reserve, request, register, lease, terminate, shutdown on both sides | two session maps that must agree, admission in five steps with undo, shutdown by snapshot, id reuse | ids agree, slots balance, nothing outlives its session, leases end | `UDPAssociations` |
| UDP codec and reassembler | `datagram/` | partial messages, byte counter | encode, add, expire, discard | loss, duplication, reordering, key reuse, limits | what comes out was sent; bounded; fixed lifetime | `Reassembler` |
| Packet send queue | `transport/packet_send_queue.go` | lanes, budgets, worker pool, error buffer | enqueue, worker loop, stop, wait | one callback per target without a lock, lazily grown pool, channel sends under the lock | FIFO, isolation, exact budgets, no blocking, joined at the end | `PacketSendQueue` |
| Native servers | `tunnel/quic.go` 200-402, `tls.go`, `connection_admission.go`, `common.go` | connection and stream semaphores, per-source counts, wait groups, authentication timer | serve, authenticate, relay, close | admission against close; timer against first stream; a budget shared by two listeners | slots balance, `Close` joins everything | `NativeServers`, `SlotPool` |
| Web client | `tunnel/web_client.go` | breaker with numbered attempts, probe, closed | `DialContext`, `DialPacket`, out-of-band health, `Close` | attempts finish in any order; late connections | newest verdict wins, one probe, nothing handed out after `Close` | `WebClient` |
| H2 session pool | `tunnel/web_h2_client.go` | sessions, selection gate, cohort of waiters, retired set | select, elect, dial, open, retire, close | several critical sections per request; draining connections | as the abstract pool; every connection owned | `H2SessionPool`, `AuthenticatedPool` |
| H3 session pool | `tunnel/web_h3_client.go` | sessions with user counts, racing sockets, watchers | the same, with a race of addresses | late winners, retirement by the last user | the same; every socket owned | `H3SessionPool`, `AuthenticatedPool` |
| CONNECT-UDP | `tunnel/web_udp.go` | openings, target sessions, slots, queues | send, open, close on both ends | openings against shutdown, senders stuck in the library | each session owned, target failures local, all ends | `WebUDP` |
| Web session authorization | `tunnel/web_session_auth.go` | client: next number, pending set, anchor; server: 128-bit window; both: bootstrap gate | authorize, complete, verify; begin/finish bootstrap | requests arrive out of order; the window must not run ahead of the slowest | live requests accepted, each number used once, no lost wake-up | `ReplayWindow`, `SingleUse`, `WebSessionAuth`; the gate in `WebServer` |
| Web bootstrap authentication | `tunnel/web_auth.go`, `web_session_handler.go` | nonce cache with expiry | sign, verify once | full cache, clock edges, a clock read before the lock | no nonce accepted twice | `NonceCache`, `WebServer` |
| Web server and handler | `tunnel/web_server.go`, `web_handler.go`, `web_h2.go`, `web_h3.go`, `web_limits.go`, `web_tcp_owner.go` | two listeners on one port, per-source limits, owned TCP sockets, gate per connection | `ListenWeb`, `Serve`, one request, `Close` | partial failure of the pair of listeners; sockets net/http lets go | one leader per connection, no stray socket, everything given back | `WebServer`, `SlotPool` |
| H2 stream as net.Conn | `tunnel/web_stream.go` | deadlines as timers with sequence numbers | deadlines, `Close` | a fired timer waits for the lock | an overtaken timer ends nothing | `StreamTimers` |
| Protocol, dialer, certificates, cover site, profiles, tools | `protocol/`, `security/`, `cover/`, `netbench/`, `src/scripts/` | none shared, or configuration | sequential parsing and I/O | nothing that interleaves | | not modelled |

How they interact. `Supervisor` starts and ends the listeners: the local proxies
of the client (`LocalProxy`), the listeners of the exit (`NativeServers` or
`WebServer`). A request of the proxy goes to one of the two clients.
`NativeClient` owns the QUIC connections; on each of them `UDPAssociations`
registers the sessions that `DialPacket` returns, whose messages go through
`Reassembler` on arrival and, on the server, through one `PacketSendQueue` per
association; its streams are `StreamWriter`s sharing a `Pacer`; its commits
(`primarySucceeded`, `recordFallback`) feed `ClientEvents`. `WebClient` chooses
between `H3SessionPool` and `H2SessionPool`; each connection of theirs holds a
pair of `WebSessionAuth` ends, established through the gate of `WebServer` with
a credential `NonceCache` takes once; `WebUDP` opens its streams on the H3
connections. Every stream ends in a `Relay` on either side.

## 2. The modules

Each module says at its head what it abstracts and what an action stands for:
normally one critical section of the component's mutex, the return of one
blocking call, or one deferred call. Definitions keep the names of the Go
functions. An operator commented as *mutant* is not part of the model: it is the
plausible bug that `PROJECT.json` substitutes to show that a property can fail.

Native side:

* **PacketSendQueue**: `NewPacketSendQueue`'s limits are definitions (`maxPackets`,
  `maxTargets`, ...), so the proofs are about what the constructor computes from any
  arguments. `keys`, `queue`, `active`, `used` are the lanes, `ready` the
  channel, `pc`, `hand`, `item` the workers. The callback's outcome is free;
  slow targets return only when canceled.
* **NativeClient**: callers make `DialContext` and `DialPacket` calls one after
  another (`call`), dial workers run `runQUICDial` (`dial`), closers run `Close`.
  `circuit` abstracts `primaryFailedAt` to zero, cooling, elapsed. Connections die
  on their own (`MaxDeaths`), budgets expire and callers cancel at any time.
  `outdated` and `probers` are history: who began before the last proof of health,
  and who began as a probe.
* **NativeServers**: from the resolution of limits in `ListenQUIC` and `ListenTLS`
  (`Configs`; a refused configuration is no initial state) through `Serve`'s admission
  step by step, the connection's goroutine and its authentication timer, each
  stream's goroutine up to its relay, the deferred calls in their order, `Close`.
* **UDPAssociations**: both dispatchers of one connection, the control streams
  between them, the server's slots. A control stream is used again once both ends
  have let go of it, so that session ids come round.
* **StreamWriter**, **Pacer**, **Reassembler**, **ClientEvents**: as their heads say.
  Payload bytes are kept in `Reassembler`, because its main property is about them.

Web side:

* **WebClient**: as `NativeClient`'s breaker, with attempt numbers; `verdicts` and
  `handed` are history.
* **H2SessionPool**, **H3SessionPool**: a call's critical sections one by one, the
  dial workers, the network (a connection drains, dies), cancellation at any
  step, `Close`. Reference counts are represented by the callers that hold them.
  **AuthenticatedPool** is what both promise: one call leads the authentication of
  a connection, nobody uses it before it is established, and it is not closed
  under its users unless it failed, was lost, or the client is closed.
* **WebUDP**: both ends of the CONNECT-UDP streams of one packet connection, and of the
  association that sends on it (`proxy/socks5.go`) the one thing that matters here: an
  error of `Send` other than a full queue or an unavailable target ends it, and it then
  closes the packet connection. `webUDPTargetSendError` keeps limits and signed 502 and
  503 answers from being such errors; a signed 400 and a failure without proof are.
* **WebSessionAuth** composes the client's numbering with a **ReplayWindow** (two
  words of `WordBits` bits) across a network that reorders, repeats and loses
  requests. **SingleUse** is the window's abstract specification.
* **NonceCache**: signers whose clocks are off, verifications that read the clock
  before they take the lock, the cache with its expiry.
* **WebServer**: `ListenWeb` with its retries, both listeners, admission, the owner of
  TCP sockets, and requests through the bootstrap gate (phase and generation as in
  `webServerConnectionAuth`), the stream budget, the dial and the relay.
* **StreamTimers**: the deadlines of an H2 stream.

Both sides: **SlotPool** is what connection admission promises; **Relay** holds the
three relays, which share their pumps' steps and differ in what a failure does and in
what closing an end releases (the Close of an H2 response ends no Write);
**LocalProxy** and **Supervisor** are the client's process around them.

**...Proofs** are the TLAPS proofs of a module. **MC...** are instances for TLC.
Several modules hold components that run in one process and share no state
(`MCLifecycles`, **ExitServers** with its instances in `MCServers`,
`MCWebPools`, `MCWebClient`): a behaviour then runs one of them, chosen in the initial
state, and the others stay at one initial state, so that the states are a sum and not
a product. In `MCLifecycles` a constant, `Parts`, says which of the eight a run
explores. `ExitServers`, `MCWebPools`,
`MCWebClient` and `MCLifecycles` are also what the proofs are about: their constants are
parameters, with values in the `.cfg`. A step of the composition is a step of each
component or leaves its variables alone, which is the lemma (`...Behaves`) that takes a
component's proof to the composition.

## 3. The runs

| run | what it asks | instance and bounds | states |
|---|---|---|---|
| `send_queue` | budgets, exclusivity, FIFO, non-blocking sends, join, isolation of slow targets | 3 targets, 2 workers, 3 packets or 5 bytes in all, sizes 0, 2, 3, two slow targets, 4 packets accepted | 194k |
| `native_client` | breaker, shared dial, shared connection | 2 callers making 3 calls, 2 connection names, 1 spontaneous death; symmetric | 1.6M |
| `native_client_close` | `Close` as a barrier; termination of calls | 1 caller, 2 closers, 2 calls, 2 names, 1 death | 253k |
| `web_client` | breaker over numbered attempts; numbering of one connection's requests; single use of numbers and nonces | 2 stream callers with 3 calls, 1 UDP caller, 1 report; 3 requesters, window of 4 (words of 2 bits), numbers to 7, also arriving in any order; 3 nonces, 2 requests at a time, clocks off by one, skew 1, cache of 2, time to 3 | 683k |
| `udp_associations` | agreement, balance, nothing left | 2 reusable streams, 2 ids, source limit 2, one other connection; symmetric | 373k |
| `udp_leases` | both ends let go | as above with slots and client capacity as the tight limits | 364k |
| `servers` | admission as `SlotPool`, one leader, closing, coming to rest | native: 2 QUIC and 1 TLS connection, 3 streams, six scenes of budgets (shared, separate) and stops; web: 3 connections for 2 slots, or 3 requests on a connection, or 1 request over H3 | 0.6M |
| `quic_close` | the first finding below | as `servers` | stops at the violation |
| `web_pools` | both pools as `AuthenticatedPool`, ownership, coming to rest | 2 calls, 3 connections, 2 addresses raced over H3, new or with a ready connection | 439k |
| `web_udp` | ownership, locality of failures, coming to rest | 2 callers, 2 targets, 2 openings, 2 client slots, 1 server lease, queues of 1, a second connection once the first is dead | 1.2M |
| `lifecycles` | eight machines of sections 1 and 2, each safe and, where it has an end, coming to it | proxy: 2 clients, one of which may ask for UDP; relay: 2 chunks, timeout of 2 ticks; writer: 2 goroutines, 2 operations each, 2 chunks, 2 deadlines; events: 2 callers, queue of 3, 8 transitions; 3 listeners; 3 settings of timers; pacer: 2 writers, burst 4, rates 1 and 2, waits of 1 or 5, probes of 3, time to 2, 2 changes of rate; reassembler: 5 messages and a foreign peer over 4 keys, 2 messages and 4 bytes buffered, TTL 2 | 784k |
| `h2_stall` | the second finding below | the relay of `lifecycles` | stops at the violation |

Why these bounds. The limits are reached and exceeded: queues, caches, slots and
windows are smaller than what is offered, numbers go past the window and up to the
last, ids wrap. The reassembler's fragments go past the number of messages while bytes
are left and past the bytes while messages are left, since either limit could hide the
loss of the other. In `web_udp` the client's slots are shared with packet
connections outside the model, so a reservation may be refused at any time; its
limit of targets alone is reached and not exceeded (a third target and a third caller
would multiply the states), and what `Send` does with that error is the same. Races in this code are between two parties of a kind
(two callers, two workers, two closers) and one event (a death, a report, a
shutdown); `send_queue` needs a third target so that a lane waits while both
workers are busy, `native_client` a third call so that a stale caller, a probe and
a healthy answer coexist, and the bootstrap gate a third request so that an abort
and a second bootstrap meet a waiter. `servers` chooses one of a few scenes at the
start, because all arrivals and all stops together multiply without meeting. Names are
declared symmetric only where no liveness is checked.

`CHECK_DEADLOCK FALSE` appears where the system really may stop: calls are
bounded, the queue is joined, the client or server closed, the connection dead.

### Fairness

Goroutines that can step do, timers fire, and what the code sets a timeout for
ends: the QUIC handshake, the TLS and TCP dials, the QUIC budget of a call, the H3
attempt, the request, the opening of a stream, the grace periods. A send callback
returns when its context is canceled, which `NewPacketSendQueue` asks of its
caller; an event handler returns, which `ClientEventHandler` asks. No caller has
to call or cancel, no connection has to die, no peer has to answer, read or write,
no client has to end its association, no datagram in the library's hands has to be
sent.

Most instances have bounded calls and connections and no step that leads back, so
every behaviour ends. There one condition, `WF_vars(Progress)`, over all such
steps together is as strong as one for each goroutine: nothing can run for ever in
front of a goroutine that is ready. The liveness property is then `Settles`, `<>[]Settled`:
`Settled` says in which states the component may rest (calls returned, `Close`
returned, slots given back, what nobody uses closed). `PacketSendQueue`,
`NativeClient`, `UDPAssociations`, `WebSessionAuth` and `LocalProxy` do go round or
have goroutines that may, and state weak fairness for each. `WaitersWake` says that a
sleeping requester is woken, not that it wins the race for the room: Go's mutexes
and the code promise no order among waiters. In `MCLifecycles` each part has its own
condition, under its own variables.

### What the properties say

* *send queue*: `Bookkeeping` (counters equal what is queued or in a callback on
  every path and the limits hold; one callback per target; channel sends made
  under the mutex have room), `TargetFIFO`, `NoWorkAfterWait`, `WorkGoesOn` (slow
  targets stop nobody else; `Wait` returns).
* *native client*: `ProbeExact` (one probe, always somebody's), `HealthSupersedes`,
  `OneConnection`, `FlowsSurvive`, `CloseBarrier`, `CallsReturn`. These are the
  promises of `docs/ARCHITECTURE.md` ("after cooldown, exactly one caller probes
  QUIC", a shared completion barrier for `Close`), read off the code.
* *web client*: `SingleProbe`, `NewestVerdict`, `NothingAfterClose`,
  `ProbeReleased`; `LiveTicketsAccepted`; `NumbersIssued` (each number once, and
  waiters woken); `ImplementsSingleUse`, `NonceSingleUse`.
* *UDP associations*: `SessionsAgree`, `NothingLeaks`, `AssociationsEnd`.
* *servers*: `ImplementsSlotPool`, `NothingAfterClose` (no goroutine, stream or
  destination of a closed native server; no socket of a closed web origin or of a
  failed `ListenWeb`), `OneLeader`, `Settles`.
* *pools*: `ImplementsPool`, `EveryConnectionOwned` (each connection and socket is
  published, somebody's to publish or somebody's to close), `Settles`.
* *CONNECT-UDP*: `SessionsOwned`; `TargetFailuresStayLocal` (a `Send` ends the whole
  association only if the packet connection is over, if the QUIC connection of its own
  session is, or if its own opening ended in a signed 400 or without proof; this is
  what `docs/WEB_COVER.md` 568-576 promises of rejections and limits); `Settles`.
* *lifecycles*: `DrainedMeansEmpty`, `RelaysFaithfully`, `HonestErrors`,
  `EventsInOrder`, `FirstError`, `TimersCurrent`; `Reassembles`; `Paced` (the bucket never
  holds more than a burst and what was granted; no writer sleeps past the time at which
  its tokens are there); `Settles` (of a relay: whatever fails, times out or is
  abandoned, both pumps end, except the one of the second finding).

Refinements: `ReplayWindow` implements `SingleUse`; both native listeners (with one
budget or two) and the web origin implement `SlotPool`; both session pools implement
`AuthenticatedPool`.

### The findings

`quic_close` shows a disagreement between `QUICServer.Close` and its comment, "closes
active QUIC connections and waits for relay goroutines" (`tunnel/quic.go` 378). A
connection has a request at work; `Close` publishes `closing`; a second stream
arrives and `serveConnection` refuses it by returning (336-340). Its deferred calls
take the connection out of `s.conns` without closing it. `Close`, which closes what
it finds in `s.conns` (391-398), passes over it, and waits for the first request,
whose relay has that connection as its owner. It ends only when the
client or the destination ends it. `Settles` excepts exactly this case (`Abandoned`).

`h2_stall` shows one between `relayWebH2` (`tunnel/web_handler.go` 197-224) and
`docs/DEPLOYMENT.md` 409-413, which says of native and web, H2 and H3 tunnels that a
stalled target "releases its stream slot within the pending write's timeout". When the
write times out, the upload closes both ends; but the Close of an HTTP/2 response
(`webResponseStream`, `web_stream.go` 102-106) closes the request body only, and the
server sets no write timeout (`web_h2.go` 114-153). If the client does not read its
download either, the response's `Write` goes on waiting for flow control, and the
handler, which joins both copies, keeps the slot until the client reads, resets the
stream or goes away. The other relays release it. `Settled` excepts exactly this
`Write` (`WaitsForReader`).

Two more behaviours that the models show and no document speaks about:

* `relayWebH2` closes both ends when the download is over, whatever ended it; the
  handler returns and HTTP/2 ends the response in order, so that the client cannot
  tell a destination's reset from its end of stream. `CleanEnd`, a part of
  `RelaysFaithfully`, therefore speaks of half-closes, which that direction has not.
* `verifyBearer` reads the clock before it takes the nonce cache's lock. A
  verification overtaken there may find that the entry it should have met has been
  removed by a later time. `NonceSingleUse` excepts a request whose own time is older
  than the newest the cache has seen.

## 4. The proofs

TLAPS proves, for every value of the constants:

* **PacketSendQueueProofs** (any targets, any constructor arguments). The
  inductive invariant `IInv` says where the lanes of a live queue are: each
  is once in the ready channel or in one worker's hands (`PlaceInv`), the
  lanes in the channel are distinct members of the map, the map has at most as many
  lanes as the channel has places (`MapInv`), and ids grow within a lane and beyond
  the last one started (`OrderInv`). After cancellation those parts are given up,
  since nothing is taken any more. From it follow `TypeCorrectness`,
  `LanesAreExclusive`, `NoSendBlocks`, `WaitJoinsWorkers` and `CallbacksInOrder`. The
  strengthening is needed: "at most `maxTargets` in the channel" is inductive only
  with distinctness and the bound on the map. `BooksBalance` (`Bookkeeping`) says
  that every counter is the sum of what it counts, per target and in all, and that the
  limits hold. A sum over a finite set (`Total`) is defined by a function on subsets;
  what it gains and loses with one packet (`BooksChange`) is proved by a least
  counterexample, since the library's induction theorems take an operator.
* **WebClientProofs**, in four parts that share `MCWebClient`.
  *The window* (any word width, any last number, any order of arrivals). `Recorded`: the
  bit of a distance is set exactly if the number at that distance was accepted.
  `ShiftMoves` is the lemma about shifts across the two words. From it `WindowIsExact`,
  and `SingleUseImplemented` as a step simulation.
  *The breaker* (any callers, attempts and reports): a probe under way is the newest
  probe's, and its owner alone carries its number; the verdict shown is that of the
  newest attempt that counts. From it `OneProbe`, `ShowsNewestVerdict` and
  `ClosedHandsOutNothing`.
  *The credentials of a connection* (any number of callers, any window width):
  `SentInv`, a live request lies less than a window below the greatest number
  issued, because the anchor is the least pending number (`OldestExact`). With the
  exactness of the window this gives `LiveRequestsAccepted`; also `NumbersUsedOnce`, `NoLostWakeup`, `AnchorExact` and types.
  *The nonce cache* (any skew, cache size, client clocks and number of concurrent
  verifications, under `WebAssumption`: the skew and the greatest time are naturals,
  the offsets integers). An accepted nonce is in the cache with its expiry, or the
  cache has seen a time after that expiry. `ExpiryCoversSkew` is the lemma that makes
  it work, also at the greatest time, where the code's sum would overflow: no time that
  `webAuthTimestampAccepted` takes lies after the entry's expiry. From both,
  `NoncesUsedOnce`.
* **NativeClientProofs** (any number of callers, `Close` calls and dials). `IInv` has
  four parts beside the types. `BreakerInv`: attempts have distinct numbers, and a
  prober in its QUIC phase owns the current probe. `HealthInv`: whoever began before
  the last authenticated answer carries an older generation. `DialInv`: the dial at work is
  the one of `c.dialing`; until its result is settled the client has no live
  connection, so that accepting the result orphans none. `CloseInv`: how far the first
  `Close` has come. Each action falls into one of few classes (`CallClass`,
  `DialClass`: a caller moves on, leaves, resets the circuit, ...) and the parts are
  proved over the classes. From it `OneProbe`, `OneDial`, `CloseIsBarrier`,
  `StaleFailuresIgnored`, `OthersFlowsSurvive` and the types; `ProbeExact` alone is not
  inductive, since nothing in it says that another caller lacks the owner's number.
* **ServersProofs** (any finite number of connections, streams and requests, any
  configurations with integer limits), about `ExitServers`.
  *Native.* Every counter (slots, shares, both stream
  semaphores, both wait groups) is the cardinality of the set of those who hold its
  tokens (`NativeSlotsInv`, `StreamsInv`, `GroupsInv`); the connection `Serve` holds is the one
  before or inside admission, and none is inside once the server is closing
  (`HeldInv`), so that a wait group that `Close` found empty stays empty; the one stream
  a connection's goroutine is busy with (accepted and not yet admitted, or, on TLS, served)
  finds that goroutine serving (`StreamInv`). Each action moves at most one connection
  (`Shift`) and one stream (`StreamShift`), except that a leaving connection also ends
  those of its streams nobody accepted (`LeaveStreams`).
  *Web.* The same for the shared admission (`WebSlotsInv`); a served TCP socket is
  registered with its owner, or open no more, and the owner is closed before what it
  lists is (`CloseInv`), so that nothing slips between the two halves of `owner.close`;
  of the requests of a connection one at most leads, and its gate bootstraps
  exactly as long as one does, unless it was shut (`LeaderInv`).
  From both `CloseIsComplete` (`NothingAfterClose`), `LeaderAlone` (`OneLeader`),
  `EveryTokenOwned` (`Balanced`) and, as a step simulation, `AdmissionImplemented`: a
  listener's step takes, counts, leaves or gives back one slot of `SlotPool` or stutters.
* **UDPAssociationsProofs** (any streams, ids and limits; finitely many streams). The
  two session maps agree with the streams whose requests registered them, at each of the
  five steps of admission and its undoing, for both dispatchers and through either
  shutdown; slots and reservations are the cardinalities of their holders. From it
  `EndsAgree` (`SessionsAgree`) and `LimitsAreExact` (`NothingLeaks`).
* **WebUDPProofs** (any callers, targets and limits, under `WebUDPAssumption`): an
  opening under way belongs to one caller, the one that will publish its target's entry
  (`OpenerInv`); how far a session is, is told by its opening and its opener
  ((`StageInv`); a target has a session or an opening, never both (`ListedInv`); and
  what `shutdown` has not joined yet it has listed (`CloseInv`). From it `OpeningsOwned` (`SessionsOwned`) and, as an
  action property, `FailuresStayLocal` (`TargetFailuresStayLocal`), which rests on what an
  opening may publish: "closed" only once the packet connection is over (`VerdictInv`).
* **WebPoolsProofs** (any finite number of calls, connections and addresses, under
  `PoolsAssumption`), about both pools of `MCWebPools`. For each pool: one dial is at
  work and it is the one the gate names (`H2DialInv`, `H3DialInv`); what it opens is in
  the pool before a call can hold it; a call that holds a connection holds one that was
  opened, and what is detached or retired has no user left and gets none (`RetireInv`,
  `ConnsInv`). In H2 the cohort of waiters has a free place whenever one is wanted, by a
  pigeonhole argument (`FreeCohort`); in H3 every racing socket has a racer or the
  dial that closes it (`SocketInv`). From it `ConnectionsOwned`
  (`EveryConnectionOwned`) and `PoolsImplementPromise`: each step of either pool is a step
  of `AuthenticatedPool` or a stutter (`ImplementsPool`).
* **LifecyclesProofs** (any clients, goroutines, dispatchers, listeners and writers, any
  timeout, queue length, burst, rates and allowance, under `LifecyclesAssumption`), about
  the machines of `MCLifecycles`.
  *Local proxy.* The tracker holds exactly the connections that were added and whose
  close has not come to its end, and its channel is closed exactly when it holds none
  (`TrackerInv`); nothing is added once `Shutdown` has begun, so the channel it took is the
  last one (`ShutdownInv`). From it `ShutdownDrains` (`DrainedMeansEmpty`).
  *Relay.* How a pump ended still holds as long as the owner is there (`EndsInv`); while
  nothing is closed, a direction that is not about to refresh the deadline has been idle
  for as long as is gone of it (`ClockInv`): the idle deadline is the whole tunnel's.
  From both `RelaysAreFaithful`.
  *Stream writer.* The write lock is held by whoever is inside; an expired wait of
  the current deadline has seen it pass, and a canceled one was overtaken by a newer
  deadline unless pacing has ended (`WaitInv`). From it `ErrorsAreHonest`.
  *Events.* Numbers grow along the queue, from what was delivered to the latest
  (`QueueInv`), and one right to dispatch exists, held by a commit that is about to spawn
  or by one dispatcher (`TokenInv`). From it `EventsStayInOrder`.
  *Main goroutine.* A listener is told to stop only once `ctx` is done, and looks at it
  before it reports (`ReportInv`). From it `FirstErrorReturned`.
  *Timers.* A callback whose number is the current one serves a deadline that has
  passed (`TimerInv`). From it `TimersKeptCurrent`.
  *Pacer.* What the next look at the clock will earn is covered by what was granted
  (`CoveredInv`), and until a sleep that nobody has cut short is over the capacity it
  waits for is not there, which rests on the rounding of the sleep (`Sleeps`) and on a
  sleep never outlasting the probe it counts on (`NapInv`). From both `PacesRight`.

Assumptions. The named `ASSUME`s (`PoolsAssumption`, `ServersAssumption`,
`LifecyclesAssumption`, `WebAssumption`, ...) are evaluated by TLC on the instances;
`StreamsAreFinite` and `WebUDPAssumption` are hypotheses of the theorems that need them.
They say that sets are finite where their members are counted, that limits are numbers,
that names of nobody are nobody's name. The code checks or computes each of them at
construction. The limits that the code requires to be positive (queue lengths, rates,
the burst) are positive; nothing is assumed about the others: a slot pool of size zero
refuses everybody, and the theorems hold.

The invariants were checked by TLC on the instances before they were proved.

Only model-checked. Liveness (`WorkGoesOn`, `CallsReturn`, `ProbeReleased`, `AssociationsEnd`,
the waking half of `NumbersIssued`, every `Settles`) is outside TLAPS's reach, as is ENABLED. Of
the safety properties, `Reassembles` alone: what it says of a message is a sum and a
concatenation over its fragments, a fold over a sequence, for which the provers have no
induction. No module uses RECURSIVE operators.

## 5. Not modelled, and why

* Contents: keys, tags, tokens, addresses, header bytes, log lines. Where a
  property depends on a conversion (fragmentation) it is modelled. Parsing of SOCKS5,
  HTTP, capsules, the wire protocol (`protocol/`), flags and files is sequential.
* The bandwidth estimator (`accel/adaptive.go`, floating point) and the negotiation of
  rates (`tunnel/pacing.go`): `Pacer` leaves the rate open.
* Libraries: QUIC, HTTP/2, HTTP/3, TLS and net/http are the environment: a connection takes
  requests, drains, is lost; a stream is read, reset, stuck.
* The cover site, TLS and H3 profiles, certificates, benchmarks and `src/scripts`:
  no state shared between requests that matters here, or tools outside the program.
  `src/scripts/stealth-probe` and `stealth-pilot` are the largest files of the repository and
  are measurement tools.
* In `WebUDP`, delivery of received datagrams to `Receive` (a lossy queue).
* In `Relay`, a first refresh of the proxy's deadlines that fails (`proxy/relay.go` 91-95):
  the relay then ends as it does when its owner closed an end before the first reads.
* In the session pools, several failures that leave a call in the same state are one
  disjunct (`DialFails`, `FollowFails`).
* Reuse of a message identity with equal count and metadata within the TTL: the
  reassembler cannot tell the two messages apart and does not claim to. Identities
  are 32-bit counters per session; the instance reuses one only after the TTL.
* Client dispatchers created after `Close` took its snapshot: their connection is
  closed and ends them; `UDPAssociations` models one dispatcher for the life of one
  connection.
* In `UDPAssociations` the acquisition and the release of slot and source share
  are one step each; in the code another stream may see the moment in between and
  be refused, which `Decline` allows at any time.
* Registration searches a free id: in the code the loop is unbounded, and ends
  because there are 2^32 ids and far fewer slots; here `MaxSource <= MaxID`.
* Durations. Time appears as "may expire now", except where two times are compared
  (`Reassembler`, `NonceCache`, `Pacer`, the idle deadline of `Relay`).

## 6. What could come next

1. A proof of `Reassembles`, or of its part that needs no sum: what is stored of a
   message is what was received, and each message comes out once.
2. `NativeClient` over the events of `UDPAssociations` and `ClientEvents` in one
   composition, once its state space allows it.
3. The proxy's request trailers and the web handler's padding, if they gain state.
