------------------------------ MODULE NativeServers ------------------------------
(***************************************************************************)
(* The native exit: a QUIC and a TLS listener (QUICServer, TLSServer) that *)
(* may share one connection budget (ConnectionAdmission) and one stream    *)
(* budget (StreamAdmission), and serverCore.handleStream, which serves one *)
(* request of either.  Serve admits under the server's lifecycle lock, a   *)
(* goroutine serves each connection, another each QUIC stream, and Close   *)
(* joins them.  A TLS connection carries one stream: itself.               *)
(*                                                                         *)
(* Abstracted: request bytes (a request is good or not), the relay of one  *)
(* stream (module Relay) and the life of a UDP association (module         *)
(* UDPAssociations), which end here in one step.                           *)
(***************************************************************************)
EXTENDS FiniteSets, Integers

CONSTANTS
  Conns,       \* native connections that arrive
  KindOf,      \* [Conns -> {"quic", "tls"}]
  SourceOf,    \* [Conns -> the address block the limiter counts, sourceIPKey]
  Streams,     \* request streams
  ConnOf,      \* [Streams -> Conns]
  Configs,     \* configurations to start from, each with the connections and
               \* streams that arrive and the servers that are stopped (bounds)
  DefaultMaxConnections, DefaultMaxClientConnections, DefaultMaxStreams,
  None

Kinds == {"quic", "tls"}
Lesser(m, n) == IF m < n THEN m ELSE n

\* resolveConnectionAdmission and newServerCoreWithAdmission: a shared budget
\* (0: none) wins and an explicit limit must match it; 0 is a refusal.
Resolve(limit, fallback, shared) ==
  IF limit < 0 THEN 0
  ELSE IF shared # 0 THEN (IF limit \in {0, shared} THEN shared ELSE 0)
  ELSE IF limit = 0 THEN fallback ELSE limit

\* ListenQUIC and ListenTLS: the per-source share, never above the limit.
ResolveShare(share, limit) ==
  IF share < 0 \/ share > limit THEN 0
  ELSE IF share = 0 THEN Lesser(DefaultMaxClientConnections, limit)
  ELSE share

\* newServerCoreWithAdmission: the stream budget both listeners share.
StreamBudget(cfg) == Resolve(cfg.maxStreams, DefaultMaxStreams, cfg.sharedStreams)

\* ListenQUIC.
QUICLimits(cfg) ==
  LET conns == Resolve(cfg.maxQUIC, DefaultMaxConnections, cfg.shared)
  IN [conns |-> conns, share |-> ResolveShare(cfg.maxClient, conns)]

\* ListenTLS: without a budget of its own it is as large as the stream budget.
TLSLimits(cfg) ==
  LET conns == Resolve(cfg.maxTLS, StreamBudget(cfg), cfg.shared)
  IN [conns |-> conns,
      share |-> ResolveShare(cfg.maxClient, Lesser(conns, StreamBudget(cfg)))]

VARIABLES
  scene,       \* what arrives and what is stopped
  shared,      \* whether both servers have the same connSem
  limits,      \* slots per budget and share per server
  budget,      \* cap(core.sem)
  slots,       \* tokens in each connSem
  clients,     \* sourceConnectionLimiter.active of each server
  serve,       \* Serve of each server: what it is at
  held,        \* the connection Serve has accepted and not yet admitted
  closing,     \* s.closing
  closer,      \* where the body of closeOnce is
  wg,          \* s.wg
  conns,       \* s.conns
  conn,        \* each connection: its goroutine and its state
  timer,       \* authTimer of a QUIC connection
  stream,      \* each stream's goroutine
  upstream,    \* the destination connection of each stream
  streamSem,   \* tokens in the QUIC server's streamSem
  coreSem      \* tokens in core.sem

budgetVars == <<shared, limits, budget, scene>>
serverVars == <<serve, held, closing, closer>>
streamVars == <<stream, upstream, streamSem, coreSem>>
vars == <<budgetVars, serverVars, slots, clients, wg, conns, conn, timer, streamVars>>

Pools == Kinds \cup {"both"}
PoolOf(c) == IF shared THEN "both" ELSE KindOf[c]
Sources == {SourceOf[c] : c \in Conns}
On(c) == {x \in Streams : ConnOf[x] = c}
KindOfStream(x) == KindOf[ConnOf[x]]

\* The configurations ListenQUIC and ListenTLS accept.
Init ==
  /\ \E cfg \in Configs :
       /\ QUICLimits(cfg).conns > 0 /\ QUICLimits(cfg).share > 0
       /\ TLSLimits(cfg).conns > 0 /\ TLSLimits(cfg).share > 0
       /\ StreamBudget(cfg) > 0
       /\ scene = [arrives |-> cfg.arrives, stops |-> cfg.stops]
       /\ shared = (cfg.shared # 0)
       /\ budget = StreamBudget(cfg)
       /\ limits = [slots |-> [p \in Pools |->
                      IF p = "tls" THEN TLSLimits(cfg).conns ELSE QUICLimits(cfg).conns],
                    shares |-> [k \in Kinds |->
                      IF k = "tls" THEN TLSLimits(cfg).share ELSE QUICLimits(cfg).share]]
  /\ slots = [p \in Pools |-> 0]
  /\ clients = [k \in Kinds |-> [s \in Sources |-> 0]]
  /\ serve = [k \in Kinds |-> "accepting"]
  /\ held = [k \in Kinds |-> None]
  /\ closing = [k \in Kinds |-> FALSE]
  /\ closer = [k \in Kinds |-> "idle"]
  /\ wg = [k \in Kinds |-> 0]
  /\ conns = [k \in Kinds |-> {}]
  /\ conn = [c \in Conns |-> [pc |-> "new", open |-> FALSE, authenticated |-> FALSE]]
  /\ timer = [c \in Conns |-> "off"]
  /\ stream = [x \in Streams |-> "idle"]
  /\ upstream = [x \in Streams |-> "none"]
  /\ streamSem = 0
  /\ coreSem = 0
-----------------------------------------------------------------------------
(* Peers. *)

Move(c, to) == conn' = [conn EXCEPT ![c].pc = to]

\* The connection ends: the peer closes it, or it times out.  One that ends
\* before it is served is noticed only then.
PeerCloses(c) ==
  /\ conn[c].open /\ conn[c].pc = "serving"
  /\ conn' = [conn EXCEPT ![c].open = FALSE]
  /\ UNCHANGED <<budgetVars, serverVars, slots, clients, wg, conns, timer, streamVars>>
-----------------------------------------------------------------------------
(* Serve. *)

\* The lifecycle lock is held between a slot and the end of the admission.
Locked(k) == held[k] # None /\ conn[held[k]].pc = "slotted"

\* The context given to Serve is canceled, perhaps while a connection is held.
Canceled(k) ==
  /\ serve[k] = "accepting" /\ k \in scene.stops
  /\ serve' = [serve EXCEPT ![k] = "canceled"]
  /\ UNCHANGED <<budgetVars, held, closing, closer, slots, clients, wg, conns, conn, timer, streamVars>>

\* The listener hands over a new connection (QUIC: after its handshake).
Accept(k, c) ==
  /\ serve[k] \in {"accepting", "canceled"} /\ held[k] = None
  /\ KindOf[c] = k /\ conn[c].pc = "new" /\ c \in scene.arrives /\ closer[k] \in {"idle", "closing"}
  /\ held' = [held EXCEPT ![k] = c]
  /\ conn' = [conn EXCEPT ![c] = [@ EXCEPT !.pc = "held", !.open = TRUE]]
  /\ UNCHANGED <<budgetVars, serve, closing, closer, slots, clients, wg, conns, timer, streamVars>>

\* acceptCtx: ends with Serve's context or with the server's.
ContextDone(k) == serve[k] = "canceled" \/ closer[k] \in {"waiting", "done"}

\* The held connection is closed and Serve goes round.
Drop(k, c) ==
  /\ conn' = [conn EXCEPT ![c] = [@ EXCEPT !.pc = "gone", !.open = FALSE]]
  /\ held' = [held EXCEPT ![k] = None]

RefuseClosing(k, c) ==
  /\ held[k] = c /\ conn[c].pc = "held" /\ (closing[k] \/ serve[k] = "canceled")
  /\ Drop(k, c)
  /\ serve' = [serve EXCEPT ![k] = IF ContextDone(k) THEN "stopping" ELSE @]
  /\ UNCHANGED <<budgetVars, closing, closer, slots, clients, wg, conns, timer, streamVars>>

HasSlotOffByOne(c) == slots[PoolOf(c)] <= limits.slots[PoolOf(c)]  \* mutant
HasSlot(c) == slots[PoolOf(c)] < limits.slots[PoolOf(c)]

RefuseFull(k, c) ==
  /\ held[k] = c /\ conn[c].pc = "held" /\ ~closing[k] /\ serve[k] = "accepting"
  /\ ~HasSlot(c)
  /\ Drop(k, c)
  /\ UNCHANGED <<budgetVars, serve, closing, closer, slots, clients, wg, conns, timer, streamVars>>

TakeSlot(k, c) ==
  /\ held[k] = c /\ conn[c].pc = "held" /\ ~closing[k] /\ serve[k] = "accepting"
  /\ HasSlot(c)
  /\ slots' = [slots EXCEPT ![PoolOf(c)] = @ + 1]
  /\ Move(c, "slotted")
  /\ UNCHANGED <<budgetVars, serverVars, clients, wg, conns, timer, streamVars>>

\* sourceConnectionLimiter.acquire and release.
HasShare(k, c) == clients[k][SourceOf[c]] < limits.shares[k]
Release(k, c) == clients' = [clients EXCEPT ![k][SourceOf[c]] = @ - 1]

\* The source has its share already: the slot goes back.
GiveSlot(c) == slots' = [slots EXCEPT ![PoolOf(c)] = @ - 1]
RefuseSourceKeepsSlot(k, c) ==      \* mutant: the slot is not returned
  /\ held[k] = c /\ conn[c].pc = "slotted" /\ ~HasShare(k, c)
  /\ Drop(k, c)
  /\ UNCHANGED <<budgetVars, serve, closing, closer, slots, clients, wg, conns, timer, streamVars>>
RefuseSource(k, c) ==
  /\ held[k] = c /\ conn[c].pc = "slotted" /\ ~HasShare(k, c)
  /\ GiveSlot(c)
  /\ Drop(k, c)
  /\ UNCHANGED <<budgetVars, serve, closing, closer, clients, wg, conns, timer, streamVars>>

\* Registered with wg before the lifecycle lock is released.
Admit(k, c) ==
  /\ held[k] = c /\ conn[c].pc = "slotted" /\ HasShare(k, c)
  /\ clients' = [clients EXCEPT ![k][SourceOf[c]] = @ + 1]
  /\ conns' = [conns EXCEPT ![k] = @ \cup {c}]
  /\ wg' = [wg EXCEPT ![k] = @ + 1]
  /\ held' = [held EXCEPT ![k] = None]
  /\ Move(c, "admitted")
  /\ UNCHANGED <<budgetVars, serve, closing, closer, slots, timer, streamVars>>

\* The accept loop ends: its context is done or the listener is closed.
AcceptEnds(k) ==
  /\ serve[k] \in {"accepting", "canceled"} /\ held[k] = None /\ ContextDone(k)
  /\ serve' = [serve EXCEPT ![k] = "stopping"]
  /\ UNCHANGED <<budgetVars, held, closing, closer, slots, clients, wg, conns, conn, timer, streamVars>>

\* Serve's deferred Close has run, here or in another caller.
ServeReturns(k) ==
  /\ serve[k] = "stopping" /\ closer[k] = "done"
  /\ serve' = [serve EXCEPT ![k] = "returned"]
  /\ UNCHANGED <<budgetVars, held, closing, closer, slots, clients, wg, conns, conn, timer, streamVars>>
-----------------------------------------------------------------------------
(* Close: one body, run by whoever comes first. *)

\* Called by Serve when it stops, or by the owner at any time.
CloseBegins(k) ==
  /\ closer[k] = "idle" /\ k \in scene.stops /\ ~Locked(k)
  /\ closing' = [closing EXCEPT ![k] = TRUE]
  /\ closer' = [closer EXCEPT ![k] = "closing"]
  /\ UNCHANGED <<budgetVars, serve, held, slots, clients, wg, conns, conn, timer, streamVars>>

\* The listener and every registered connection are closed.
CloseConns(k) ==
  /\ closer[k] = "closing"
  /\ closer' = [closer EXCEPT ![k] = "waiting"]
  /\ conn' = [c \in Conns |->
       IF c \in conns[k] THEN [conn[c] EXCEPT !.open = FALSE] ELSE conn[c]]
  /\ UNCHANGED <<budgetVars, serve, held, closing, slots, clients, wg, conns, timer, streamVars>>

JoinedConns(k) == conns[k] = {}     \* mutant: only the connections are joined
Joined(k) == wg[k] = 0
CloseReturns(k) ==
  /\ closer[k] = "waiting" /\ Joined(k)
  /\ closer' = [closer EXCEPT ![k] = "done"]
  /\ UNCHANGED <<budgetVars, serve, held, closing, slots, clients, wg, conns, conn, timer, streamVars>>
-----------------------------------------------------------------------------
(* A connection's goroutine: serveConnection, serveTLSConnection. *)

\* Pacing and the datagram dispatcher are set up and the timer starts.
BeginQUIC(c) ==
  /\ KindOf[c] = "quic" /\ conn[c].pc = "admitted"
  /\ Move(c, "serving")
  /\ timer' = [timer EXCEPT ![c] = "armed"]
  /\ UNCHANGED <<budgetVars, serverVars, slots, clients, wg, conns, streamVars>>

\* The set-up fails: the connection is refused.  (TLS: the handshake fails,
\* runs out of time, or does not negotiate autocar/2.)
BeginFails(c) ==
  /\ conn[c].pc = "admitted"
  /\ conn' = [conn EXCEPT ![c] = [@ EXCEPT !.pc = "leaving", !.open = FALSE]]
  /\ UNCHANGED <<budgetVars, serverVars, slots, clients, wg, conns, timer, streamVars>>

\* The TLS handshake is complete and the one stream is served.
BeginTLS(c, x) ==
  /\ KindOf[c] = "tls" /\ conn[c].pc = "admitted" /\ conn[c].open
  /\ x \in On(c) /\ stream[x] = "idle"
  /\ Move(c, "serving")
  /\ stream' = [stream EXCEPT ![x] = "reading"]
  /\ UNCHANGED <<budgetVars, serverVars, slots, clients, wg, conns, timer, upstream, streamSem, coreSem>>

\* The timer's callback looks under authMu, and acts after releasing it.
TimerFires(c) ==
  /\ timer[c] = "armed"
  /\ timer' = [timer EXCEPT ![c] = IF conn[c].authenticated THEN "off" ELSE "expired"]
  /\ UNCHANGED <<budgetVars, serverVars, slots, clients, wg, conns, conn, streamVars>>

TimerCloses(c) ==
  /\ timer[c] = "expired"
  /\ timer' = [timer EXCEPT ![c] = "off"]
  /\ conn' = [conn EXCEPT ![c].open = FALSE]
  /\ UNCHANGED <<budgetVars, serverVars, slots, clients, wg, conns, streamVars>>

Accepting(c) == conn[c].pc = "serving" /\ \A x \in On(c) : stream[x] # "held"

AcceptStream(x) ==
  /\ KindOfStream(x) = "quic" /\ stream[x] = "idle" /\ x \in scene.arrives
  /\ Accepting(ConnOf[x]) /\ conn[ConnOf[x]].open
  /\ stream' = [stream EXCEPT ![x] = "held"]
  /\ UNCHANGED <<budgetVars, serverVars, slots, clients, wg, conns, conn, timer, upstream, streamSem, coreSem>>

\* AcceptStream fails because the connection is over.
AcceptStreamFails(c) ==
  /\ KindOf[c] = "quic" /\ Accepting(c) /\ ~conn[c].open
  /\ Move(c, "leaving")
  /\ timer' = [timer EXCEPT ![c] = IF @ = "armed" THEN "off" ELSE @]
  /\ stream' = [x \in Streams |-> IF x \in On(c) /\ stream[x] = "idle" THEN "done" ELSE stream[x]]
  /\ UNCHANGED <<budgetVars, serverVars, slots, clients, wg, conns, upstream, streamSem, coreSem>>

\* The server closes: the stream is closed and serveConnection returns,
\* without closing the connection.
RefuseStreamClosing(x) ==
  /\ stream[x] = "held" /\ closing["quic"] /\ ~Locked("quic")
  /\ Move(ConnOf[x], "leaving")
  /\ timer' = [timer EXCEPT ![ConnOf[x]] = IF @ = "armed" THEN "off" ELSE @]
  /\ stream' = [y \in Streams |->
       IF y = x \/ (y \in On(ConnOf[x]) /\ stream[y] = "idle") THEN "done" ELSE stream[y]]
  /\ UNCHANGED <<budgetVars, serverVars, slots, clients, wg, conns, upstream, streamSem, coreSem>>

\* streamSem is full: a busy response, and the loop goes on.
RefuseStreamBusy(x) ==
  /\ stream[x] = "held" /\ ~closing["quic"] /\ ~Locked("quic") /\ streamSem >= budget
  /\ stream' = [stream EXCEPT ![x] = "done"]
  /\ UNCHANGED <<budgetVars, serverVars, slots, clients, wg, conns, conn, timer, upstream, streamSem, coreSem>>

AdmitStream(x) ==
  /\ stream[x] = "held" /\ ~closing["quic"] /\ ~Locked("quic") /\ streamSem < budget
  /\ streamSem' = streamSem + 1
  /\ wg' = [wg EXCEPT !["quic"] = @ + 1]
  /\ stream' = [stream EXCEPT ![x] = "reading"]
  /\ UNCHANGED <<budgetVars, serverVars, slots, clients, conns, conn, timer, upstream, coreSem>>

\* The deferred calls of the connection's goroutine, in their order: out of
\* s.conns and of the source's count, then the slot and the wait group.
Unregister(c) ==
  /\ conn[c].pc = "leaving"
  /\ conns' = [conns EXCEPT ![KindOf[c]] = @ \ {c}]
  /\ conn' = [conn EXCEPT ![c].pc = "unregistered",
                          ![c].open = IF KindOf[c] = "tls" THEN FALSE ELSE @]
  /\ Release(KindOf[c], c)
  /\ UNCHANGED <<budgetVars, serverVars, slots, wg, timer, streamVars>>

ConnDone(c) ==
  /\ conn[c].pc = "unregistered"
  /\ GiveSlot(c)
  /\ wg' = [wg EXCEPT ![KindOf[c]] = @ - 1]
  /\ Move(c, "gone")
  /\ UNCHANGED <<budgetVars, serverVars, clients, conns, timer, streamVars>>
-----------------------------------------------------------------------------
(* handleStream. *)

To(x, pc) == stream' = [stream EXCEPT ![x] = pc]
streamOnly == <<budgetVars, serverVars, slots, clients, wg, conns>>

\* The request cannot be read within the deadline, is not valid, or its
\* token is not the server's.
BadRequest(x) ==
  /\ stream[x] = "reading"
  /\ To(x, "finishing")
  /\ UNCHANGED <<streamOnly, conn, timer, upstream, streamSem, coreSem>>

\* A good token: markAuthenticated stops the connection's timer; then the
\* request takes a stream of the core's budget, or is told the server is busy.
Authenticated(x) ==
  /\ stream[x] = "reading" /\ conn[ConnOf[x]].open
  /\ conn' = [conn EXCEPT ![ConnOf[x]].authenticated = TRUE]
  /\ timer' = [timer EXCEPT ![ConnOf[x]] = IF @ = "armed" THEN "off" ELSE @]
  /\ \/ coreSem < budget /\ coreSem' = coreSem + 1 /\ To(x, "opening")
     \/ coreSem >= budget /\ UNCHANGED coreSem /\ To(x, "finishing")
  /\ UNCHANGED <<streamOnly, upstream, streamSem>>

\* A request for datagrams on QUIC lives as long as its association.
HandlesUDP(x) ==
  /\ stream[x] = "opening" /\ KindOfStream(x) = "quic"
  /\ To(x, "association")
  /\ UNCHANGED <<streamOnly, conn, timer, upstream, streamSem, coreSem>>

\* Refused metadata, UDP over TLS, a failed or late dial, or the end of the
\* association: the deferred release, then finishStream.
RequestEnds(x) ==
  /\ stream[x] \in {"opening", "association"}
  /\ coreSem' = coreSem - 1
  /\ To(x, "finishing")
  /\ UNCHANGED <<streamOnly, conn, timer, upstream, streamSem>>

DialSucceeds(x) ==
  /\ stream[x] = "opening"
  /\ upstream' = [upstream EXCEPT ![x] = "open"]
  /\ To(x, "relaying")
  /\ UNCHANGED <<streamOnly, conn, timer, streamSem, coreSem>>

\* RelayOwner: the QUIC connection, or Serve's context for TLS.
OwnerEndedNever(x) == FALSE         \* mutant: the relay has no owner
OwnerEnded(x) ==
  IF KindOfStream(x) = "quic" THEN ~conn[ConnOf[x]].open
  ELSE serve["tls"] # "accepting" \/ ContextDone("tls")

OwnerCloses(x) ==
  /\ stream[x] = "relaying" /\ upstream[x] = "open" /\ OwnerEnded(x)
  /\ upstream' = [upstream EXCEPT ![x] = "closed"]
  /\ UNCHANGED <<streamOnly, conn, timer, stream, streamSem, coreSem>>

\* Both directions are done; the deferred calls close the destination, join
\* the owner's callback and give the core slot back.
RelayEnds(x) ==
  /\ stream[x] = "relaying"
  /\ upstream' = [upstream EXCEPT ![x] = "none"]
  /\ coreSem' = coreSem - 1
  /\ To(x, "finishing")
  /\ UNCHANGED <<streamOnly, conn, timer, streamSem>>

\* finishStream, then the goroutine's own deferred calls.
FinishQUIC(x) ==
  /\ stream[x] = "finishing" /\ KindOfStream(x) = "quic"
  /\ To(x, "done")
  /\ streamSem' = streamSem - 1
  /\ wg' = [wg EXCEPT !["quic"] = @ - 1]
  /\ UNCHANGED <<budgetVars, serverVars, slots, clients, conns, conn, timer, upstream, coreSem>>

FinishTLS(x) ==
  /\ stream[x] = "finishing" /\ KindOfStream(x) = "tls"
  /\ To(x, "done")
  /\ conn' = [conn EXCEPT ![ConnOf[x]] = [@ EXCEPT !.pc = "leaving", !.open = FALSE]]
  /\ UNCHANGED <<streamOnly, timer, upstream, streamSem, coreSem>>
-----------------------------------------------------------------------------
Admission(k) ==
  \/ \E c \in Conns : \/ RefuseClosing(k, c) \/ RefuseFull(k, c)
                      \/ TakeSlot(k, c) \/ RefuseSource(k, c) \/ Admit(k, c)
  \/ AcceptEnds(k) \/ ServeReturns(k)

\* Serve, once it stops, calls Close.
Closing(k) == CloseConns(k) \/ CloseReturns(k) \/ (serve[k] = "stopping" /\ CloseBegins(k))

Timer(c) == TimerFires(c) \/ TimerCloses(c)

Connection(c) ==
  \/ BeginQUIC(c) \/ BeginFails(c) \/ (\E x \in Streams : BeginTLS(c, x))
  \/ AcceptStreamFails(c)
  \/ Unregister(c) \/ ConnDone(c)

HeldStream(x) ==
  RefuseStreamClosing(x) \/ RefuseStreamBusy(x) \/ AdmitStream(x)

Request(x) ==
  \/ BadRequest(x) \/ Authenticated(x) \/ DialSucceeds(x) \/ OwnerCloses(x) \/ FinishQUIC(x) \/ FinishTLS(x)
  \/ RequestEnds(x) \/ HandlesUDP(x)

Next ==
  \/ \E c \in Conns : PeerCloses(c) \/ (\E k \in Kinds : Accept(k, c))
  \/ \E x \in Streams : AcceptStream(x)
  \/ \E k \in Kinds : Admission(k) \/ Canceled(k) \/ Closing(k) \/ CloseBegins(k)
  \/ \E c \in Conns : Connection(c) \/ Timer(c)
  \/ \E x \in Streams : HeldStream(x) \/ Request(x) \/ RelayEnds(x)

\* Goroutines run, timers fire, requests and dials meet their deadlines.  A
\* relay and an association need not end on their own: only when both the
\* client's side and the destination's are closed, or the connection is.
Interrupted(x) ==
  \/ stream[x] = "relaying" /\ upstream[x] = "closed" /\ ~conn[ConnOf[x]].open /\ RelayEnds(x)
  \/ stream[x] = "association" /\ ~conn[ConnOf[x]].open /\ RequestEnds(x)
Answered(x) == stream[x] # "association" /\ Request(x)

\* One condition for all of them is enough (and weaker than one for each):
\* connections and streams only move forward, so nothing can run for ever in
\* front of a goroutine that is ready.
Progress ==
  \/ \E k \in Kinds : Admission(k) \/ Closing(k)
  \/ \E c \in Conns : Connection(c) \/ Timer(c)
  \/ \E x \in Streams : HeldStream(x) \/ Answered(x) \/ Interrupted(x)

Spec == Init /\ [][Next]_vars /\ WF_vars(Progress)
-----------------------------------------------------------------------------
(* Properties. *)

Holding == {c \in Conns : conn[c].pc \in
              {"slotted", "admitted", "serving", "leaving", "unregistered"}}
Counted == {c \in Holding : conn[c].pc \notin {"slotted", "unregistered"}}
Running == {c \in Conns : conn[c].pc \in
              {"admitted", "serving", "leaving", "unregistered"}}
Working == {x \in Streams : stream[x] \notin {"idle", "held", "done"}}
Carried == {x \in Streams : stream[x] \in {"opening", "association", "relaying"}}

\* Every token is somebody's: connection slots, per-source shares, stream
\* slots and wait-group entries are those of the connections and streams that
\* have not returned theirs.  A refusal between two of them, or a deferred
\* call left out, would lose one for the life of the process.
Balanced ==
  /\ \A p \in Pools : slots[p] = Cardinality({c \in Holding : PoolOf(c) = p})
  /\ \A k \in Kinds, s \in Sources :
       clients[k][s] = Cardinality({c \in Counted : KindOf[c] = k /\ SourceOf[c] = s})
  /\ streamSem = Cardinality({x \in Working : KindOfStream(x) = "quic"})
  /\ coreSem = Cardinality(Carried) /\ coreSem <= budget
  /\ \A k \in Kinds :
       wg[k] = Cardinality({c \in Running : KindOf[c] = k})
               + (IF k = "quic" THEN streamSem ELSE 0)

\* Once a server's Close has returned, none of its connections is served, no
\* stream of it works, and no destination it dialed is open.
NothingAfterClose ==
  \A k \in Kinds : closer[k] = "done" =>
    /\ \A c \in Running : KindOf[c] # k
    /\ \A x \in Working : KindOfStream(x) # k
    /\ \A x \in Streams : KindOfStream(x) = k => upstream[x] # "open"

\* Both listeners implement connection admission: never more connections than
\* slots, never more of one source than its share, each slot given back once,
\* also when the two servers share one budget and interleave their refusals.
ShareOf(c) == <<KindOf[c], SourceOf[c]>>
Slots == INSTANCE SlotPool WITH
  pool <- [c \in Conns |-> PoolOf(c)], holders <- Holding, admitted <- Counted
ImplementsSlotPool == Slots!Spec

\* A connection that serveConnection left, on its way to refuse a stream,
\* between the publication of closing and Close's look at s.conns.
Abandoned(k) == \E c \in Conns :
  KindOf[c] = k /\ conn[c].open /\ conn[c].pc \in {"unregistered", "gone"}

\* "Close stops accepting, closes active QUIC connections and waits for relay
\* goroutines" (the comment of QUICServer.Close): while it waits, no connection
\* that carries a request is open.  An abandoned one is: its other streams, and
\* Close with them, go on for as long as the client keeps them.
ActiveConnectionsClosed ==
  closer["quic"] \in {"waiting", "done"} =>
    \A x \in Working : KindOfStream(x) = "quic" => ~conn[ConnOf[x]].open

Settled ==
  /\ \A k \in Kinds : closing[k] => closer[k] = "done" \/ Abandoned(k)
  /\ \A c \in Conns : KindOf[c] = "quic" /\ conn[c].pc = "serving" =>
       conn[c].authenticated \/ ~conn[c].open

\* Close returns, whatever the relays are doing, because each has an owner that
\* cuts it (but see Abandoned); and a QUIC connection does not stay without a
\* valid request: it is authenticated, or closed by its timer.  (Connections
\* and streams do not start over, so the servers come to rest.)
Settles == <>[]Settled
=============================================================================
