------------------------------- MODULE LocalProxy -------------------------------
(***************************************************************************)
(* A local proxy front end (SOCKS5Server or HTTPServer in internal/proxy): *)
(* the tracker that counts its client connections, the lifecycle of its    *)
(* listener, and the handler of each connection - SOCKS CONNECT and UDP    *)
(* ASSOCIATE, HTTP CONNECT and forwarded requests - with what it opens.    *)
(*                                                                         *)
(* Abstracted: what clients and origins say (a request is one of four      *)
(* kinds or bad), the relay of bytes (Relay), and net/http's pool of       *)
(* origin connections, which outlives the requests.                        *)
(***************************************************************************)
EXTENDS FiniteSets, Naturals

CONSTANTS
  Conns,        \* client connections
  MaxConns      \* tracker.max

VARIABLES
  front,        \* "socks" or "http"
  serve,        \* Serve: "idle", "managed", "returned"
  listener,     \* "none", "open", "closed"
  stopped,      \* serverLifecycle.stopped and tracker.accepting
  tracked,      \* tracker.conns
  zero,         \* tracker.zero: which channel it is, and whether it is closed
  shutdown,     \* Shutdown: its step, the channel it waits for
  expired,      \* the context given to Shutdown is done
  doomed,       \* what closeAll has listed
  client,       \* each trackedConn: socket, closed mark, context
  handler,      \* each connection's handler: its step
  upstream,     \* the destination connections and packet connections open
  udp,          \* each UDP association: local socket, control reader, workers
  http          \* connections net/http counts as its own: "idle", "active", "no"

serverVars == <<front, serve, listener, stopped>>
trackerVars == <<tracked, zero>>
downVars == <<shutdown, expired, doomed>>
workVars == <<handler, upstream, udp, http>>
vars == <<serverVars, trackerVars, downVars, client, workVars>>

NoUDP == [local |-> FALSE, control |-> "none", workers |-> {}]

Init ==
  /\ front \in {"socks", "http"}
  /\ serve = "idle"
  /\ listener = "none"
  /\ stopped = FALSE
  /\ tracked = {}
  /\ zero = [channel |-> 0, closed |-> TRUE]
  /\ shutdown = [step |-> "idle", channel |-> 0]
  /\ expired = FALSE
  /\ doomed = {}
  /\ client = [c \in Conns |-> [open |-> FALSE, closing |-> "no", registered |-> FALSE, canceled |-> FALSE]]
  /\ handler = [c \in Conns |-> "none"]
  /\ upstream = {}
  /\ udp = [c \in Conns |-> NoUDP]
  /\ http = [c \in Conns |-> "no"]
-----------------------------------------------------------------------------
(* Serve, Accept and the tracker *)

\* manage: a listener that comes after Shutdown is closed.
Serve ==
  /\ serve = "idle"
  /\ IF stopped THEN serve' = "returned" /\ listener' = "closed"
                ELSE serve' = "managed" /\ listener' = "open"
  /\ UNCHANGED <<front, stopped, trackerVars, downVars, client, workVars>>

\* The listener's own Accept returns one connection at a time.
Arrive(c) ==
  /\ serve = "managed" /\ listener = "open" /\ handler[c] = "none"
  /\ \A d \in Conns : handler[d] # "accepted"
  /\ handler' = [handler EXCEPT ![c] = "accepted"]
  /\ client' = [client EXCEPT ![c].open = TRUE]
  /\ UNCHANGED <<serverVars, trackerVars, downVars, upstream, udp, http>>

MayAddAlways == Cardinality(tracked) < MaxConns     \* mutant: accepting is not looked at
MayAdd == ~stopped /\ Cardinality(tracked) < MaxConns
Add(c) ==
  /\ handler[c] = "accepted" /\ MayAdd
  /\ tracked' = tracked \cup {c}
  /\ zero' = IF tracked = {} THEN [channel |-> zero.channel + 1, closed |-> FALSE] ELSE zero
  /\ IF front = "http"       \* ConnContext is called by Serve's own goroutine
     THEN /\ handler' = [handler EXCEPT ![c] = "read"]
          /\ client' = [client EXCEPT ![c].registered = TRUE]
          /\ http' = [http EXCEPT ![c] = "idle"]
     ELSE /\ handler' = [handler EXCEPT ![c] = "start"]
          /\ UNCHANGED <<client, http>>
  /\ UNCHANGED <<serverVars, downVars, upstream, udp>>

Refuse(c) ==
  /\ handler[c] = "accepted" /\ ~MayAdd
  /\ client' = [client EXCEPT ![c].open = FALSE]
  /\ handler' = [handler EXCEPT ![c] = "refused"]
  /\ serve' = IF stopped THEN "returned" ELSE serve
  /\ UNCHANGED <<front, listener, stopped, trackerVars, downVars, upstream, udp, http>>

ServeReturns ==
  /\ serve = "managed" /\ listener = "closed" /\ \A c \in Conns : handler[c] # "accepted"
  /\ serve' = "returned"
  /\ UNCHANGED <<front, listener, stopped, trackerVars, downVars, client, workVars>>

\* trackedConn.Close: the socket, then once the mark with the cancellation, and
\* the tracker.  Several may call it; whoever is second waits for the first.
Shut(c) == [client EXCEPT ![c].open = FALSE, ![c].closing = IF @ = "no" THEN "once" ELSE @]

Mark(c) ==
  /\ client[c].closing = "once"
  /\ client' = [client EXCEPT ![c].closing = "marked", ![c].canceled = client[c].registered]
  /\ UNCHANGED <<serverVars, trackerVars, downVars, workVars>>

Remove(c) ==
  /\ client[c].closing = "marked"
  /\ client' = [client EXCEPT ![c].closing = "done"]
  /\ tracked' = tracked \ {c}
  /\ zero' = IF tracked = {c} THEN [zero EXCEPT !.closed = TRUE] ELSE zero
  /\ UNCHANGED <<serverVars, downVars, workVars>>
-----------------------------------------------------------------------------
(* Shutdown *)

Step(to) == shutdown' = [shutdown EXCEPT !.step = to]

StopAccepting ==
  /\ shutdown.step = "idle"
  /\ stopped' = TRUE
  /\ Step("listener")
  /\ UNCHANGED <<front, serve, listener, trackerVars, expired, doomed, client, workVars>>

\* Only a listener that manage had taken before is closed here.
CloseListener ==
  /\ shutdown.step = "listener"
  /\ listener' = IF listener = "open" THEN "closed" ELSE listener
  /\ Step(IF front = "http" THEN "http" ELSE "wait")
  /\ UNCHANGED <<front, serve, stopped, trackerVars, expired, doomed, client, workVars>>

\* http.Server.Shutdown (external): idle connections are closed as they are
\* found; connections it has given away by Hijack are not its own.
CloseIdle(c) ==
  /\ shutdown.step = "http" /\ http[c] = "idle" /\ client[c].closing = "no"
  /\ client' = Shut(c)
  /\ UNCHANGED <<serverVars, trackerVars, downVars, workVars>>

HTTPDone ==
  /\ shutdown.step = "http"
  /\ expired \/ \A c \in Conns : http[c] = "no"
  /\ Step("wait")
  /\ UNCHANGED <<serverVars, trackerVars, expired, doomed, client, workVars>>

\* connTracker.wait takes the channel once.
TakeZero ==
  /\ shutdown.step = "wait"
  /\ shutdown' = [step |-> "waiting", channel |-> zero.channel]
  /\ UNCHANGED <<serverVars, trackerVars, expired, doomed, client, workVars>>

ZeroClosed == shutdown.channel < zero.channel \/ zero.closed
Drained ==
  /\ shutdown.step = "waiting" /\ ZeroClosed
  /\ Step("drained")
  /\ UNCHANGED <<serverVars, trackerVars, expired, doomed, client, workVars>>

CloseAll ==
  /\ shutdown.step = "waiting" /\ expired
  /\ doomed' = tracked
  /\ Step("closing")
  /\ UNCHANGED <<serverVars, trackerVars, expired, client, workVars>>

CloseOne(c) ==
  /\ shutdown.step = "closing" /\ c \in doomed
  /\ IF client[c].closing = "no" THEN client' = Shut(c) /\ UNCHANGED doomed
     ELSE client[c].closing = "done" /\ doomed' = doomed \ {c} /\ UNCHANGED client
  /\ UNCHANGED <<serverVars, trackerVars, shutdown, expired, workVars>>

ShutdownReturns ==
  /\ shutdown.step = "closing" /\ doomed = {}
  /\ Step("forced")
  /\ UNCHANGED <<serverVars, trackerVars, expired, doomed, client, workVars>>

Expire ==
  /\ ~expired /\ shutdown.step # "idle"
  /\ expired' = TRUE
  /\ UNCHANGED <<serverVars, trackerVars, shutdown, doomed, client, workVars>>
-----------------------------------------------------------------------------
(* serveConn, serveConnect and ServeHTTP *)

outside == <<serverVars, trackerVars, downVars>>
To(c, step) == handler' = [handler EXCEPT ![c] = step]
Open(c) == client[c].open
Alive(c) == ~client[c].canceled

\* connectionContext: registration against Close, in either order.
Register(c) ==
  /\ handler[c] = "start"
  /\ client' = [client EXCEPT ![c].registered = TRUE,
                              ![c].canceled = client[c].closing \in {"marked", "done"}]
  /\ To(c, "read")
  /\ UNCHANGED <<outside, upstream, udp, http>>

\* Negotiation and the request, or the next request of a kept connection.
Requests(c) ==
  /\ handler[c] = "read" /\ Open(c)
  /\ To(c, "dial") \/ To(c, IF front = "http" THEN "exchange" ELSE "associate")
  /\ http' = [http EXCEPT ![c] = IF @ = "idle" THEN "active" ELSE @]
  /\ UNCHANGED <<outside, client, upstream, udp>>

\* A bad request, a deadline, the end of the client's stream, or its closing.
ReadFails(c) ==
  /\ handler[c] = "read"
  /\ To(c, "close")
  /\ UNCHANGED <<outside, client, upstream, udp, http>>

\* The dialer's answer: a success that comes after cancellation or expiry is
\* closed at once.
Dialed(c) ==
  /\ handler[c] = "dial"
  /\ \/ Alive(c) /\ upstream' = upstream \cup {c} /\ To(c, "reply")
     \/ UNCHANGED upstream /\ To(c, "close")
  /\ UNCHANGED <<outside, client, udp, http>>

\* The reply, the hijack and the replay of buffered bytes.
Replies(c) ==
  /\ handler[c] = "reply"
  /\ \/ Open(c) /\ To(c, "relay") /\ http' = [http EXCEPT ![c] = "no"]
     \/ To(c, "close") /\ UNCHANGED http
  /\ UNCHANGED <<outside, client, upstream, udp>>

\* watchRelayOwner: the connection's context closes both sides.
OwnerCloses(c) ==
  /\ handler[c] = "relay" /\ ~Alive(c) /\ c \in upstream
  /\ upstream' = upstream \ {c}
  /\ client' = Shut(c)
  /\ UNCHANGED <<outside, handler, udp, http>>

\* A relay that aborts closes the client first, then the destination.
RelayAborts(c) ==
  /\ handler[c] = "relay"
  /\ client' = Shut(c)
  /\ UNCHANGED <<outside, workVars>>

RelayEnds(c) ==
  /\ handler[c] = "relay"
  /\ To(c, "close")
  /\ UNCHANGED <<outside, client, upstream, udp, http>>

\* serveForward: the exchange ends, and the connection is kept or closed.
Exchanged(c) ==
  /\ handler[c] = "exchange"
  /\ \/ Open(c) /\ ~stopped /\ To(c, "read") /\ http' = [http EXCEPT ![c] = "idle"]
     \/ To(c, "close") /\ UNCHANGED http
  /\ UNCHANGED <<outside, client, upstream, udp>>

\* The deferred calls: the destination, then the client, which is waited for.
Closes(c) ==
  /\ handler[c] = "close"
  /\ upstream' = upstream \ {c}
  /\ client' = IF client[c].closing = "no" THEN Shut(c) ELSE [client EXCEPT ![c].open = FALSE]
  /\ To(c, "closing")
  /\ UNCHANGED <<outside, udp, http>>

Done(c) ==
  /\ handler[c] = "closing" /\ client[c].closing = "done"
  /\ To(c, "done")
  /\ http' = [http EXCEPT ![c] = "no"]
  /\ UNCHANGED <<outside, client, upstream, udp>>

\* The client's end of the socket.
Leaves(c) ==
  /\ Open(c) /\ handler[c] \notin {"accepted", "start"}
  /\ client' = [client EXCEPT ![c].open = FALSE]
  /\ UNCHANGED <<outside, workVars>>
-----------------------------------------------------------------------------
(* serveUDPAssociate and runSOCKSUDPAssociation *)

udpOnly == <<outside, client, http>>
U(c, field, value) == udp' = [udp EXCEPT ![c][field] = value]

\* The control reader is started before anything that may wait.
Watch(c) ==
  /\ handler[c] = "associate"
  /\ U(c, "control", "reading")
  /\ To(c, "udp setup")
  /\ UNCHANGED <<udpOnly, upstream>>

InterruptsNever(c) == FALSE          \* mutant: the reader is joined, not interrupted
Interrupts(c) == handler[c] = "udp join"
ControlEnds(c) ==
  /\ udp[c].control = "reading"
  /\ ~Open(c) \/ Interrupts(c)
  /\ U(c, "control", "done")
  /\ UNCHANGED <<udpOnly, handler, upstream>>

\* Validation, the UDP socket and DialPacket; the control reader cancels them.
Listens(c) ==
  /\ handler[c] = "udp setup"
  /\ \/ U(c, "local", TRUE) /\ To(c, "udp dial")
     \/ UNCHANGED udp /\ To(c, "udp undo")
  /\ UNCHANGED <<udpOnly, upstream>>

DialsPacket(c) ==
  /\ handler[c] = "udp dial"
  /\ \/ upstream' = upstream \cup {c} /\ To(c, "udp reply")
     \/ UNCHANGED upstream /\ To(c, "udp undo")
  /\ UNCHANGED <<udpOnly, udp>>

RepliesUDP(c) ==
  /\ handler[c] = "udp reply"
  /\ \/ Open(c) /\ udp[c].control = "reading" /\ To(c, "udp run") /\ U(c, "workers", {"out", "in"})
     \/ To(c, "udp undo") /\ UNCHANGED udp
  /\ UNCHANGED <<udpOnly, upstream>>

\* A pump ends when its socket does: the local one or the packet connection.
WorkerEnds(c, w) ==
  /\ w \in udp[c].workers
  /\ U(c, "workers", udp[c].workers \ {w})
  /\ UNCHANGED <<udpOnly, handler, upstream>>

\* Control closure, a pump's end, a fatal send error or idleness.
AssociationEnds(c) ==
  /\ handler[c] = "udp run"
  /\ To(c, "udp undo")
  /\ UNCHANGED <<udpOnly, upstream, udp>>

Undo(c) ==
  /\ handler[c] = "udp undo"
  /\ U(c, "local", FALSE)
  /\ upstream' = upstream \ {c}
  /\ To(c, "udp stop")
  /\ UNCHANGED udpOnly

JoinsWorkers(c) ==
  /\ handler[c] = "udp stop" /\ udp[c].workers = {}
  /\ To(c, "udp join")
  /\ UNCHANGED <<udpOnly, upstream, udp>>

\* The control reader is interrupted and joined before the client is released.
JoinsControl(c) ==
  /\ handler[c] = "udp join" /\ udp[c].control = "done"
  /\ To(c, "close")
  /\ UNCHANGED <<udpOnly, upstream, udp>>
-----------------------------------------------------------------------------
Down ==
  \/ CloseListener \/ HTTPDone \/ TakeZero \/ Drained \/ CloseAll \/ ShutdownReturns
  \/ ServeReturns \/ \E c \in Conns : CloseIdle(c) \/ CloseOne(c)

Handles(c) ==
  \/ Add(c) \/ Refuse(c) \/ Mark(c) \/ Remove(c)
  \/ Register(c) \/ Dialed(c) \/ Replies(c) \/ OwnerCloses(c) \/ Exchanged(c) \/ Closes(c) \/ Done(c)
  \/ Watch(c) \/ ControlEnds(c) \/ Listens(c) \/ DialsPacket(c) \/ RepliesUDP(c)
  \/ Undo(c) \/ JoinsWorkers(c) \/ JoinsControl(c)

Ends(c) == ReadFails(c) \/ RelayAborts(c) \/ RelayEnds(c) \/ AssociationEnds(c) \/ \E w \in {"out", "in"} : WorkerEnds(c, w)

\* What ends by itself: a read with its socket, a relay when a side is closed,
\* a pump when its socket is closed, an association with its control reader.
EndsAlone(c) ==
  \/ ~Open(c) /\ (ReadFails(c) \/ RelayEnds(c))
  \/ c \notin upstream /\ RelayEnds(c)
  \/ udp[c].control = "done" /\ AssociationEnds(c)
  \/ handler[c] = "udp stop" /\ \E w \in {"out", "in"} : WorkerEnds(c, w)

Next ==
  \/ Serve \/ StopAccepting \/ Expire \/ Down
  \/ \E c \in Conns : Arrive(c) \/ Handles(c) \/ Requests(c) \/ Ends(c) \/ Leaves(c)

Spec ==
  /\ Init /\ [][Next]_vars
  /\ WF_vars(Down)
  /\ \A c \in Conns : WF_vars(Handles(c) \/ EndsAlone(c))
-----------------------------------------------------------------------------
(* Properties. *)

\* When Shutdown returns without an error there is no client connection, nor
\* will there be one: not one accepted while Shutdown began, not one of a
\* listener given to Serve too late.
DrainedMeansEmpty ==
  shutdown.step = "drained" =>
    /\ tracked = {} /\ listener # "open"
    /\ \A c \in Conns : handler[c] \notin {"none", "accepted", "refused"} => client[c].closing = "done"

Settled ==
  /\ \A c \in Conns : handler[c] \in {"none", "refused", "read", "relay", "udp run", "exchange", "done"}
  /\ \A c \in Conns : handler[c] # "none" /\ ~Open(c) =>
       /\ handler[c] \in {"refused", "done"}
       /\ c \notin tracked /\ c \notin upstream /\ ~udp[c].local /\ udp[c].workers = {}
  /\ shutdown.step # "idle" /\ (expired \/ tracked = {}) => shutdown.step \in {"drained", "forced"}
  /\ shutdown.step \in {"drained", "forced"} => serve # "managed" /\ listener # "open"
  /\ shutdown.step = "forced" => tracked = {}

\* Once a client's socket is closed, by whoever, everything opened for it goes:
\* its dial, its destination, its UDP socket and the goroutines.  A handler is
\* left waiting only for its client or its origin.  Shutdown returns when the
\* connections have gone, or when its context has expired, having closed all.
Settles == <>[]Settled
=============================================================================
