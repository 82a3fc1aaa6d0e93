------------------------------ MODULE MCLifecycles ------------------------------
(***************************************************************************)
(* Eight small machines of the client's process and of the tunnel's        *)
(* streams that run independently of each other: the local proxy under     *)
(* Shutdown (two clients), one relay (two chunks of data and a timeout of  *)
(* two ticks), one paced QUIC stream (two goroutines), the event           *)
(* dispatcher (eight transitions, a queue of three), the main goroutine    *)
(* (three listeners), the timers of a web stream (three settings), the     *)
(* pacer (two writers) and the datagram reassembler (two messages, four    *)
(* bytes).  A behaviour runs one of them, part.                            *)
(*                                                                         *)
(* Of the reassembler's messages two use one key with the same meta, a     *)
(* third has the key with other metadata, a fourth is empty and a fifth    *)
(* too long to encode.  The fragments of a peer with other limits together *)
(* exceed the payload limit, have an impossible index, or begin a message  *)
(* that is one too many.                                                   *)
(***************************************************************************)
EXTENDS Integers, Sequences

CONSTANTS
  Conns, MaxConns,                         \* of the local proxy
  AskUDP,                                  \* bound: clients that may ask for UDP
  MaxData, Idle,                           \* of the relay
  Callers,                                 \* goroutines on a stream or a client
  MaxOps, MaxChunks, MaxSets,              \* of the stream
  Dispatchers, MaxPending, MaxEvents,      \* of the event dispatcher
  Listeners,                               \* of the main goroutine
  MaxTimerSets,                            \* of the stream's timers
  Writers, Burst, Rates, Allowance,        \* of the pacer
  MaxWait, MaxTime, MaxChanges,
  Parts                                    \* which of the eight a run explores

ASSUME LifecyclesAssumption ==
  /\ Idle \in Nat
  /\ "nobody" \notin Callers \cup Writers
  /\ MaxPending \in Nat \ {0} /\ MaxEvents \in Nat
  /\ Listeners \subseteq Nat \ {0}
  /\ Burst \in Nat \ {0} /\ Rates \subseteq Nat \ {0}
  /\ Allowance \in Nat /\ MaxWait \in Nat

VARIABLES
  part,
  front, serve, listener, stopped, tracked, zero, shutdown, expired, doomed,
  client, handler, upstream, udp, http,
  kind, sent, end, put, fin, shut, pump, out, owner, left, age, returned,
  pc, chunks, ops, result, mu, deadline, gen, wait, paceable, closed, aborted,
  closing, stream,
  selected, lastFallback, lastEvent, eventQueue, dispatching, caller,
  dispatcher, delivered,
  command, parent, canceled, goroutine, errorsCh, main, told, outcome, broken,
  open, late, seq, due, armed, fired, closers, released, sets,
  turn, need, got, givenUp, holder, nap, tokens, refilled, rate, probe, now,
  changes, credit,
  messages, bufferedBytes, time, encoded, inFlight, lastArrival, completed

proxyVars ==
  <<front, serve, listener, stopped, tracked, zero, shutdown, expired, doomed,
    client, handler, upstream, udp, http>>
relayVars ==
  <<kind, sent, end, put, fin, shut, pump, out, owner, left, age, returned>>
writerVars ==
  <<pc, chunks, ops, result, mu, deadline, gen, wait, paceable, closed, aborted,
    closing, stream>>
eventVars ==
  <<selected, lastFallback, lastEvent, eventQueue, dispatching, caller,
    dispatcher, delivered>>
mainVars ==
  <<command, parent, canceled, goroutine, errorsCh, main, told, outcome, broken>>
timerVars == <<open, late, seq, due, armed, fired, closers, released, sets>>
pacerVars ==
  <<turn, need, got, givenUp, holder, nap, tokens, refilled, rate, probe, now,
    changes, credit>>
datagramVars ==
  <<messages, bufferedBytes, time, encoded, inFlight, lastArrival, completed>>
vars ==
  <<part, proxyVars, relayVars, writerVars, eventVars, mainVars, timerVars,
    pacerVars, datagramVars>>

Key(s, n) == [session |-> s, message |-> n]
Msg(key, meta, payload, room) ==
  [key |-> key, meta |-> meta, payload |-> payload, room |-> room]
Piece(key, i, payload) ==
  [key |-> key, meta |-> "a", index |-> i, count |-> 2, payload |-> payload]
Messages ==
  {Msg(Key(1, 1), "a", <<1, 2, 3>>, 1), Msg(Key(1, 1), "a", <<4, 5, 6>>, 1),
   Msg(Key(1, 1), "b", <<7, 8>>, 1), Msg(Key(2, 1), "a", <<>>, 1),
   Msg(Key(2, 1), "b", <<1, 2, 3, 4>>, 1)}
PeerFragments ==
  {Piece(Key(2, 9), 0, <<1, 2, 3>>), Piece(Key(2, 9), 1, <<1>>),
   Piece(Key(2, 9), 2, <<1>>), Piece(Key(2, 8), 0, <<1>>)}

Proxy == INSTANCE LocalProxy
Tunnel == INSTANCE Relay
Writer == INSTANCE StreamWriter
Events == INSTANCE ClientEvents
Main == INSTANCE Supervisor
Timers == INSTANCE StreamTimers WITH expired <- late, MaxSets <- MaxTimerSets
Pace == INSTANCE Pacer WITH pc <- turn, canceled <- givenUp
Datagrams == INSTANCE Reassembler WITH
  Traffic <- Messages, Foreign <- PeerFragments, MaxMessages <- 2,
  MaxBufferedBytes <- 4, TTL <- 2, MaxPayloadSize <- 3, MaxFragments <- 3,
  MaxClock <- 2, clock <- time, sent <- encoded, delivered <- completed
-----------------------------------------------------------------------------
Runs(p) == part = p /\ UNCHANGED part
ButProxy ==
  UNCHANGED <<relayVars, writerVars, eventVars, mainVars, timerVars,
              pacerVars, datagramVars>>
ButTunnel ==
  UNCHANGED <<proxyVars, writerVars, eventVars, mainVars, timerVars,
              pacerVars, datagramVars>>
ButWriter ==
  UNCHANGED <<proxyVars, relayVars, eventVars, mainVars, timerVars,
              pacerVars, datagramVars>>
ButEvents ==
  UNCHANGED <<proxyVars, relayVars, writerVars, mainVars, timerVars,
              pacerVars, datagramVars>>
ButMain ==
  UNCHANGED <<proxyVars, relayVars, writerVars, eventVars, timerVars,
              pacerVars, datagramVars>>
ButTimers ==
  UNCHANGED <<proxyVars, relayVars, writerVars, eventVars, mainVars,
              pacerVars, datagramVars>>
ButPacer ==
  UNCHANGED <<proxyVars, relayVars, writerVars, eventVars, mainVars,
              timerVars, datagramVars>>
ButDatagrams ==
  UNCHANGED <<proxyVars, relayVars, writerVars, eventVars, mainVars,
              timerVars, pacerVars>>

\* The parts that do not run stay at one initial state.
Init ==
  /\ Proxy!Init /\ Tunnel!Init /\ Writer!Init /\ Events!Init /\ Main!Init
  /\ Timers!Init /\ Pace!Init /\ Datagrams!Init
  /\ part \in Parts
  /\ part # "proxy" => front = "http"
  /\ part # "relay" => kind = "tunnel"
  /\ part # "main" => command = "client"
  /\ part # "pacer" => \A r \in Rates : rate <= r

\* Bound: only some of the clients ask for UDP.
FewAssociations == \A c \in Conns \ AskUDP : handler'[c] # "associate"

Next ==
  \/ Runs("proxy") /\ Proxy!Next /\ FewAssociations /\ ButProxy
  \/ Runs("relay") /\ Tunnel!Next /\ ButTunnel
  \/ Runs("writer") /\ Writer!Next /\ ButWriter
  \/ Runs("events") /\ Events!Next /\ ButEvents
  \/ Runs("main") /\ Main!Next /\ ButMain
  \/ Runs("timers") /\ Timers!Next /\ ButTimers
  \/ Runs("pacer") /\ Pace!Next /\ ButPacer
  \/ Runs("datagrams") /\ Datagrams!Next /\ ButDatagrams

Safety == Init /\ [][Next]_vars

\* Each part but the proxy takes finitely many steps, so that one condition
\* makes it go on as long as it can; a client may go on asking for ever, so the
\* proxy's handlers and its Shutdown are each fair.
Handles(c) == part = "proxy" /\ (Proxy!Handles(c) \/ Proxy!EndsAlone(c))
Spec ==
  /\ Safety
  /\ WF_relayVars(part = "relay" /\ Tunnel!Progress)
  /\ WF_writerVars(part = "writer" /\ Writer!Progress)
  /\ WF_eventVars(part = "events" /\ Events!Progress)
  /\ WF_mainVars(part = "main" /\ Main!Progress)
  /\ WF_proxyVars(part = "proxy" /\ Proxy!Down)
  /\ \A c \in Conns : WF_proxyVars(Handles(c))
-----------------------------------------------------------------------------
\* When the local proxy's Shutdown returns without an error, no connection is
\* left or still to come (serverLifecycle.shutdown, connTracker).
DrainedMeansEmpty == Proxy!DrainedMeansEmpty

\* A half-close is the end of the whole stream, not of a part (copyHalf), and the
\* proxy's relay idles out only when both directions were idle
\* (relayActivity.refresh).
RelaysFaithfully == []Tunnel!CleanEnd /\ Tunnel!IdleIsWholeTunnel

\* A paced Write reports the deadline it has now (quicStreamConn.waitForPacing).
HonestErrors == Writer!HonestErrors

\* The handler sees transitions in commit order, and whenever no dispatcher is
\* left it has seen the latest (enqueueClientEvent, dispatchClientEvents).
EventsInOrder == Events!EventsInOrder

\* The process returns the error of the listener that broke (runServer,
\* runClient).
FirstError == Main!FirstError

\* An overtaken timer ends nothing (expireRead, expireWrite).
TimersCurrent == Timers!TimersCurrent

\* The pacer admits a burst and what its rates granted, no more (refillLocked,
\* refund, admit), and no writer sleeps on for capacity that is there
\* (sleepUntilStateChange).
Paced == Pace!Paced /\ Pace!NoStaleSleep

\* What the reassembler delivers was sent, its buffers are inside its limits and
\* what its byte counters say, and a duplicate extends no lifetime (Add,
\* expireLocked, DiscardSession).
Reassembles == Datagrams!Reassembles

\* Shutdown and every connection's end, a failed or abandoned relay, Close of a
\* stream, the delivery of the latest event and the end of the process all come;
\* an abandoned relay of an HTTP/2 tunnel may wait for its client (relayWebH2).
Settles ==
  <>[](CASE part = "proxy" -> Proxy!Settled
         [] part = "relay" -> Tunnel!Settled
         [] part = "writer" -> Writer!Settled
         [] part = "events" -> Events!Settled
         [] part = "main" -> Main!Settled
         [] OTHER -> TRUE)

\* "A stalled target therefore releases its stream slot within the pending write's
\* timeout", of QUIC, TLS, H2 and H3 tunnels (docs/DEPLOYMENT.md, lines 409-414):
\* false for an HTTP/2 tunnel whose client does not read (relayWebH2).
StalledTargetReleases == Tunnel!StalledTargetReleases
=============================================================================
