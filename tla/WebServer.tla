-------------------------------- MODULE WebServer --------------------------------
(***************************************************************************)
(* The web origin (WebServer in internal/tunnel): one HTTPS listener and   *)
(* one HTTP/3 listener on the same port, the connection admission they     *)
(* share, the registry that keeps TCP sockets owned after net/http lets    *)
(* them go, and the handler of one request: the bootstrap gate of its      *)
(* connection, the stream budget, the dial and the relay.                  *)
(*                                                                         *)
(* Abstracted: HTTP itself, credentials (one verifies or not; see          *)
(* WebSessionAuth, ReplayWindow and NonceCache) and the relay of bytes     *)
(* (Relay), which ends in one step.                                        *)
(***************************************************************************)
EXTENDS FiniteSets, Integers

CONSTANTS
  Conns,            \* HTTPS and HTTP/3 connections that arrive
  KindOf,           \* [Conns -> {"h2", "h3"}]
  SourceOf,         \* [Conns -> the address block the limiter counts]
  Requests,         \* requests
  ConnOf,           \* [Requests -> Conns]
  Attempts,         \* webListenPortAttempts
  MaxConnections, MaxClientConnections,
  MaxStreams        \* cap(core.sem)

Sides == {"h2", "h3"}
Sources == {SourceOf[c] : c \in Conns}

VARIABLES
  boot,        \* ListenWeb: its step, attempt and bound sockets; whether it ever stops
  slots,       \* tokens in webConnectionAdmission.slots
  clients,     \* its per-source counts
  conn,        \* each connection: where it is, and whether it is open
  owner,       \* webTCPConnectionOwner: closed, and the sockets registered
  doomed,      \* the sockets owner.close has found
  side,        \* Serve of each listener
  canceled,    \* the context given to Serve is done
  closers,     \* the bodies of WebH2Server, WebH3Server and WebServer.Close
  serve,       \* WebServer.Serve
  gate,        \* webServerConnectionAuth of each connection
  request,     \* each request's handler
  upstream,    \* its destination connection
  coreSem      \* tokens in core.sem

listenVars == <<boot, owner, doomed, side, canceled, closers, serve>>
slotVars == <<slots, clients>>
requestVars == <<gate, request, upstream, coreSem>>
vars == <<listenVars, slotVars, conn, requestVars>>

Init ==
  /\ boot \in [step : {"tcp"}, attempt : {1}, fixed : BOOLEAN, stops : BOOLEAN, tcp : {FALSE}, udp : {FALSE}]
  /\ slots = 0
  /\ clients = [s \in Sources |-> 0]
  /\ conn \in [Conns -> [pc : {"new", "gone"}, open : {FALSE}]]      \* which come
  /\ owner = [closed |-> FALSE, conns |-> {}]
  /\ doomed = {}
  /\ side = [k \in Sides |-> "serving"]
  /\ canceled = FALSE
  /\ closers = [h2 |-> "idle", h3 |-> "idle", web |-> "idle"]
  /\ serve = "running"
  /\ gate = [c \in Conns |-> [phase |-> "fresh", generation |-> 0]]
  /\ request \in [Requests -> [pc : {"idle", "absent"}, generation : {0}]]
  /\ upstream = {}
  /\ coreSem = 0
-----------------------------------------------------------------------------
(* ListenWeb: TCP first, then UDP on the port TCP got. *)

booting == <<slotVars, conn, owner, doomed, side, canceled, closers, serve, requestVars>>

BindTCP ==
  /\ boot.step = "tcp"
  /\ \/ boot' = [boot EXCEPT !.step = "udp", !.tcp = TRUE]
     \/ boot' = [boot EXCEPT !.step = "failed"]
  /\ UNCHANGED booting

BindUDP ==
  /\ boot.step = "udp"
  /\ boot' = [boot EXCEPT !.step = "up", !.udp = TRUE, !.attempt = 1, !.fixed = TRUE]
  /\ UNCHANGED booting

\* The TCP listener is closed again.  Only an ephemeral port that UDP has in
\* use is tried again, and not for ever.
AfterUDPFailureKeepsTCP(inUse) ==   \* mutant: the TCP listener is forgotten
  boot' = [boot EXCEPT
    !.step = IF inUse /\ ~boot.fixed /\ boot.attempt < Attempts THEN "tcp" ELSE "failed",
    !.attempt = IF inUse /\ ~boot.fixed /\ boot.attempt < Attempts THEN @ + 1 ELSE @]
AfterUDPFailure(inUse) ==
  boot' = [boot EXCEPT
    !.tcp = FALSE,
    !.step = IF inUse /\ ~boot.fixed /\ boot.attempt < Attempts THEN "tcp" ELSE "failed",
    !.attempt = IF inUse /\ ~boot.fixed /\ boot.attempt < Attempts THEN @ + 1 ELSE @]
UDPFails ==
  /\ boot.step = "udp"
  /\ \E inUse \in BOOLEAN : AfterUDPFailure(inUse)
  /\ UNCHANGED booting

Up == boot.step = "up"
-----------------------------------------------------------------------------
(* Connection admission, under both listeners. *)

Move(c, to) == conn' = [conn EXCEPT ![c].pc = to]
Gone(c) == conn' = [conn EXCEPT ![c] = [pc |-> "gone", open |-> FALSE]]
Listening(k) == Up /\ side[k] = "serving" /\ closers[k] # "done" /\ (k = "h2" \/ closers["h3"] = "idle")
HasSlotOffByOne == slots <= MaxConnections    \* mutant
HasSlot == slots < MaxConnections
HasShare(c) == clients[SourceOf[c]] < MaxClientConnections

\* A listener's Accept takes one connection at a time.
Free(k) == \A c \in Conns : KindOf[c] = k => conn[c].pc \notin {"slotted", "counted"}

TakeSlot(c) ==
  /\ conn[c].pc = "new" /\ Listening(KindOf[c]) /\ Free(KindOf[c]) /\ HasSlot
  /\ slots' = slots + 1
  /\ conn' = [conn EXCEPT ![c] = [pc |-> "slotted", open |-> TRUE]]
  /\ UNCHANGED <<listenVars, clients, requestVars>>

RefuseFull(c) ==
  /\ conn[c].pc = "new" /\ Listening(KindOf[c]) /\ Free(KindOf[c]) /\ ~HasSlot
  /\ Gone(c)
  /\ UNCHANGED <<listenVars, slotVars, requestVars>>

RefuseSource(c) ==
  /\ conn[c].pc = "slotted" /\ ~HasShare(c)
  /\ slots' = slots - 1
  /\ Gone(c)
  /\ UNCHANGED <<listenVars, clients, requestVars>>

Count(c) ==
  /\ conn[c].pc = "slotted" /\ HasShare(c)
  /\ clients' = [clients EXCEPT ![SourceOf[c]] = @ + 1]
  /\ Move(c, IF KindOf[c] = "h2" THEN "counted" ELSE "served")
  /\ UNCHANGED <<listenVars, slots, requestVars>>

\* webTCPConnectionOwner.register: a socket that comes after close is closed.
MayRegisterAlways == TRUE           \* mutant: closed is not looked at
MayRegister == ~owner.closed
Register(c) ==
  /\ conn[c].pc = "counted"
  /\ IF MayRegister
     THEN /\ owner' = [owner EXCEPT !.conns = @ \cup {c}]
          /\ Move(c, "served")
          /\ UNCHANGED side
     ELSE /\ conn' = [conn EXCEPT ![c] = [pc |-> "served", open |-> FALSE]]
          /\ side' = [side EXCEPT !["h2"] = "returned"]   \* Accept: net.ErrClosed
          /\ UNCHANGED owner
  /\ UNCHANGED <<boot, doomed, canceled, closers, serve, slotVars, requestVars>>

\* The connection ends: the peer, net/http or quic-go closes it.
Ends(c) ==
  /\ conn[c].open /\ conn[c].pc = "served"
  /\ conn' = [conn EXCEPT ![c].open = FALSE]
  /\ UNCHANGED <<listenVars, slotVars, requestVars>>

\* The release function, once: the source's count, then the slot; a socket is
\* then removed from the registry.
Leave(c) ==
  /\ conn[c].pc = "served" /\ ~conn[c].open
  /\ clients' = [clients EXCEPT ![SourceOf[c]] = @ - 1]
  /\ Move(c, "left")
  /\ UNCHANGED <<listenVars, slots, requestVars>>

Give(c) ==
  /\ conn[c].pc = "left"
  /\ slots' = slots - 1
  /\ owner' = [owner EXCEPT !.conns = @ \ {c}]
  /\ Move(c, "gone")
  /\ UNCHANGED <<boot, doomed, side, canceled, closers, serve, clients, requestVars>>
-----------------------------------------------------------------------------
(* Serve and Close. *)

lifeOnly == <<boot, slotVars, requestVars>>

Cancel ==
  /\ Up /\ boot.stops /\ ~canceled
  /\ canceled' = TRUE
  /\ UNCHANGED <<lifeOnly, conn, owner, doomed, side, closers, serve>>

ListenerFails(k) ==
  /\ Up /\ boot.stops /\ side[k] = "serving" /\ closers[k] = "idle"
  /\ side' = [side EXCEPT ![k] = "returned"]
  /\ UNCHANGED <<lifeOnly, conn, owner, doomed, canceled, closers, serve>>

Advance(body, to) == closers' = [closers EXCEPT ![body] = to]

\* WebH3Server.Close, or the end of its Serve: every QUIC connection ends.
CloseH3 ==
  /\ closers.h3 = "idle" /\ Up
  /\ canceled \/ closers.web = "h3"
  /\ Advance("h3", "done")
  /\ conn' = [c \in Conns |-> IF KindOf[c] = "h3" THEN [conn[c] EXCEPT !.open = FALSE] ELSE conn[c]]
  /\ UNCHANGED <<lifeOnly, owner, doomed, side, canceled, serve>>

\* WebH2Server.Close: owner.close marks and lists, closes what it listed, and
\* then net/http and the listener are closed.
CloseOwner ==
  /\ closers.h2 = "idle" /\ Up
  /\ canceled \/ closers.web = "h2" \/ side["h2"] = "returned"
  /\ owner' = [owner EXCEPT !.closed = TRUE]
  /\ doomed' = owner.conns
  /\ Advance("h2", "owner")
  /\ UNCHANGED <<lifeOnly, conn, side, canceled, serve>>

CloseOwned ==
  /\ closers.h2 = "owner"
  /\ conn' = [c \in Conns |-> IF c \in doomed THEN [conn[c] EXCEPT !.open = FALSE] ELSE conn[c]]
  /\ doomed' = {}
  /\ Advance("h2", "owned")
  /\ UNCHANGED <<lifeOnly, owner, side, canceled, serve>>

CloseListener ==
  /\ closers.h2 = "owned"
  /\ Advance("h2", "done")
  /\ UNCHANGED <<lifeOnly, conn, owner, doomed, side, canceled, serve>>

\* WebServer.Close: H3 first, then H2.
CloseWeb ==
  /\ closers.web = "idle" /\ Up /\ boot.stops
  /\ Advance("web", "h3")
  /\ UNCHANGED <<lifeOnly, conn, owner, doomed, side, canceled, serve>>

CloseWebNext ==
  /\ \/ closers.web = "h3" /\ closers.h3 = "done" /\ Advance("web", "h2")
     \/ closers.web = "h2" /\ closers.h2 = "done" /\ Advance("web", "done")
  /\ UNCHANGED <<lifeOnly, conn, owner, doomed, side, canceled, serve>>

SideReturns(k) ==
  /\ side[k] = "serving" /\ closers[k] = "done"
  /\ side' = [side EXCEPT ![k] = "returned"]
  /\ UNCHANGED <<lifeOnly, conn, owner, doomed, canceled, closers, serve>>

\* WebServer.Serve: the first listener to return closes the other.
WaitsForBothToFail == \A k \in Sides : side[k] = "returned"   \* mutant
FirstReturned == \E k \in Sides : side[k] = "returned"
ServeCloses ==
  /\ serve = "running" /\ FirstReturned
  /\ serve' = "closing"
  /\ closers' = [closers EXCEPT !.web = IF @ = "idle" THEN "h3" ELSE @]
  /\ UNCHANGED <<lifeOnly, conn, owner, doomed, side, canceled>>

ServeReturns ==
  /\ serve = "closing" /\ closers.web = "done" /\ \A k \in Sides : side[k] = "returned"
  /\ serve' = "returned"
  /\ canceled' = TRUE
  /\ UNCHANGED <<lifeOnly, conn, owner, doomed, side, closers>>
-----------------------------------------------------------------------------
(* The handler: ServeHTTP and authenticateWebRequest. *)

handlerOnly == <<listenVars, slotVars>>
To(r, pc) == request' = [request EXCEPT ![r].pc = pc]
Gate(r) == gate[ConnOf[r]]
Alive(r) == conn[ConnOf[r]].open

\* A request for the cover site, or one that is not a CONNECT over TLS 1.3, is
\* served by the site and is not modelled.  phaseSnapshot:
Arrive(r) ==
  /\ request[r].pc = "idle" /\ conn[ConnOf[r]].pc = "served" /\ Alive(r)
  /\ To(r, CASE Gate(r).phase = "fresh" -> "fresh"
             [] Gate(r).phase = "bootstrapping" -> "join"
             [] Gate(r).phase = "established" -> "session"
             [] Gate(r).phase = "closed" -> "done")
  /\ UNCHANGED <<handlerOnly, conn, gate, upstream, coreSem>>

\* beginBootstrap: claims the one full authentication, or joins the winner.
Begin(r) ==
  /\ request[r].pc = "fresh"
  /\ IF Gate(r).phase = "fresh"
     THEN To(r, "verify") /\ gate' = [gate EXCEPT ![ConnOf[r]].phase = "bootstrapping"]
     ELSE To(r, "join") /\ UNCHANGED gate
  /\ UNCHANGED <<handlerOnly, conn, upstream, coreSem>>

\* abortBootstrap: the waiters are released and the connection is fresh again.
AbortKeepsPhase(g) == [g EXCEPT !.generation = @ + 1]        \* mutant
Aborted(g) ==
  IF g.phase = "bootstrapping" THEN [phase |-> "fresh", generation |-> g.generation + 1] ELSE g

FullRefused(r) ==
  /\ request[r].pc = "verify"
  /\ gate' = [gate EXCEPT ![ConnOf[r]] = Aborted(@)]
  /\ To(r, "done")
  /\ UNCHANGED <<handlerOnly, conn, upstream, coreSem>>

FullVerified(r) ==
  /\ request[r].pc = "verify"
  /\ To(r, "lead")
  /\ UNCHANGED <<handlerOnly, conn, gate, upstream, coreSem>>

\* waitEstablished.
Join(r) ==
  /\ request[r].pc = "join"
  /\ request' = [request EXCEPT ![r] =
       [pc |-> CASE Gate(r).phase = "established" -> "session"
                 [] Gate(r).phase = "bootstrapping" -> "waiting"
                 [] OTHER -> "done",
        generation |-> IF Gate(r).phase = "bootstrapping" THEN Gate(r).generation ELSE 0]]
  /\ UNCHANGED <<handlerOnly, conn, gate, upstream, coreSem>>

\* The channel a waiter has taken is closed by establish, abort and close.
Ready(r) == Gate(r).generation # request[r].generation \/ Gate(r).phase \in {"established", "closed"}
Woken(r) ==
  /\ request[r].pc = "waiting" /\ Ready(r)
  /\ request' = [request EXCEPT ![r] =
       [pc |-> IF Gate(r).generation = request[r].generation /\ Gate(r).phase = "established"
               THEN "session" ELSE "done",
        generation |-> 0]]
  /\ UNCHANGED <<handlerOnly, conn, gate, upstream, coreSem>>

\* The request's context ends with its connection, or its stream is reset.
GivesUp(r) ==
  /\ request[r].pc = "waiting"
  /\ request' = [request EXCEPT ![r] = [pc |-> "done", generation |-> 0]]
  /\ UNCHANGED <<handlerOnly, conn, gate, upstream, coreSem>>

\* verifyAuthorization of a short ticket.
Ticket(r) ==
  /\ request[r].pc = "session"
  /\ To(r, "ticket") \/ To(r, "done")
  /\ UNCHANGED <<handlerOnly, conn, gate, upstream, coreSem>>

Leads(r) == request[r].pc \in {"lead", "lead dial", "lead answer"}
Dialing(r) == IF Leads(r) THEN "lead dial" ELSE "dial"
Answering(r) == IF Leads(r) THEN "lead answer" ELSE "answer"

\* The stream budget, after authentication only.
Acquire(r) ==
  /\ request[r].pc \in {"lead", "ticket"}
  /\ IF coreSem < MaxStreams
     THEN coreSem' = coreSem + 1 /\ To(r, Dialing(r))
     ELSE UNCHANGED coreSem /\ To(r, IF Leads(r) THEN "lead busy" ELSE "done")
  /\ UNCHANGED <<handlerOnly, conn, gate, upstream>>

DialSucceeds(r) ==
  /\ request[r].pc \in {"dial", "lead dial"}
  /\ upstream' = upstream \cup {r}
  /\ To(r, Answering(r))
  /\ UNCHANGED <<handlerOnly, conn, gate, coreSem>>

\* The dial fails, is late, or is cut off with the request.
DialFails(r) ==
  /\ request[r].pc \in {"dial", "lead dial"}
  /\ To(r, Answering(r))
  /\ UNCHANGED <<handlerOnly, conn, gate, upstream, coreSem>>

\* closePhysicalConnection: the gate shuts, waiters go, the connection closes.
Shut(r) ==
  /\ gate' = [gate EXCEPT ![ConnOf[r]].phase = "closed"]
  /\ conn' = [conn EXCEPT ![ConnOf[r]].open = FALSE]

\* authenticatedResponseProof: a leader's answer, of whatever status,
\* establishes the session, unless the gate has been shut.
Establishes(r) ==
  IF Gate(r).phase = "bootstrapping"
  THEN gate' = [gate EXCEPT ![ConnOf[r]].phase = "established"] /\ UNCHANGED conn
  ELSE Shut(r)
Answer(r) ==
  /\ request[r].pc \in {"answer", "lead answer", "lead busy"}
  /\ IF request[r].pc = "answer" THEN UNCHANGED <<gate, conn>> ELSE Establishes(r)
  /\ IF r \in upstream /\ (request[r].pc = "answer" \/ Gate(r).phase = "bootstrapping")
     THEN To(r, "relay") /\ UNCHANGED <<upstream, coreSem>>
     ELSE /\ To(r, "done")
          /\ upstream' = upstream \ {r}
          /\ coreSem' = coreSem - (IF request[r].pc = "lead busy" THEN 0 ELSE 1)
  /\ UNCHANGED handlerOnly

\* The proof cannot be issued, or the dialer panics: the deferred
\* closeIncompleteBootstrap shuts the connection of a leader.
Incomplete(r) ==
  /\ request[r].pc \in {"lead dial", "lead answer"}
  /\ Shut(r)
  /\ To(r, "done")
  /\ upstream' = upstream \ {r}
  /\ coreSem' = coreSem - 1
  /\ UNCHANGED handlerOnly

\* The request's context, or the physical connection, closes the destination.
OwnerCloses(r) ==
  /\ request[r].pc = "relay" /\ r \in upstream /\ ~Alive(r)
  /\ upstream' = upstream \ {r}
  /\ UNCHANGED <<handlerOnly, conn, gate, request, coreSem>>

RelayEnds(r) ==
  /\ request[r].pc = "relay"
  /\ To(r, "done")
  /\ upstream' = upstream \ {r}
  /\ coreSem' = coreSem - 1
  /\ UNCHANGED <<handlerOnly, conn, gate>>
-----------------------------------------------------------------------------
Admission(c) == RefuseSource(c) \/ Count(c) \/ Register(c) \/ Leave(c) \/ Give(c)

Lifecycle ==
  \/ CloseH3 \/ CloseOwner \/ CloseOwned \/ CloseListener \/ CloseWebNext
  \/ (\E k \in Sides : SideReturns(k)) \/ ServeCloses \/ ServeReturns

Handler(r) ==
  \/ Begin(r) \/ FullRefused(r) \/ FullVerified(r) \/ Join(r) \/ Woken(r) \/ Ticket(r)
  \/ Acquire(r) \/ DialSucceeds(r) \/ DialFails(r) \/ Answer(r) \/ Incomplete(r) \/ OwnerCloses(r)

Cut(r) == ~Alive(r) /\ (GivesUp(r) \/ (r \notin upstream /\ RelayEnds(r)))

Next ==
  \/ BindTCP \/ BindUDP \/ UDPFails
  \/ Cancel \/ CloseWeb \/ \E k \in Sides : ListenerFails(k)
  \/ Lifecycle
  \/ \E c \in Conns : TakeSlot(c) \/ RefuseFull(c) \/ Ends(c) \/ Admission(c)
  \/ \E r \in Requests : Arrive(r) \/ Handler(r) \/ GivesUp(r) \/ RelayEnds(r)

\* What runs without the peer: the listeners' and handlers' own steps.  Nothing
\* starts over, so one condition is enough.
Progress ==
  \/ Lifecycle
  \/ \E c \in Conns : Admission(c)
  \/ \E r \in Requests : Handler(r) \/ Cut(r)

Spec == Init /\ [][Next]_vars /\ WF_vars(Progress)
-----------------------------------------------------------------------------
(* Properties. *)

Holding == {c \in Conns : conn[c].pc \in {"slotted", "counted", "served", "left"}}
Counted == {c \in Conns : conn[c].pc \in {"counted", "served"}}
ShareOf(c) == <<"web", SourceOf[c]>>
Slots == INSTANCE SlotPool WITH
  pool <- [c \in Conns |-> "web"], holders <- Holding, admitted <- Counted,
  limits <- [slots |-> [p \in {"web"} |-> MaxConnections],
             shares |-> [p \in {"web"} |-> MaxClientConnections]]

\* The two listeners share one admission: a source cannot have more connections
\* by changing transport, and each slot comes back once.
ImplementsSlotPool == Slots!Spec

\* On each connection one request at most is verifying a full credential or
\* answering it, and the gate says so exactly as long: no second leader, and
\* never a gate that stays bootstrapping with nobody to open it.
Leaders(c) == {r \in Requests : ConnOf[r] = c /\
  request[r].pc \in {"verify", "lead", "lead dial", "lead answer", "lead busy"}}
OneLeader ==
  \A c \in Conns :
    /\ Cardinality(Leaders(c)) <= 1
    /\ gate[c].phase = "bootstrapping" => Leaders(c) # {}
    /\ gate[c].phase \in {"fresh", "established"} => Leaders(c) = {}

\* No socket survives Close: not one accepted while Close runs, not one that
\* ListenWeb had bound when it gave up.
NoStraySocket ==
  /\ closers.web = "done" => \A c \in Conns : conn[c].open => conn[c].pc \in {"slotted", "counted"}
  /\ boot.step = "failed" => ~boot.tcp /\ ~boot.udp
  /\ boot.step = "up" => boot.tcp /\ boot.udp

Settled ==
  /\ (\E k \in Sides : side[k] = "returned") => serve = "returned"
  /\ \A r \in Requests : request[r].pc = "waiting" =>
       gate[ConnOf[r]].phase = "bootstrapping"
  /\ serve = "returned" => Holding = {} /\ slots = 0 /\ coreSem = 0 /\ upstream = {}

\* When one listener ends, for whatever reason, the other ends too and Serve
\* returns; no request waits at a gate that is open or shut; and once Serve has
\* returned every connection slot, stream slot and destination is given back.
Settles == <>[]Settled
=============================================================================
