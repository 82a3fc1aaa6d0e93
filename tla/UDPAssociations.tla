---------------------------- MODULE UDPAssociations ----------------------------
(***************************************************************************)
(* UDP associations of one QUIC connection (internal/tunnel, datagram.go): *)
(* DialPacket reserves a session on the client's dispatcher and opens a    *)
(* control stream, the server takes a slot, opens a socket, registers a    *)
(* session and answers with its id; the stream is the lease.               *)
(*                                                                         *)
(* Granularity.  One action is one critical section of a dispatcher's mu   *)
(* or of the connection limiter, one channel or stream operation, one step *)
(* of terminate or Close.  The two loops over a snapshot of the sessions   *)
(* (shutdown) close their sessions in any order.  An answer that could not *)
(* be written is not received.                                             *)
(***************************************************************************)
EXTENDS Integers, FiniteSets, Functions

CONSTANTS
  Calls,        \* control streams; a stream that is over is used again
  MaxID,        \* session ids are 1..MaxID, 2^32 - 1 in the code
  MaxClient,    \* config.maxSessions of the client
  MaxSlots,     \* capacity of manager.slots
  MaxSource,    \* limit of manager.clients for this source
  Followed,     \* the ids whose fragments are followed
  MaxOthers     \* slots held by other connections of the source

ASSUME UDPAssumption ==
  /\ Followed \subseteq 1..MaxID
  /\ MaxID \in Nat \ {0} /\ MaxClient \in Nat \ {0} /\ MaxOthers \in Nat
  /\ MaxSlots \in Nat \ {0} /\ MaxSource \in 1..MaxID

VARIABLES
  link,         \* FALSE once the QUIC connection is closed
  client,       \* the client's dispatcher: shutdown's progress and snapshot
  csessions,    \* its sessions: id -> call
  pending,      \* its reservations
  cpartial,     \* ids with unfinished messages in its reassembler
  call,         \* each DialPacket, then its quicPacketConn
  answer,       \* the id the server has granted on a stream, or 0
  server,       \* the server's dispatcher
  ssessions, nextSession, spartial,
  handler,      \* each control stream's handleRequest
  session,      \* each serverUDPSession
  slots,        \* manager.slots in use
  source,       \* manager.clients of this source
  others        \* slots in use by its other connections

clientVars == <<client, csessions, pending, cpartial, call>>
registryVars == <<ssessions, nextSession, spartial>>
limitVars == <<slots, source, others>>
serverVars == <<server, registryVars, handler, session, answer, limitVars>>
vars == <<link, clientVars, serverVars>>

Dispatcher == [phase |-> "run", todo |-> {}]

Init ==
  /\ link = TRUE
  /\ client = Dispatcher /\ csessions = << >> /\ pending = 0 /\ cpartial = {}
  /\ call = [c \in Calls |-> [pc |-> "idle", id |-> 0]]
  /\ answer = [c \in Calls |-> 0]
  /\ server = Dispatcher /\ ssessions = << >> /\ spartial = {}
  /\ nextSession \in 1..MaxID
  /\ handler = [c \in Calls |-> "none"]
  /\ session = [c \in Calls |-> [pc |-> "none", id |-> 0]]
  /\ slots = 0 /\ source = 0 /\ others = 0

\* What the server sees of the client's half of the stream.
Requested(c) == call[c].pc \in {"requested", "open", "ending", "over"}
Finished(c) == call[c].pc = "over"

\* d.ctx of a dispatcher: canceled by shutdown, or with the connection.
Canceled(dispatcher) == dispatcher.phase # "run" \/ ~link
Without(sessions, i) == Restrict(sessions, DOMAIN sessions \ {i})
With(sessions, i, c) == [j \in DOMAIN sessions \cup {i} |-> IF j = i THEN c ELSE sessions[j]]
IsListed(sessions, i, c) == i \in DOMAIN sessions /\ sessions[i] = c
-----------------------------------------------------------------------------
(* The client: DialPacket. *)

CallTo(c, pc) == call' = [call EXCEPT ![c].pc = pc]

HasRoom == Cardinality(DOMAIN csessions) + pending < MaxClient
ReserveSession(c) ==
  /\ call[c].pc = "idle" /\ ~Canceled(client) /\ HasRoom
  /\ pending' = pending + 1
  /\ CallTo(c, "reserved")
  /\ UNCHANGED <<link, client, csessions, cpartial, serverVars>>

\* OpenStreamSync and the request.
Request(c) ==
  /\ call[c].pc = "reserved" /\ link
  /\ CallTo(c, "requested")
  /\ UNCHANGED <<link, client, csessions, pending, cpartial, serverVars>>

\* No stream; no answer in time; refused; a canceled context; a closed
\* connection; pacing metadata that do not match.
ReleaseReservation(c) ==
  /\ call[c].pc \in {"reserved", "requested"}
  /\ pending' = pending - 1
  /\ CallTo(c, IF call[c].pc = "reserved" THEN "idle" ELSE "ending")
  /\ answer' = [answer EXCEPT ![c] = 0]
  /\ UNCHANGED <<link, client, csessions, cpartial, server, registryVars, handler,
                 session, limitVars>>

\* The answer's session id; it must be new to this dispatcher.
CanRegister(i) == ~Canceled(client) /\ i # 0 /\ i \notin DOMAIN csessions
RegisterAssigned(c) ==
  LET i == answer[c] IN
  /\ call[c].pc = "requested" /\ answer[c] # 0
  /\ pending' = pending - 1
  /\ IF CanRegister(i)
     THEN /\ csessions' = With(csessions, i, c)
          /\ call' = [call EXCEPT ![c] = [pc |-> "open", id |-> i]]
     ELSE CallTo(c, "ending") /\ UNCHANGED csessions
  /\ answer' = [answer EXCEPT ![c] = 0]
  /\ UNCHANGED <<link, client, cpartial, server, registryVars, handler, session,
                 limitVars>>

\* terminate, once: the session is taken off the dispatcher ...
Terminate(c) ==
  LET i == call[c].id
      listed == IsListed(csessions, i, c)
  IN
  /\ call[c].pc = "open"
  /\ csessions' = IF listed THEN Without(csessions, i) ELSE csessions
  /\ cpartial' = IF listed THEN cpartial \ {i} ELSE cpartial
  /\ CallTo(c, "ending")
  /\ UNCHANGED <<link, client, pending, serverVars>>

\* ... then the stream is finished.
FinishStream(c) ==
  /\ call[c].pc = "ending"
  /\ call' = [call EXCEPT ![c] = [pc |-> "over", id |-> 0]]
  /\ UNCHANGED <<link, client, csessions, pending, cpartial, serverVars>>

\* watchControl: the server finished the stream, or the connection is closed.
WatchControl(c) == (handler[c] = "over" \/ ~link) /\ Terminate(c)
-----------------------------------------------------------------------------
(* shutdown of the client's dispatcher: Client.Close or the receive loop. *)

ClientShutdown ==
  /\ client.phase = "run"
  /\ client' = [client EXCEPT !.phase = "canceled"]
  /\ UNCHANGED <<link, csessions, pending, cpartial, call, serverVars>>

ClientSnapshot ==
  /\ client.phase = "canceled"
  /\ client' = [phase |-> "closing", todo |-> Range(csessions)]
  /\ UNCHANGED <<link, csessions, pending, cpartial, call, serverVars>>

ClientShutdownTerminates(c) == c \in client.todo /\ Terminate(c)

\* Every terminate has returned.
ClientDone ==
  /\ client.phase = "closing"
  /\ \A c \in client.todo : call[c].pc \notin {"open", "ending"}
\* receiveLoop: a fragment of a listed session; its message is unfinished, or
\* complete and delivered.
ClientReceives(i) ==
  /\ ~ClientDone /\ i \in DOMAIN csessions
  /\ cpartial' \in {cpartial \cup {i}, cpartial \ {i}}
  /\ UNCHANGED <<link, client, csessions, pending, call, serverVars>>
-----------------------------------------------------------------------------
(* The server: handleRequest. *)

HandlerTo(c, pc) == handler' = [handler EXCEPT ![c] = pc]

\* No room for the stream, wrong token or pacing metadata.
Decline(c) ==
  /\ handler[c] = "none" /\ Requested(c) /\ link
  /\ HandlerTo(c, "refuse")
  /\ UNCHANGED <<link, clientVars, server, registryVars, session, answer, limitVars>>

\* acquire: a slot and a share of the source's, then ListenUDP.
SourceFullKeepsSlot(c) ==                     \* mutant: the slot is not given back
  HandlerTo(c, "refuse") /\ slots' = slots + 1 /\ UNCHANGED source
SourceFull(c) == HandlerTo(c, "refuse") /\ UNCHANGED <<slots, source>>
Acquire(c) ==
  /\ handler[c] = "none" /\ Requested(c) /\ link
  /\ IF slots < MaxSlots
     THEN IF source < MaxSource
          THEN /\ slots' = slots + 1 /\ source' = source + 1
               /\ HandlerTo(c, "register") \/ HandlerTo(c, "release")
          ELSE SourceFull(c)
     ELSE HandlerTo(c, "refuse") /\ UNCHANGED <<slots, source>>
  /\ UNCHANGED <<link, clientVars, server, registryVars, session, answer, others>>

\* register: the next id that is neither zero nor in use.
After(i) == IF i = MaxID THEN 1 ELSE i + 1
NextInUse == After(nextSession)               \* mutant: ids in use are not skipped
NextFree ==
  LET free == 1..MaxID \ DOMAIN ssessions
      Distance(i) == (i - nextSession - 1) % MaxID
  IN CHOOSE i \in free : \A j \in free : Distance(i) <= Distance(j)
Register(c) ==
  /\ handler[c] = "register"
  /\ IF Canceled(server)
     THEN HandlerTo(c, "release") /\ UNCHANGED <<registryVars, session>>
     ELSE /\ nextSession' = NextFree
          /\ ssessions' = With(ssessions, NextFree, c)
          /\ session' = [session EXCEPT ![c] = [pc |-> "running", id |-> NextFree]]
          /\ HandlerTo(c, "respond")
          /\ UNCHANGED spartial
  /\ UNCHANGED <<link, clientVars, server, answer, limitVars>>

\* The answer is written, or the stream or the connection is gone.
Respond(c) ==
  /\ handler[c] = "respond"
  /\ \/ /\ link
        /\ answer' = [answer EXCEPT ![c] =
                        IF call[c].pc = "requested" THEN session[c].id ELSE 0]
        /\ HandlerTo(c, "lease")
     \/ HandlerTo(c, "close") /\ UNCHANGED answer
  /\ UNCHANGED <<link, clientVars, server, registryVars, session, limitVars>>

\* The lease ends with the client's FIN or with the connection.
OnlyByClose(c) == ~link                       \* mutant: a FIN is not enough
LeaseOver(c) == Finished(c) \/ ~link
LeaseEnds(c) ==
  /\ handler[c] = "lease" /\ LeaseOver(c)
  /\ HandlerTo(c, "close")
  /\ UNCHANGED <<link, clientVars, server, registryVars, session, answer,
                 limitVars>>

\* A refusal is answered, Close has returned: handleStream finishes the stream.
HandlerReturns(c) ==
  /\ \/ handler[c] = "refuse"
     \/ handler[c] = "close" /\ session[c].pc = "closed"
  /\ HandlerTo(c, "over")
  /\ UNCHANGED <<link, clientVars, server, registryVars, session, answer, limitVars>>
-----------------------------------------------------------------------------
(* Close of a server session, once: the handler and shutdown wait for it. *)

SessionTo(c, pc) == session' = [session EXCEPT ![c].pc = pc]

\* cancel, Stop, and the socket is closed.
Close(c) ==
  /\ session[c].pc = "running"
  /\ SessionTo(c, "stopped")
  /\ UNCHANGED <<link, clientVars, server, registryVars, handler, answer,
                 limitVars>>
HandlerCloses(c) == handler[c] = "close" /\ Close(c)
ShutdownCloses(c) == c \in server.todo /\ Close(c)

\* Its goroutines have returned (module PacketSendQueue); it is taken off the
\* dispatcher.
UnregisterOwn(c) == IsListed(ssessions, session[c].id, c)
DiscardNothing(i) == spartial                 \* mutant: fragments are left behind
Discard(i) == spartial \ {i}
Unregister(c) ==
  LET i == session[c].id IN
  /\ session[c].pc = "stopped"
  /\ IF UnregisterOwn(c)
     THEN ssessions' = Without(ssessions, i) /\ spartial' = Discard(i)
     ELSE UNCHANGED <<ssessions, spartial>>
  /\ SessionTo(c, "release")
  /\ UNCHANGED <<link, clientVars, server, nextSession, handler, answer,
                 limitVars>>

\* release, also when handleRequest fails before it has a session.
Release(c) ==
  /\ \/ session[c].pc = "release" /\ UNCHANGED handler
        /\ session' = [session EXCEPT ![c] = [pc |-> "closed", id |-> 0]]
     \/ handler[c] = "release" /\ HandlerTo(c, "refuse") /\ UNCHANGED session
  /\ source' = source - 1 /\ slots' = slots - 1
  /\ UNCHANGED <<link, clientVars, server, registryVars, answer, others>>
-----------------------------------------------------------------------------
(* shutdown of the server's dispatcher, and its receive loop. *)

ServerShutdown ==
  /\ server.phase = "run"
  /\ server' = [server EXCEPT !.phase = "canceled"]
  /\ UNCHANGED <<link, clientVars, registryVars, handler, session, answer,
                 limitVars>>

ServerSnapshot ==
  /\ server.phase = "canceled"
  /\ server' = [phase |-> "closing", todo |-> Range(ssessions)]
  /\ UNCHANGED <<link, clientVars, registryVars, handler, session, answer,
                 limitVars>>

\* Every Close has returned.
ServerDone ==
  /\ server.phase = "closing"
  /\ \A c \in server.todo : session[c].pc = "closed"
ServerReceives(i) ==
  /\ ~ServerDone /\ i \in DOMAIN ssessions
  /\ spartial' \in {spartial \cup {i}, spartial \ {i}}
  /\ UNCHANGED <<link, clientVars, server, ssessions, nextSession, handler, session,
                 answer, limitVars>>
-----------------------------------------------------------------------------
(* The environment. *)

\* The connection is closed or times out.
LinkDies ==
  /\ link
  /\ link' = FALSE
  /\ UNCHANGED <<clientVars, serverVars>>

\* Associations of the source's other connections.
OthersTake ==
  /\ slots < MaxSlots /\ source < MaxSource /\ others < MaxOthers
  /\ slots' = slots + 1 /\ source' = source + 1 /\ others' = others + 1
  /\ UNCHANGED <<link, clientVars, server, registryVars, handler, session, answer>>
OthersRelease ==
  /\ others > 0
  /\ slots' = slots - 1 /\ source' = source - 1 /\ others' = others - 1
  /\ UNCHANGED <<link, clientVars, server, registryVars, handler, session, answer>>

\* The next DialPacket, on a fresh stream.
Again(c) ==
  /\ call[c].pc = "over" /\ handler[c] = "over"
  /\ ~Canceled(client) /\ ~Canceled(server)
  /\ call' = [call EXCEPT ![c] = [pc |-> "idle", id |-> 0]]
  /\ session' = [session EXCEPT ![c] = [pc |-> "none", id |-> 0]]
  /\ handler' = [handler EXCEPT ![c] = "none"]
  /\ UNCHANGED <<link, client, csessions, pending, cpartial, server, registryVars,
                 answer, limitVars>>
-----------------------------------------------------------------------------
Client(c) ==
  \/ ReserveSession(c) \/ Request(c) \/ ReleaseReservation(c) \/ RegisterAssigned(c)
  \/ Terminate(c) \/ FinishStream(c)
Handler(c) ==
  \/ Decline(c) \/ Acquire(c) \/ Register(c) \/ Respond(c)
  \/ LeaseEnds(c) \/ HandlerReturns(c) \/ HandlerCloses(c)
Session(c) ==
  ShutdownCloses(c) \/ Unregister(c) \/ Release(c)
Next ==
  \/ \E c \in Calls : Client(c) \/ Handler(c) \/ Session(c) \/ Again(c)
  \/ ClientShutdown \/ ClientSnapshot
  \/ ServerShutdown \/ ServerSnapshot
  \/ \E i \in Followed : ClientReceives(i)
  \/ \E i \in Followed : ServerReceives(i)
  \/ LinkDies \/ OthersTake \/ OthersRelease

Safety == Init /\ [][Next]_vars

(***************************************************************************)
(* Fairness.  Goroutines that can step do: while an association has a step *)
(* to take, some step of it is taken.  The receive loops shut their        *)
(* dispatcher down when the connection is closed, watchControl terminates  *)
(* its session, and DialPacket's request has a timeout.  A client need not *)
(* ever close a session, nor a connection end.                             *)
(***************************************************************************)
Progress(c) ==
  \/ ReleaseReservation(c) \/ RegisterAssigned(c) \/ WatchControl(c)
  \/ ClientShutdownTerminates(c) \/ FinishStream(c)
  \/ Handler(c) \/ Session(c)
Spec ==
  /\ Safety
  /\ \A c \in Calls : WF_vars(Progress(c))
  /\ WF_vars((~link /\ ClientShutdown) \/ ClientSnapshot)
  /\ WF_vars((~link /\ ServerShutdown) \/ ServerSnapshot)
-----------------------------------------------------------------------------
(* Properties. *)

\* Both ends agree which association an id names: as long as the connection and
\* the server's dispatcher live, the server has a session of that id for every
\* association the client holds open, and never hands out an id that the client
\* still uses ("relay reused an active UDP session ID").
SessionsAgree ==
  link /\ server.phase = "run" =>
    \A c \in Calls :
      /\ call[c].pc = "open" => /\ IsListed(csessions, call[c].id, c)
                                /\ IsListed(ssessions, call[c].id, c)
      /\ call[c].pc = "requested" /\ answer[c] # 0 =>
           answer[c] \notin DOMAIN csessions

\* Whatever fails on the way, the limits count exactly the associations that
\* hold something: a socket or a registered session is always counted, and what
\* is counted is always held by somebody who will give it back.
Holds(c) ==
  \/ handler[c] \in {"register", "release"}
  \/ session[c].pc \in {"running", "stopped", "release"}
Balanced ==
  LET held == others + Cardinality({c \in Calls : Holds(c)}) IN
  /\ slots = held /\ held <= MaxSlots
  /\ source = held /\ held <= MaxSource
  /\ pending = Cardinality({c \in Calls : call[c].pc \in {"reserved", "requested"}})
  /\ Cardinality(DOMAIN csessions) + pending <= MaxClient

\* No fragment outlives its session, or a later session of the same id could be
\* given another one's data; and a dispatcher that is done has nothing left.
NothingLeft ==
  /\ cpartial \subseteq DOMAIN csessions /\ spartial \subseteq DOMAIN ssessions
  /\ ClientDone => csessions = << >>
  /\ ServerDone => ssessions = << >>

\* Both together: no limit, session or fragment leaks at either end.
NothingLeaks == Balanced /\ NothingLeft

\* The lease: once the client has finished the stream, or the connection is
\* closed, both ends let go of the association and everything it holds.
Gone(c) ==
  /\ call[c].pc \in {"idle", "over"} /\ ~Holds(c)
  /\ \/ handler[c] = "over"
     \/ handler[c] = "none" /\ (call[c].pc = "idle" \/ ~link)
AssociationsEnd == \A c \in Calls : (Finished(c) \/ ~link) ~> Gone(c)
=============================================================================
