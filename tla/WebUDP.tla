--------------------------------- MODULE WebUDP ---------------------------------
(***************************************************************************)
(* UDP over HTTP/3 (internal/tunnel/web_udp.go): webUDPPacketConn opens    *)
(* one CONNECT-UDP stream per target when a datagram for it is first sent, *)
(* shares it among later sends, and owns every opening, session and worker *)
(* until its shutdown has joined them; serveConnectUDP and                 *)
(* webUDPServerSession serve one such stream.  Both ends send datagrams    *)
(* through a queue of the whole QUIC connection, in which a sender may be  *)
(* stuck; after a grace period only closing the connection frees it.       *)
(*                                                                         *)
(* An opening, its session and its server's handler have one number.       *)
(* Abstracted: names, datagrams and their delivery (lossy by design), the  *)
(* pool that provides connections (H3SessionPool) and authentication.  The *)
(* association that sends (internal/proxy/socks5.go) is the callers and    *)
(* their obligation to Close once a Send has told one that all is over.    *)
(***************************************************************************)
EXTENDS Naturals, FiniteSets

CONSTANTS
  Callers,       \* goroutines that call Send
  Targets,       \* canonical target addresses
  MaxSends,      \* bound: sends of each caller
  MaxOpenings,   \* bound: streams opened
  MaxTargets,    \* p.maxTargets
  Slots,         \* cap(client.udpSlots)
  Queue,         \* cap(session.outbound)
  Wires,         \* bound: 1..n, the QUIC connections the pool provides in turn
  Leases         \* what serverUDPManager grants the source

Openings == 1..MaxOpenings

VARIABLES
  call,       \* each caller: its step, target and opening, sends made, the result it
              \* is to publish, and whether a Send told it to end the association
  pdone,      \* p.ctx is done
  shutdown,   \* p.shutdown: "idle", "sessions", "pending", "workers", "done"
  snapshot,   \* the sessions and openings it has listed
  sessions,   \* p.sessions, 0 for none
  pending,    \* p.pending, 0 for none
  opening,    \* each opening: "none", "open", "session", or the error published
  session,    \* each session: terminate, queue, sender, started, connection
  slots,      \* tokens in client.udpSlots
  dead,       \* connections that are closed
  server,     \* each handler: its step and its sender
  leases      \* UDP sessions counted by serverUDPManager

packetVars == <<pdone, shutdown, snapshot, sessions, pending>>
serverVars == <<server, leases>>
vars == <<call, packetVars, opening, session, slots, dead, serverVars>>

AnyTarget == CHOOSE t \in Targets : TRUE
Closed == shutdown # "idle"          \* p.closed and p.done
NewSession == [term |-> "none", out |-> 0, sender |-> "none", wire |-> 0]

Init ==
  /\ call = [c \in Callers |-> [pc |-> "idle", target |-> AnyTarget,
                                n |-> 0, sends |-> 0, result |-> "none", told |-> FALSE]]
  /\ pdone = FALSE /\ shutdown = "idle" /\ snapshot = [sessions |-> {}, pending |-> {}]
  /\ sessions = [t \in Targets |-> 0] /\ pending = [t \in Targets |-> 0]
  /\ opening = [n \in Openings |-> "none"]
  /\ session = [n \in Openings |-> NewSession]
  /\ slots = 0 /\ dead = {}
  /\ server = [n \in Openings |-> [pc |-> "none", sender |-> "none"]]
  /\ leases = 0
-----------------------------------------------------------------------------
(* Send and session *)

Go(c, pc) == call' = [call EXCEPT ![c].pc = pc]

\* A full queue and an unavailable target cost one datagram; every other error
\* ends the association, which then sends no more (packet_send_queue.go run,
\* runSOCKSUDPAssociation).
GoesOn == {"ok", "full", "target"}
Return(c, r) == call' = [call EXCEPT ![c] = [@ EXCEPT !.pc = "idle", !.target = AnyTarget,
                           !.n = 0, !.result = "none", !.told = (r \notin GoesOn)]]

\* webUDPTargetSendError, of the errors of session: an admission limit and a
\* signed 502 or 503 are the target's own; a signed 400 and a failure that
\* proves nothing stay as they are.
TargetSendError(r) == IF r \in {"limit", "unavailable"} THEN "target" ELSE r

Send(c, t) ==
  /\ call[c].pc = "idle" /\ call[c].sends < MaxSends /\ ~call[c].told
  /\ call' = [call EXCEPT ![c] = [@ EXCEPT !.pc = "look", !.target = t,
                                  !.sends = call[c].sends + 1]]
  /\ UNCHANGED <<packetVars, opening, session, slots, dead, serverVars>>

\* What counts against maxTargets.
Listed == {t \in Targets : sessions[t] # 0} \cup {t \in Targets : pending[t] # 0}
Unused == {n \in Openings : opening[n] = "none"}
PendingUnseen(t) == 0               \* mutant: an opening under way is not joined
Pending(t) == pending[t]
Look(c) ==
  /\ call[c].pc = "look"
  /\ LET t == call[c].target IN
     \/ Closed /\ Return(c, "closed") /\ UNCHANGED <<pending, opening>>
     \/ /\ ~Closed /\ sessions[t] # 0
        /\ call' = [call EXCEPT ![c].pc = "have", ![c].n = sessions[t]]
        /\ UNCHANGED <<pending, opening>>
     \/ /\ ~Closed /\ sessions[t] = 0 /\ Pending(t) # 0
        /\ call' = [call EXCEPT ![c].pc = "await", ![c].n = pending[t]]
        /\ UNCHANGED <<pending, opening>>
     \/ /\ ~Closed /\ sessions[t] = 0 /\ Pending(t) = 0
        /\ IF Cardinality(Listed) >= MaxTargets
           THEN Return(c, TargetSendError("limit")) /\ UNCHANGED <<pending, opening>>
           ELSE \E n \in Unused :
                  /\ \A m \in Unused : n <= m
                  /\ pending' = [pending EXCEPT ![t] = n]
                  /\ opening' = [opening EXCEPT ![n] = "open"]
                  /\ call' = [call EXCEPT ![c].pc = "reserve", ![c].n = n]
  /\ UNCHANGED <<pdone, shutdown, snapshot, sessions, session, slots, dead, serverVars>>

Await(c) ==
  /\ call[c].pc = "await"
  /\ \/ opening[call[c].n] = "session" /\ Go(c, "have")
     \/ /\ opening[call[c].n] \notin {"none", "open", "session"}
        /\ Return(c, TargetSendError(opening[call[c].n]))
     \/ Closed /\ Return(c, "closed")
  /\ UNCHANGED <<packetVars, opening, session, slots, dead, serverVars>>

\* send: a session that is over concerns its target only, unless the packet
\* connection or the QUIC connection is over too (closedSendError).
ClosedWithAny(n) ==                  \* mutant: any connection of the pool
  IF pdone \/ dead # {} THEN "closed" ELSE "target"
ClosedSendError(n) == IF pdone \/ session[n].wire \in dead THEN "closed" ELSE "target"
Enqueue(c) ==
  /\ call[c].pc = "have"
  /\ LET n == call[c].n IN
     IF session[n].term = "done"
     THEN Return(c, ClosedSendError(n)) /\ UNCHANGED session
     ELSE IF session[n].out < Queue
     THEN Return(c, "ok") /\ session' = [session EXCEPT ![n].out = @ + 1]
     ELSE Return(c, "full") /\ UNCHANGED session
  /\ UNCHANGED <<packetVars, opening, slots, dead, serverVars>>
-----------------------------------------------------------------------------
(* openSession and openConnectUDPSession *)

openOnly == <<packetVars, opening>>
Settling(c, r) == call' = [call EXCEPT ![c].pc = "settle", ![c].result = r]

\* reserveWebUDPSession: other packet connections of the client may hold the rest.
Reserve(c) ==
  /\ call[c].pc = "reserve"
  /\ \/ pdone /\ Settling(c, "closed") /\ UNCHANGED slots
     \/ ~pdone /\ slots < Slots /\ slots' = slots + 1 /\ Go(c, "connect")
     \/ ~pdone /\ Settling(c, "limit") /\ UNCHANGED slots
  /\ UNCHANGED <<openOnly, session, dead, serverVars>>

\* A connection of the pool, and the request on a stream of it.
Live == {w \in Wires : w \notin dead}
Request(c) ==
  /\ call[c].pc = "connect" /\ Live # {}
  /\ session' = [session EXCEPT ![call[c].n].wire = CHOOSE w \in Live : \A v \in Live : w <= v]
  /\ server' = [server EXCEPT ![call[c].n].pc = "request"]
  /\ Go(c, "answer")
  /\ UNCHANGED <<openOnly, slots, dead, leases>>

\* The stream is canceled and the slot is given back: no connection, timeout,
\* cancellation or an answer that is no proof ("failed"), or what the server
\* has signed: 502 and 503 ("unavailable") or 400 ("rejected").
KeepsSlot == UNCHANGED slots         \* mutant
GivesBack == slots' = slots - 1
OpenFails(c) ==
  /\ call[c].pc \in {"connect", "answer"}
  /\ \/ Settling(c, "failed")
     \/ call[c].pc = "answer" /\ server[call[c].n].pc = "refused" /\ Settling(c, "unavailable")
     \/ call[c].pc = "answer" /\ server[call[c].n].pc = "rejected" /\ Settling(c, "rejected")
  /\ GivesBack
  /\ session' = [session EXCEPT ![call[c].n].term = "abandoned"]
  /\ UNCHANGED <<openOnly, dead, serverVars>>

Opened(c) ==
  /\ call[c].pc = "answer" /\ ~pdone
  /\ server[call[c].n].pc \in {"running", "ending", "over"} /\ session[call[c].n].wire \notin dead
  /\ session' = [session EXCEPT ![call[c].n].term = "no"]
  /\ Settling(c, "session")
  /\ UNCHANGED <<openOnly, slots, dead, serverVars>>

\* Published, or refused because shutdown has come first.
Settle(c) ==
  /\ call[c].pc = "settle"
  /\ LET n == call[c].n
         r == call[c].result
         t == call[c].target
     IN IF r = "session" /\ Closed
        THEN Go(c, "late") /\ UNCHANGED <<sessions, pending, opening, session>>
        ELSE /\ pending' = [pending EXCEPT ![t] = 0]
             /\ opening' = [opening EXCEPT ![n] = r]
             /\ IF r = "session"
                THEN /\ sessions' = [sessions EXCEPT ![t] = n]
                     /\ session' = [session EXCEPT ![n].sender = "idle"]
                     /\ call' = [call EXCEPT ![c].pc = "have", ![c].result = "none"]
                ELSE Return(c, TargetSendError(r)) /\ UNCHANGED <<sessions, session>>
  /\ UNCHANGED <<pdone, shutdown, snapshot, slots, dead, serverVars>>

\* A late success is terminated before its opening is over for shutdown.
Late(c) ==
  /\ call[c].pc = "late" /\ session[call[c].n].term = "done"
  /\ pending' = [pending EXCEPT ![call[c].target] = 0]
  /\ opening' = [opening EXCEPT ![call[c].n] = "closed"]
  /\ Return(c, "closed")
  /\ UNCHANGED <<pdone, shutdown, snapshot, sessions, session, slots, dead, serverVars>>
-----------------------------------------------------------------------------
(* webUDPClientSession *)

TermTo(n, step) == session' = [session EXCEPT ![n].term = step]
Started(n) == session[n].sender # "none"

\* terminate is called by the pumps, when the stream, the connection or the
\* context ends, by the sender's failure, by shutdown, and for a late success.
Over(n) ==
  \/ server[n].pc = "over" \/ session[n].wire \in dead \/ pdone
  \/ session[n].sender = "failed"
  \/ \E c \in Callers : call[c].pc = "late" /\ call[c].n = n
Terminate(n) ==
  /\ session[n].term = "no" /\ Over(n)
  /\ Started(n) \/ \E c \in Callers : call[c].pc = "late" /\ call[c].n = n
  /\ TermTo(n, "canceled")
  /\ UNCHANGED <<call, packetVars, opening, slots, dead, serverVars>>

\* removeSession, under p.mu.
Remove(n) ==
  /\ session[n].term = "canceled"
  /\ sessions' = [t \in Targets |-> IF sessions[t] = n THEN 0 ELSE sessions[t]]
  /\ TermTo(n, "removed")
  /\ UNCHANGED <<call, pdone, shutdown, snapshot, pending, opening, slots, dead, serverVars>>

Terminated(n) ==
  /\ session[n].term = "removed"
  /\ GivesBack
  /\ session' = [session EXCEPT ![n].term = "done", ![n].out = 0]
  /\ UNCHANGED <<call, packetVars, opening, dead, serverVars>>

Sender(n, to) == session' = [session EXCEPT ![n].sender = to]
sessionOnly == <<call, packetVars, opening, slots, serverVars>>

\* sendDatagrams: SendDatagram may not return while the connection lives.
Takes(n) ==
  /\ session[n].sender = "idle" /\ session[n].out > 0 /\ session[n].term = "no"
  /\ session' = [session EXCEPT ![n].sender = "sending", ![n].out = @ - 1]
  /\ UNCHANGED <<sessionOnly, dead>>
Sent(n) ==
  /\ session[n].sender = "sending"
  /\ Sender(n, "idle")
  /\ UNCHANGED <<sessionOnly, dead>>
SendFails(n) ==
  /\ session[n].sender = "sending" /\ session[n].wire \in dead
  /\ Sender(n, "failed")
  /\ UNCHANGED <<sessionOnly, dead>>

\* Its deferred terminate has returned before senderDone is closed; then the
\* pumps and watchDatagramSender have nothing left to wait for.
SenderDone(n) ==
  /\ session[n].sender \in {"idle", "failed"} /\ session[n].term = "done"
  /\ Sender(n, "joined")
  /\ UNCHANGED <<sessionOnly, dead>>

\* watchDatagramSender, after its grace period.
KillNever(n) == FALSE                \* mutant
Stuck(n) == session[n].term \notin {"no", "abandoned"} /\ session[n].sender = "sending"
Kill(n) ==
  /\ Stuck(n) /\ session[n].wire \notin dead
  /\ dead' = dead \cup {session[n].wire}
  /\ UNCHANGED <<sessionOnly, session>>
-----------------------------------------------------------------------------
(* shutdown, by Close or by the watcher of p.ctx *)

\* The client is closed: its context is p.ctx's parent.
ClientCloses ==
  /\ ~pdone /\ pdone' = TRUE
  /\ UNCHANGED <<call, shutdown, snapshot, sessions, pending, opening, session, slots, dead, serverVars>>

OwnedNone == {}                      \* mutant: openings are not listed
OwnedOpenings == {pending[t] : t \in Targets} \ {0}
CloseBegins ==
  /\ shutdown = "idle"
  /\ shutdown' = "sessions" /\ pdone' = TRUE
  /\ snapshot' = [sessions |-> {sessions[t] : t \in Targets} \ {0}, pending |-> OwnedOpenings]
  /\ UNCHANGED <<call, sessions, pending, opening, session, slots, dead, serverVars>>

IsJoined(n) == session[n].sender \in {"none", "joined"}
CloseGoesOn ==
  /\ \/ /\ shutdown = "sessions" /\ shutdown' = "pending"
        /\ \A n \in snapshot.sessions : IsJoined(n)
        /\ snapshot' = [snapshot EXCEPT !.sessions = {}]
     \/ /\ shutdown = "pending" /\ shutdown' = "workers"
        /\ \A n \in snapshot.pending : opening[n] # "open"
        /\ snapshot' = [snapshot EXCEPT !.pending = {}]
     \/ /\ shutdown = "workers" /\ shutdown' = "done"
        /\ (\A n \in Openings : IsJoined(n)) /\ UNCHANGED snapshot
  /\ UNCHANGED <<call, pdone, sessions, pending, opening, session, slots, dead, serverVars>>
-----------------------------------------------------------------------------
(* serveConnectUDP and webUDPServerSession *)

clientVars == <<call, packetVars, opening, session, slots>>
Handler(n, pc) == server' = [server EXCEPT ![n].pc = pc]

\* The request's context: the client's stream or its connection has ended.
Gone(n) == session[n].term \notin {"none", "no"} \/ session[n].wire \in dead

\* A signed answer without a session: 400 for a bad request, target or no
\* datagrams, 503 without a budget.
Admits(n) ==
  /\ server[n].pc = "request"
  /\ \/ leases < Leases /\ leases' = leases + 1 /\ Handler(n, "resolving")
     \/ UNCHANGED leases /\ Handler(n, "refused")
     \/ UNCHANGED leases /\ Handler(n, "rejected")
  /\ UNCHANGED <<clientVars, dead>>

\* Resolution or the socket fails, or takes too long: 502.
Refuses(n) ==
  /\ server[n].pc = "resolving"
  /\ leases' = leases - 1 /\ Handler(n, "refused")
  /\ UNCHANGED <<clientVars, dead>>

Answers(n) ==
  /\ server[n].pc = "resolving"
  /\ server' = [server EXCEPT ![n] = [pc |-> "running", sender |-> "idle"]]
  /\ UNCHANGED <<clientVars, dead, leases>>

\* sendHTTPDatagrams with a response of the target.
Responds(n) ==
  /\ server[n].pc = "running" /\ server[n].sender = "idle"
  /\ server' = [server EXCEPT ![n].sender = "sending"]
  /\ UNCHANGED <<clientVars, dead, leases>>
Responded(n) ==
  /\ server[n].sender = "sending"
  /\ server' = [server EXCEPT ![n].sender = "idle"]
  /\ UNCHANGED <<clientVars, dead, leases>>

\* The first pump to end cancels the session; run closes the socket and the
\* request direction.
Ends(n) == server[n].pc = "running" /\ Handler(n, "ending") /\ UNCHANGED <<clientVars, dead, leases>>
RequestEnds(n) == Gone(n) /\ Ends(n)

SenderEnds(n) ==
  /\ server[n].pc = "ending"
  /\ server[n].sender = "idle" \/ (server[n].sender = "sending" /\ session[n].wire \in dead)
  /\ server' = [server EXCEPT ![n].sender = "done"]
  /\ UNCHANGED <<clientVars, dead, leases>>

\* unblockDatagramSender, after its grace period.
ServerKills(n) ==
  /\ server[n].pc = "ending" /\ server[n].sender = "sending" /\ session[n].wire \notin dead
  /\ dead' = dead \cup {session[n].wire}
  /\ UNCHANGED <<clientVars, serverVars>>

Leaves(n) ==
  /\ server[n].pc = "ending" /\ server[n].sender = "done"
  /\ leases' = leases - 1 /\ Handler(n, "over")
  /\ UNCHANGED <<clientVars, dead>>

\* The network ends a connection; one without a stream is the pool's concern.
WireDies(w) ==
  /\ w \notin dead /\ \E n \in Openings : session[n].wire = w
  /\ dead' = dead \cup {w}
  /\ UNCHANGED <<clientVars, serverVars>>
-----------------------------------------------------------------------------
Calls(c) ==
  Look(c) \/ Await(c) \/ Reserve(c) \/ Request(c) \/ OpenFails(c) \/ Opened(c)
  \/ Settle(c) \/ Late(c) \/ Enqueue(c)
Works(n) ==
  Terminate(n) \/ Remove(n) \/ Terminated(n) \/ Takes(n) \/ SendFails(n)
  \/ SenderDone(n) \/ Kill(n)
Serves(n) ==
  Admits(n) \/ Refuses(n) \/ Answers(n) \/ RequestEnds(n) \/ SenderEnds(n)
  \/ ServerKills(n) \/ Leaves(n)

Next ==
  \/ \E c \in Callers : Calls(c) \/ \E t \in Targets : Send(c, t)
  \/ \E n \in Openings : Works(n) \/ Sent(n) \/ Serves(n) \/ Responds(n) \/ Responded(n) \/ Ends(n)
  \/ \E w \in Wires : WireDies(w)
  \/ ClientCloses \/ CloseBegins \/ CloseGoesOn

\* The client is closed, or the association ends by itself and closes its
\* packet connection (runSOCKSUDPAssociation).
Ending == pdone \/ \E c \in Callers : call[c].told

\* Openings, resolution and the grace periods have deadlines, goroutines run;
\* nothing is assumed of a datagram that is being sent.
Progress ==
  \/ \E c \in Callers : Calls(c)
  \/ \E n \in Openings : Works(n) \/ Serves(n)
  \/ (Ending /\ CloseBegins) \/ CloseGoesOn

Spec == Init /\ [][Next]_vars /\ WF_vars(Progress)
-----------------------------------------------------------------------------
(* Properties. *)

Opens(n) == \E c \in Callers : call[c].n = n /\ call[c].pc \in {"connect", "answer"}
Holds(n) == Opens(n) \/ session[n].term \in {"no", "canceled", "removed"}

\* Each slot is held by one opening or session and each lease by one handler,
\* every stream that was opened and not terminated is one that shutdown would
\* find, and a target has at most one (webUDPPacketConn.session, openSession).
EachOwned ==
  /\ slots = Cardinality({n \in Openings : Holds(n)}) /\ slots <= Slots
  /\ leases = Cardinality({n \in Openings : server[n].pc \in {"resolving", "running", "ending"}})
  /\ \A n \in Openings : Opens(n) \/ session[n].term = "no" =>
       \E t \in Targets : n \in {sessions[t], pending[t]}
  /\ \A t \in Targets : sessions[t] = 0 \/ pending[t] = 0

\* When Close returns there is no opening, stream, worker or slot left of the
\* packet connection (webUDPPacketConn.shutdown).
NoneAfterClose ==
  shutdown = "done" =>
    /\ slots = 0
    /\ \A n \in Openings : opening[n] # "open" /\ ~Holds(n) /\ IsJoined(n)
    /\ \A t \in Targets : sessions[t] = 0 /\ pending[t] = 0

\* Both together: whatever opens, fails, dies or is closed late, every opening and
\* session has an owner while it lasts and none outlives Close.
SessionsOwned == EachOwned /\ NoneAfterClose

\* A Send ends the whole association only if its packet connection is over, if
\* the QUIC connection of its own session is, or if its own opening ended in a
\* signed 400 or a failure that proves nothing.  A refused target, a limit, the
\* end of a target's stream after it was looked up, and a connection that other
\* sessions use never do (webUDPTargetSendError, closedSendError).
EndOfAll(c) ==
  \/ pdone
  \/ call[c].pc = "have" /\ session[call[c].n].wire \in dead
  \/ call[c].pc \in {"await", "settle"} /\ opening'[call[c].n] \in {"failed", "rejected"}
TargetFailuresStayLocal ==
  [][\A c \in Callers : call'[c].told /\ ~call[c].told => EndOfAll(c)]_vars

Settled ==
  /\ \A c \in Callers : call[c].pc = "idle"
  /\ Ending => shutdown = "done" /\ leases = 0
  /\ \A n \in Openings : session[n].term = "done" => server[n].pc = "over" /\ IsJoined(n)

\* Calls return, Close returns and the server's leases come back, also with a
\* datagram stuck at either end, because that end then closes the connection.
Settles == <>[]Settled
=============================================================================
