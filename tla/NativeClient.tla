----------------------------- MODULE NativeClient -----------------------------
(***************************************************************************)
(* The native client of internal/tunnel (Client in quic.go): one shared,   *)
(* lazily dialed QUIC connection, the circuit breaker that decides between *)
(* QUIC and the TLS fallback, and Close.                                   *)
(*                                                                         *)
(* Granularity.  One action is one critical section of c.mu, the return of *)
(* one blocking call, or a purely local decision.  A dial attempt and the  *)
(* connection it makes share a name, reused once nobody refers to it.      *)
(* primaryFailedAt is kept as what shouldTryPrimary reads from it: zero,   *)
(* cooldown running, or cooldown over.  Pacing rates and the TLS dialer's  *)
(* insides are left out; the path reported to observers and its events are *)
(* ClientEvents.  The client has a fallback (auto mode).                   *)
(***************************************************************************)
EXTENDS Integers, FiniteSets

CONSTANTS
  StreamCallers,   \* goroutines that call DialContext
  PacketCallers,   \* goroutines that call DialPacket (perhaps the same)
  Closers,         \* goroutines calling Close
  Dials,           \* names for dial attempts and their connections
  NoDial,          \* nil
  MaxCalls,        \* bound: calls started by all callers together
  MaxDeaths        \* bound: connections that fail on their own

ASSUME ClientAssumption ==
  /\ NoDial \notin Dials
  /\ MaxCalls \in Nat /\ MaxDeaths \in Nat

Callers == StreamCallers \cup PacketCallers

VARIABLES
  circuit,     \* primaryFailedAt: "closed" (zero), "cooling" or "elapsed"
  probeID,     \* c.primaryProbeID
  nextID,      \* c.nextPrimaryID
  healthGen,   \* c.primaryHealthGeneration
  conn,        \* c.conn
  dialing,     \* c.dialing
  dial,        \* the dial attempts, with their workers and connections
  closed,      \* c.closed
  canceled,    \* c.ctx.Err() # nil
  closeDone,   \* c.closeDone is closed
  closer,      \* where each goroutine in Close is
  closing,     \* the connection the first Close took from c.conn
  call,        \* the locals of each caller
  calls,       \* history: number of calls started
  deaths,      \* history: number of connections that failed
  outdated,    \* history: callers and dials that began before the last health
  probers      \* history: callers that began as probe since the last health

breakerVars == <<circuit, probeID, nextID, healthGen, outdated, probers>>
sharedVars == <<conn, dialing, dial>>
closeVars == <<closed, canceled, closeDone, closer, closing>>
countVars == <<calls, deaths>>
vars == <<breakerVars, sharedVars, closeVars, call, countVars>>

\* phase: where the worker is; gen, err: fields of quicDialAttempt; link: the
\* physical connection.
NewDial == [phase |-> "none", gen |-> 0, err |-> FALSE, link |-> "none"]

\* kind: DialContext or DialPacket; id, gen: nativePrimaryAttempt; tries: rounds of the loop begun; ctx: whether
\* the primary budget or the caller's own context is over; held: the result of
\* connection(); waits: the attempt it waits for.
Idle == [pc |-> "idle", kind |-> "stream", id |-> 0, gen |-> 0, tries |-> 0, ctx |-> "live",
         held |-> NoDial, waits |-> NoDial]

Init ==
  /\ circuit = "closed" /\ probeID = 0 /\ nextID = 0 /\ healthGen = 0
  /\ conn = NoDial /\ dialing = NoDial
  /\ dial = [d \in Dials |-> NewDial]
  /\ closed = FALSE /\ canceled = FALSE /\ closeDone = FALSE
  /\ closer = [k \in Closers |-> "idle"] /\ closing = NoDial
  /\ call = [c \in Callers |-> Idle]
  /\ calls = 0 /\ deaths = 0
  /\ outdated = [callers |-> {}, dials |-> {}] /\ probers = {}

Update(c, locals) == call' = [call EXCEPT ![c] = locals]
Goto(c, label) == Update(c, [call[c] EXCEPT !.pc = label])
TurnToTLS(c) == Update(c, [Idle EXCEPT !.pc = "tls"])
Return(c) == Update(c, Idle)
DialsStream(c) == call[c].kind = "stream"
UpdateDial(d, record) == dial' = [dial EXCEPT ![d] = record]
-----------------------------------------------------------------------------
(* The circuit breaker. *)

\* shouldTryPrimary refuses while the circuit is open: until the cooldown is
\* over, and then while another caller owns the half-open probe.
CircuitOpenNoProbe == circuit = "cooling"     \* mutant: everybody probes
CircuitOpen == circuit = "cooling" \/ (circuit = "elapsed" /\ probeID # 0)

\* A DialContext call begins: QUIC with a fresh attempt, or straight to TLS.
Start(c) ==
  /\ c \in StreamCallers /\ call[c].pc = "idle" /\ calls < MaxCalls
  /\ calls' = calls + 1
  /\ IF CircuitOpen
     THEN TurnToTLS(c) /\ UNCHANGED breakerVars
     ELSE /\ nextID' = nextID + 1
          /\ Update(c, [Idle EXCEPT !.pc = "loop",
                                    !.id = nextID + 1, !.gen = healthGen])
          /\ probeID' = IF circuit = "closed" THEN probeID ELSE nextID + 1
          /\ outdated' = [outdated EXCEPT !.callers = @ \ {c}]
          /\ probers' = IF circuit = "closed" THEN probers \ {c} ELSE probers \cup {c}
          /\ UNCHANGED <<circuit, healthGen>>
  /\ UNCHANGED <<sharedVars, closeVars, deaths>>

\* A DialPacket call begins; it does not ask the breaker.
StartPacket(c) ==
  /\ c \in PacketCallers /\ call[c].pc = "idle" /\ calls < MaxCalls
  /\ calls' = calls + 1
  /\ Update(c, [Idle EXCEPT !.pc = "loop", !.kind = "packet"])
  /\ UNCHANGED <<breakerVars, sharedVars, closeVars, deaths>>

\* primarySucceeded and primaryHealthy: authenticated evidence of health.
ResetCircuit ==
  /\ circuit' = "closed" /\ probeID' = 0 /\ healthGen' = healthGen + 1
  /\ outdated' = [callers |-> Callers, dials |-> Dials] /\ probers' = {}
  /\ UNCHANGED nextID

\* primaryProbeFinished: only the owner releases the probe.
ReleaseProbe(c) == probeID' = IF probeID = call[c].id THEN 0 ELSE probeID

\* primaryFailed: opens the circuit, unless health was proved meanwhile.
OpenAlways(c) == circuit' = "cooling"         \* mutant: generation not checked
OpenCircuit(c) ==
  circuit' = IF call[c].gen = healthGen THEN "cooling" ELSE circuit
PrimaryFailed(c) ==
  /\ OpenCircuit(c) /\ ReleaseProbe(c)
  /\ UNCHANGED <<nextID, healthGen, outdated, probers>>

\* The caller returns and releases its probe if it has one.
KeepsProbe(c) ==                              \* mutant: a probe is left behind
  Return(c) /\ UNCHANGED breakerVars
Leave(c) ==
  /\ Return(c) /\ ReleaseProbe(c)
  /\ UNCHANGED <<circuit, nextID, healthGen, outdated, probers>>

CooldownElapses ==
  /\ circuit = "cooling" /\ circuit' = "elapsed"
  /\ UNCHANGED <<probeID, nextID, healthGen, outdated, probers, sharedVars,
                 closeVars, call, countVars>>
-----------------------------------------------------------------------------
(* connection(): the shared connection and its dial. *)

\* The head of DialContext's retry loop; DialPacket does not look at its
\* context there.
Loop(c) ==
  /\ call[c].pc = "loop"
  /\ \/ /\ DialsStream(c) /\ call[c].ctx = "caller"
        /\ Leave(c)
     \/ /\ DialsStream(c) /\ call[c].ctx = "budget"
        /\ Goto(c, "after") /\ UNCHANGED breakerVars
     \/ /\ ~DialsStream(c) \/ call[c].ctx = "live"
        /\ Update(c, [call[c] EXCEPT !.pc = "conn", !.tries = @ + 1])
        /\ UNCHANGED breakerVars
  /\ UNCHANGED <<sharedVars, closeVars, countVars>>

\* connection() failed: a canceled caller leaves, the others fall back.
ConnectionFailed(c) ==
  IF call[c].ctx = "caller"
  THEN Leave(c)
  ELSE /\ Update(c, [call[c] EXCEPT !.pc = "after", !.waits = NoDial])
       /\ UNCHANGED breakerVars

Usable(d) == d \in Dials /\ dial[d].link = "live"
AlwaysDial == TRUE                            \* mutant: every caller dials
NoDialInFlight == dialing = NoDial

\* A name nobody refers to any more (StartDial blanks such names).
Unused(d) ==
  /\ dial[d].phase \in {"none", "done"} /\ dial[d].link # "live"
  /\ d \notin {conn, closing}
  /\ \A c \in Callers : d \notin {call[c].held, call[c].waits}

UseClosed(c) ==
  /\ call[c].pc = "conn" /\ closed
  /\ ConnectionFailed(c)
  /\ UNCHANGED <<sharedVars, closeVars, countVars>>

UseLive(c) ==
  /\ call[c].pc = "conn" /\ ~closed /\ Usable(conn)
  /\ Update(c, [call[c] EXCEPT !.pc = "open", !.held = conn])
  /\ UNCHANGED <<breakerVars, sharedVars, closeVars, countVars>>

\* No usable connection: join the dial in flight, or start the shared one.
JoinDial(c) ==
  /\ call[c].pc = "conn" /\ ~closed /\ ~Usable(conn) /\ ~NoDialInFlight
  /\ Update(c, [call[c] EXCEPT !.pc = "wait", !.waits = dialing])
  /\ UNCHANGED <<breakerVars, sharedVars, closeVars, countVars>>

StartDial(c) ==
  /\ call[c].pc = "conn" /\ ~closed /\ ~Usable(conn) /\ NoDialInFlight
  /\ \E d \in Dials :
       /\ Unused(d)
       /\ dialing' = d
       /\ dial' = [e \in Dials |->
                     IF e = d THEN [NewDial EXCEPT !.phase = "dialing",
                                                   !.gen = healthGen]
                     ELSE IF Unused(e) THEN NewDial ELSE dial[e]]
       /\ outdated' = [outdated EXCEPT !.dials = @ \ {d}]
       /\ Update(c, [call[c] EXCEPT !.pc = "wait", !.waits = d])
  /\ UNCHANGED <<circuit, probeID, nextID, healthGen, probers, conn,
                 closeVars, countVars>>

\* The select of connection(): the dial succeeded, the dial failed, or the
\* caller's or the client's context ended (any ready case may be taken).
DialAwaited(c) ==
  /\ call[c].pc = "wait"
  /\ dial[call[c].waits].phase = "done" /\ ~dial[call[c].waits].err
  /\ Update(c, [call[c] EXCEPT !.pc = "conn", !.waits = NoDial])
  /\ UNCHANGED <<breakerVars, sharedVars, closeVars, countVars>>

WaitFails(c) ==
  /\ call[c].pc = "wait"
  /\ \/ dial[call[c].waits].phase = "done" /\ dial[call[c].waits].err
     \/ call[c].ctx # "live"
     \/ canceled
  /\ ConnectionFailed(c)
  /\ UNCHANGED <<sharedVars, closeVars, countVars>>
-----------------------------------------------------------------------------
(* runQUICDial, the worker of one dial. *)

\* dialQUIC returns an error, a connection, or a connection no pacer can be
\* made for.  A canceled dial may still succeed late.
DialReturns(d) ==
  /\ dial[d].phase = "dialing"
  /\ \E result \in {"error", "connected", "no pacer"} :
       UpdateDial(d, [dial[d] EXCEPT
                        !.phase = "returned", !.err = result # "connected",
                        !.link = IF result = "error" THEN "none" ELSE "live"])
  /\ UNCHANGED <<breakerVars, conn, dialing, closeVars, call, countVars>>

\* First critical section: the result is accepted unless Close came first.
AcceptedEvenClosed(d) == ~dial[d].err         \* mutant
Accepted(d) == ~dial[d].err /\ ~closed
SettleDial(d) ==
  /\ dial[d].phase = "returned"
  /\ conn' = IF Accepted(d) THEN d ELSE conn
  /\ UpdateDial(d, [dial[d] EXCEPT !.phase =
                      IF Accepted(d) \/ dial[d].link = "none" THEN "publishing"
                                                              ELSE "rejecting"])
  /\ UNCHANGED <<breakerVars, dialing, closeVars, call, countVars>>

\* A rejected connection is closed outside the lock, before publication.
CloseRejected(d) ==
  /\ dial[d].phase = "rejecting"
  /\ UpdateDial(d, [dial[d] EXCEPT !.phase = "publishing", !.link = "closed"])
  /\ UNCHANGED <<breakerVars, conn, dialing, closeVars, call, countVars>>

\* Second critical section: a failure opens the circuit before any waiter
\* wakes, and leaves the probe to its owner.
DialOpensCircuit(d) ==
  dial[d].err /\ ~closed /\ ~canceled /\ dial[d].gen = healthGen
DialKept(d) == dialing' = dialing             \* mutant: a finished dial stays
ClearDial(d) == dialing' = IF dialing = d THEN NoDial ELSE dialing
PublishDial(d) ==
  /\ dial[d].phase = "publishing"
  /\ ClearDial(d)
  /\ circuit' = IF DialOpensCircuit(d) THEN "cooling" ELSE circuit
  /\ UpdateDial(d, [dial[d] EXCEPT !.phase = "done"])
  /\ UNCHANGED <<probeID, nextID, healthGen, outdated, probers, conn,
                 closeVars, call, countVars>>

DialWorker(d) ==
  DialReturns(d) \/ SettleDial(d) \/ CloseRejected(d) \/ PublishDial(d)
-----------------------------------------------------------------------------
(* The stream of one call, and the fallback. *)

StreamOpens(c) ==
  /\ call[c].pc = "open" /\ dial[call[c].held].link = "live"
  /\ Goto(c, "request")
  /\ UNCHANGED <<breakerVars, sharedVars, closeVars, countVars>>

\* Opening the stream or its handshake failed.  A canceled caller leaves; a
\* spent budget or a connection that still lives ends the QUIC phase; a dead
\* connection is dropped (invalidate) and the loop runs once more.
NeverSpares(c) == FALSE                       \* mutant: drops live connections
Spares(c) ==
  \/ DialsStream(c) /\ call[c].ctx = "budget"
  \/ dial[call[c].held].link = "live"
RetriesOnce(c) == call[c].tries < 2
Invalidate(d) ==
  /\ conn' = IF conn = d THEN NoDial ELSE conn
  /\ UpdateDial(d, [dial[d] EXCEPT !.link = "closed"])
StreamFails(c) ==
  /\ call[c].pc \in {"open", "request"}
  /\ \/ /\ call[c].ctx = "caller"
        /\ Leave(c) /\ UNCHANGED <<conn, dial>>
     \/ /\ call[c].ctx # "caller" /\ Spares(c)
        /\ Update(c, [call[c] EXCEPT !.pc = "after", !.held = NoDial])
        /\ UNCHANGED <<breakerVars, conn, dial>>
     \/ /\ call[c].ctx # "caller" /\ ~Spares(c)
        /\ Invalidate(call[c].held)
        /\ Update(c, [call[c] EXCEPT !.held = NoDial, !.pc =
                        IF RetriesOnce(c) THEN "loop" ELSE "after"])
        /\ UNCHANGED breakerVars
  /\ UNCHANGED <<dialing, closeVars, countVars>>

\* The relay accepted the request; acceptPacingResponse may still refuse it,
\* and does when the connection is no longer the client's.
Response(c) ==
  /\ call[c].pc = "request" /\ dial[call[c].held].link # "closed"
  /\ \/ conn = call[c].held /\ Goto(c, "succeed")
     \/ Update(c, [call[c] EXCEPT !.pc = "after", !.held = NoDial])
  /\ UNCHANGED <<breakerVars, sharedVars, closeVars, countVars>>

\* primarySucceeded.
Succeed(c) ==
  /\ call[c].pc = "succeed"
  /\ ResetCircuit /\ Return(c)
  /\ UNCHANGED <<sharedVars, closeVars, countVars>>

\* An authenticated refusal (RemoteError): the path is healthy.
Refused(c) ==
  /\ call[c].pc = "request" /\ dial[call[c].held].link # "closed"
  /\ ResetCircuit /\ Return(c)
  /\ UNCHANGED <<sharedVars, closeVars, countVars>>

\* Behind the loop: DialContext gives up, or turns to TLS; DialPacket returns.
After(c) ==
  /\ call[c].pc = "after"
  /\ IF ~DialsStream(c) \/ call[c].ctx = "caller"
     THEN Leave(c)
     ELSE PrimaryFailed(c) /\ TurnToTLS(c)
  /\ UNCHANGED <<sharedVars, closeVars, countVars>>

\* The TLS dial returns (recordFallback reports it, see ClientEvents).
TlsReturns(c) ==
  /\ call[c].pc = "tls"
  /\ Return(c)
  /\ UNCHANGED <<breakerVars, sharedVars, closeVars, countVars>>
-----------------------------------------------------------------------------
(* Close. *)

Close(k) ==
  /\ closer[k] = "idle"
  /\ IF closed
     THEN /\ closer' = [closer EXCEPT ![k] = "barrier"]
          /\ UNCHANGED <<closed, closing, conn>>
     ELSE /\ closer' = [closer EXCEPT ![k] = "cancel"]
          /\ closed' = TRUE /\ closing' = conn /\ conn' = NoDial
  /\ UNCHANGED <<breakerVars, dialing, dial, canceled, closeDone, call,
                 countVars>>

\* c.cancel, attempt.cancel, and the connection it took is closed.
CloseCancels(k) ==
  /\ closer[k] = "cancel"
  /\ canceled' = TRUE
  /\ dial' = IF closing = NoDial THEN dial
             ELSE [dial EXCEPT ![closing].link = "closed"]
  /\ closer' = [closer EXCEPT ![k] = "join"]
  /\ UNCHANGED <<breakerVars, conn, dialing, closed, closeDone, closing, call,
                 countVars>>

\* dialWorkers.Wait, then the barrier opens.
WorkersGone == \A d \in Dials : dial[d].phase \in {"none", "done"}
CloseJoins(k) ==
  /\ closer[k] = "join" /\ WorkersGone
  /\ closeDone' = TRUE
  /\ closer' = [closer EXCEPT ![k] = "returned"]
  /\ UNCHANGED <<breakerVars, sharedVars, closed, canceled, closing, call,
                 countVars>>

\* Another Close caller waits for closeDone.
BarrierStaysShut == FALSE                     \* mutant: closeDone never closed
BarrierOpen == closeDone
CloseAwaits(k) ==
  /\ closer[k] = "barrier" /\ BarrierOpen
  /\ closer' = [closer EXCEPT ![k] = "returned"]
  /\ UNCHANGED <<breakerVars, sharedVars, closed, canceled, closeDone, closing,
                 call, countVars>>

CloseStep(k) == CloseCancels(k) \/ CloseJoins(k) \/ CloseAwaits(k)
-----------------------------------------------------------------------------
(* The environment. *)

InPrimary(c) == call[c].pc \notin {"idle", "tls"}

CallerCancels(c) ==
  /\ InPrimary(c) /\ call[c].ctx # "caller"
  /\ Update(c, [call[c] EXCEPT !.ctx = "caller"])
  /\ UNCHANGED <<breakerVars, sharedVars, closeVars, countVars>>

\* primaryTimeout; a DialPacket call has only its caller's context.
BudgetExpires(c) ==
  /\ DialsStream(c) /\ InPrimary(c) /\ call[c].ctx = "live"
  /\ Update(c, [call[c] EXCEPT !.ctx = "budget"])
  /\ UNCHANGED <<breakerVars, sharedVars, closeVars, countVars>>

ConnectionDies(d) ==
  /\ dial[d].link = "live" /\ deaths < MaxDeaths
  /\ UpdateDial(d, [dial[d] EXCEPT !.link = "dead"])
  /\ deaths' = deaths + 1
  /\ UNCHANGED <<breakerVars, conn, dialing, closeVars, call, calls>>

CallStep(c) ==
  \/ Loop(c) \/ UseClosed(c) \/ UseLive(c) \/ JoinDial(c) \/ StartDial(c)
  \/ DialAwaited(c) \/ WaitFails(c) \/ StreamOpens(c) \/ StreamFails(c)
  \/ Response(c) \/ Succeed(c) \/ Refused(c) \/ After(c) \/ TlsReturns(c)

Next ==
  \/ \E c \in Callers : \/ Start(c) \/ StartPacket(c) \/ CallStep(c)
                        \/ CallerCancels(c) \/ BudgetExpires(c)
  \/ \E d \in Dials : DialWorker(d) \/ ConnectionDies(d)
  \/ \E k \in Closers : Close(k) \/ CloseStep(k)
  \/ CooldownElapses

Safety == Init /\ [][Next]_vars

(***************************************************************************)
(* Fairness.  Goroutines that can step do.  dialQUIC and the TLS dialer    *)
(* have timeouts of their own; the context of a QUIC phase ends by         *)
(* primaryTimeout, and stream calls return once it has ended or their      *)
(* connection is dead.  Nothing makes callers start or relays answer.      *)
(***************************************************************************)
StreamGivesUp(c) ==
  StreamFails(c) /\ (call[c].ctx # "live" \/ dial[call[c].held].link # "live")

LocalStep(c) ==
  \/ Loop(c) \/ UseClosed(c) \/ UseLive(c) \/ JoinDial(c) \/ StartDial(c)
  \/ DialAwaited(c) \/ WaitFails(c) \/ StreamGivesUp(c) \/ Succeed(c)
  \/ After(c) \/ TlsReturns(c)

Fairness ==
  /\ \A c \in Callers : WF_vars(LocalStep(c)) /\ WF_vars(BudgetExpires(c))
  /\ \A d \in Dials : WF_vars(DialWorker(d))
  /\ \A k \in Closers : WF_vars(CloseStep(k))

Spec == Safety /\ Fairness
-----------------------------------------------------------------------------
(* Properties. *)

Names == Dials \cup {NoDial}
Pcs == {"idle", "loop", "conn", "wait", "open", "request", "succeed", "after",
        "tls"}
Phases == {"none", "dialing", "returned", "rejecting", "publishing", "done"}
Links == {"none", "live", "dead", "closed"}
DialRecord == [phase : Phases, gen : Nat, err : BOOLEAN, link : Links]
CallRecord ==
  [pc : Pcs, kind : {"stream", "packet"}, id : Nat, gen : Nat, tries : 0..2,
   ctx : {"live", "budget", "caller"}, held : Names, waits : Names]

BreakerTypes ==
  /\ circuit \in {"closed", "cooling", "elapsed"}
  /\ probeID \in Nat /\ nextID \in Nat /\ healthGen \in Nat
  /\ outdated \in [callers : SUBSET Callers, dials : SUBSET Dials]
  /\ probers \in SUBSET Callers
DialTypes ==
  /\ conn \in Names /\ dialing \in Names
  /\ dial \in [Dials -> DialRecord]
CloseTypes ==
  /\ closed \in BOOLEAN /\ canceled \in BOOLEAN /\ closeDone \in BOOLEAN
  /\ closer \in [Closers -> {"idle", "cancel", "join", "barrier", "returned"}]
  /\ closing \in Names
CallTypes ==
  /\ call \in [Callers -> CallRecord]
  /\ calls \in Nat /\ deaths \in Nat

\* Types; in particular a call runs the retry loop at most twice.
TypeOK == BreakerTypes /\ DialTypes /\ CloseTypes /\ CallTypes

\* After the cooldown exactly one caller probes QUIC: two callers that began
\* as probes since QUIC was last seen healthy are never in their QUIC phase
\* together, whatever dials fail and calls are canceled meanwhile
\* (shouldTryPrimary's promise).
SingleProbe ==
  \A c, d \in {e \in probers : InPrimary(e) /\ DialsStream(e)} : c = d

\* The probe always has an owner that will release it: were it left behind by
\* an early return, QUIC would never be tried again.
ProbeOwned ==
  probeID # 0 => \E c \in Callers : InPrimary(c) /\ call[c].id = probeID

\* Both together: from the moment the cooldown ends until QUIC is healthy again
\* there is one probe and somebody who will release it (shouldTryPrimary).
ProbeExact == SingleProbe /\ ProbeOwned

\* A failure of a request or dial that began before the last authenticated
\* answer does not open the circuit ("not grounds to cool down a path proved
\* healthy after the request began").
HealthSupersedes ==
  [][/\ \A c \in outdated.callers :
          call[c].pc = "after" /\ call'[c].pc = "tls" => circuit' = circuit
     /\ \A d \in outdated.dials :
          dial[d].phase = "publishing" /\ dial'[d].phase = "done"
            => circuit' = circuit]_vars

Working(d) == dial[d].phase \notin {"none", "done"}

\* One physical dial at a time, and no live connection nobody will close: it
\* is the client's, still its dial worker's, or being closed by Close.
OneConnection ==
  /\ \A d, e \in Dials : Working(d) /\ Working(e) => d = e
  /\ \A d \in Dials :
       dial[d].link = "live" =>
         \/ conn = d \/ dial[d].phase \in {"returned", "rejecting"}
         \/ closing = d /\ ~canceled

\* A caller controls only its own stream: the client closes a live connection
\* only in Close, or before anyone has used it.
FlowsSurvive ==
  [][\A d \in Dials : dial[d].link = "live" /\ dial'[d].link = "closed"
                        => closed \/ dial[d].phase = "rejecting"]_vars

\* Whichever Close call returns, every dial worker has been joined and no
\* connection of the client lives; none appears later.
CloseBarrier ==
  (\E k \in Closers : closer[k] = "returned") =>
    /\ conn = NoDial
    /\ \A d \in Dials : ~Working(d) /\ dial[d].link # "live"

\* Every Close call returns.
CloseReturns ==
  \A k \in Closers : closer[k] # "idle" ~> closer[k] = "returned"

\* Every DialContext call returns, whoever dials for it and whatever dies.
DialContextReturns ==
  \A c \in StreamCallers :
    call[c].pc # "idle" /\ DialsStream(c) ~> call[c].pc = "idle"

\* Close and DialContext return although they wait for each other's dials, a
\* closing connection, and each other.
CallsReturn == CloseReturns /\ DialContextReturns
=============================================================================
