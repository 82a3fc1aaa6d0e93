------------------------------- MODULE WebClient -------------------------------
(***************************************************************************)
(* The web-cover client of internal/tunnel (WebClient in web_client.go):   *)
(* HTTP/3 first, HTTP/2 as fallback, and the circuit breaker between them. *)
(* It differs from the native client's: attempts are ordered by their      *)
(* numbers, the verdict of a newer attempt overrides an older one's, and   *)
(* CONNECT-UDP sessions report health out of band.                         *)
(*                                                                         *)
(* Granularity.  One action is one critical section of c.mu, the return of *)
(* one blocking call, or a purely local decision.  primaryFailedAt is kept *)
(* as what shouldTryPrimary reads from it (see NativeClient); the two path *)
(* dialers are external and return a connection, an authenticated refusal  *)
(* (WebConnectError) or another error.  selectedTransport, the path        *)
(* reported to observers, is left out.                                     *)
(***************************************************************************)
EXTENDS Integers, FiniteSets

CONSTANTS
  Callers,         \* goroutines calling DialContext, one call after another
  PacketCallers,   \* goroutines calling DialPacket, once each
  MaxCalls,        \* bound: DialContext calls in one behaviour
  MaxReports       \* bound: CONNECT-UDP responses in one behaviour

VARIABLES
  circuit,       \* primaryFailedAt: "closed" (zero), "cooling" or "elapsed"
  probeID,       \* c.primaryProbeID
  nextID,        \* c.nextPrimaryID
  stateID,       \* c.primaryStateID
  closed,        \* c.closed; c.ctx is canceled with it
  call,          \* the locals of each DialContext caller
  packet,        \* where each DialPacket caller is
  calls,         \* history: DialContext calls begun
  reports,       \* history: CONNECT-UDP responses seen
  verdicts,      \* history: what the attempts reported, by number
  probers,       \* history: callers that began as probe since the last
                 \*   out-of-band report
  handed         \* history: connections returned to callers

breakerVars == <<circuit, probeID, nextID, stateID, verdicts, probers>>
vars == <<breakerVars, closed, call, packet, calls, reports, handed>>

Idle == [pc |-> "idle", id |-> 0, ctx |-> "live", refused |-> FALSE]

Init ==
  /\ circuit = "closed" /\ probeID = 0 /\ nextID = 0 /\ stateID = 0
  /\ closed = FALSE
  /\ call = [c \in Callers |-> Idle]
  /\ packet = [p \in PacketCallers |-> "idle"]
  /\ calls = 0 /\ reports = 0
  /\ verdicts = {} /\ probers = {} /\ handed = 0

Goto(c, label) == call' = [call EXCEPT ![c].pc = label]
Return(c) == call' = [call EXCEPT ![c] = Idle]
-----------------------------------------------------------------------------
(* The circuit breaker. *)

\* shouldTryPrimary: an open circuit lets one probe through per cooldown.
CircuitOpenNoProbe == circuit = "cooling"      \* mutant: everybody probes
CircuitOpen == circuit = "cooling" \/ (circuit = "elapsed" /\ probeID # 0)

Start(c) ==
  /\ call[c].pc = "idle" /\ ~closed /\ calls < MaxCalls
  /\ calls' = calls + 1
  /\ IF CircuitOpen
     THEN Goto(c, "fallback") /\ UNCHANGED breakerVars
     ELSE /\ nextID' = nextID + 1
          /\ call' = [call EXCEPT ![c] = [Idle EXCEPT !.pc = "primary",
                                                      !.id = nextID + 1]]
          /\ probeID' = IF circuit = "closed" THEN probeID ELSE nextID + 1
          /\ probers' = IF circuit = "closed" THEN probers \ {c}
                                              ELSE probers \cup {c}
          /\ UNCHANGED <<circuit, stateID, verdicts>>
  /\ UNCHANGED <<closed, packet, reports, handed>>

ReleaseProbe(id) == probeID' = IF probeID = id THEN 0 ELSE probeID

\* A verdict counts unless a newer attempt has reported already.
CountsAlways(id) == TRUE                       \* mutant: the last report wins
Counts(id) == id >= stateID
Judge(c, healthy) ==
  LET id == call[c].id IN
  /\ IF Counts(id)
     THEN stateID' = id /\ circuit' = IF healthy THEN "closed" ELSE "cooling"
     ELSE UNCHANGED <<stateID, circuit>>
  /\ ReleaseProbe(id)
  /\ verdicts' = verdicts \cup {[id |-> id, healthy |-> healthy]}
  /\ UNCHANGED <<nextID, probers>>

CooldownElapses ==
  /\ circuit = "cooling" /\ circuit' = "elapsed"
  /\ UNCHANGED <<probeID, nextID, stateID, verdicts, probers, closed,
                 call, packet, calls, reports, handed>>
-----------------------------------------------------------------------------
(* The HTTP/3 attempt of one call. *)

\* dialPath: the dialer returns.
PrimaryReturns(c) ==
  /\ call[c].pc = "primary"
  /\ \/ Goto(c, "got")
     \/ \E refused \in BOOLEAN :
          call' = [call EXCEPT ![c].pc = "failed", ![c].refused = refused]
  /\ UNCHANGED <<breakerVars, closed, packet, calls, reports, handed>>

\* dialPath: a connection that comes after the caller, the attempt's budget or
\* the client is gone is closed and counts as an error.
PrimaryChecked(c) ==
  /\ call[c].pc = "got"
  /\ \/ Goto(c, "failed")                      \* primaryAttemptTimeout is over
     \/ call[c].ctx = "live" /\ ~closed /\ Goto(c, "success")
  /\ UNCHANGED <<breakerVars, closed, packet, calls, reports, handed>>

\* recordPrimarySuccess; a closed client closes the connection instead.
HandsOverAlways == TRUE                        \* mutant: closed not checked
HandsOver == ~closed
RecordPrimarySuccess(c) ==
  /\ call[c].pc = "success"
  /\ IF HandsOver
     THEN Judge(c, TRUE) /\ handed' = handed + 1
     ELSE UNCHANGED <<breakerVars, handed>>
  /\ Return(c)
  /\ UNCHANGED <<closed, packet, calls, reports>>

\* An error: a canceled caller and a closed client end the call without a
\* verdict (primaryAttemptFinished), a refusal proves health, the rest fails.
PrimaryFailed(c) ==
  /\ call[c].pc = "failed"
  /\ Goto(c, IF call[c].ctx # "live" \/ closed THEN "finished"
             ELSE IF call[c].refused THEN "healthy" ELSE "unhealthy")
  /\ UNCHANGED <<breakerVars, closed, packet, calls, reports, handed>>

KeepsProbe(c) ==                               \* mutant: a probe is left behind
  /\ call[c].pc = "finished" /\ Return(c)
  /\ UNCHANGED <<breakerVars, closed, packet, calls, reports, handed>>
PrimaryAttemptFinished(c) ==
  /\ call[c].pc = "finished"
  /\ ReleaseProbe(call[c].id) /\ Return(c)
  /\ UNCHANGED <<circuit, nextID, stateID, verdicts, probers, closed,
                 packet, calls, reports, handed>>

RecordPrimaryHealthy(c) ==
  /\ call[c].pc = "healthy"
  /\ IF closed THEN UNCHANGED breakerVars ELSE Judge(c, TRUE)
  /\ Return(c)
  /\ UNCHANGED <<closed, packet, calls, reports, handed>>

RecordPrimaryFailure(c) ==
  /\ call[c].pc = "unhealthy"
  /\ IF closed
     THEN /\ ReleaseProbe(call[c].id) /\ Return(c)
          /\ UNCHANGED <<circuit, nextID, stateID, verdicts, probers>>
     ELSE Judge(c, FALSE) /\ Goto(c, "fallback")
  /\ UNCHANGED <<closed, packet, calls, reports, handed>>
-----------------------------------------------------------------------------
(* The HTTP/2 fallback of one call. *)

\* dialFallback with dialPath: late connections are closed as above.
FallbackReturns(c) ==
  /\ call[c].pc = "fallback"
  /\ Goto(c, "got h2") \/ Return(c)
  /\ UNCHANGED <<breakerVars, closed, packet, calls, reports, handed>>

FallbackChecked(c) ==
  /\ call[c].pc = "got h2"
  /\ IF call[c].ctx # "live" \/ closed THEN Return(c) ELSE Goto(c, "success h2")
  /\ UNCHANGED <<breakerVars, closed, packet, calls, reports, handed>>

RecordFallbackSuccess(c) ==
  /\ call[c].pc = "success h2"
  /\ handed' = IF HandsOver THEN handed + 1 ELSE handed
  /\ Return(c)
  /\ UNCHANGED <<breakerVars, closed, packet, calls, reports>>
-----------------------------------------------------------------------------
(* CONNECT-UDP. *)

\* DialPacket: the client is open before and after the session is dialed.
DialPacket(p) ==
  /\ packet[p] = "idle" /\ ~closed
  /\ packet' = [packet EXCEPT ![p] = "dialing"]
  /\ UNCHANGED <<breakerVars, closed, call, calls, reports, handed>>

DialPacketReturns(p) ==
  /\ packet[p] = "dialing"
  /\ \/ packet' = [packet EXCEPT ![p] = "done"]
     \/ ~closed /\ packet' = [packet EXCEPT ![p] = "open"]
  /\ UNCHANGED <<breakerVars, closed, call, calls, reports, handed>>

\* recordOutOfBandPrimaryHealthy: an authenticated CONNECT-UDP response, which
\* accepts or refuses its target, gets a fresh attempt number.
FreshNumber == nextID + 1
RecordOutOfBandPrimaryHealthy(p) ==
  /\ packet[p] = "open" /\ reports < MaxReports /\ ~closed
  /\ reports' = reports + 1
  /\ nextID' = FreshNumber /\ stateID' = FreshNumber
  /\ circuit' = "closed" /\ probeID' = 0
  /\ verdicts' = verdicts \cup {[id |-> nextID + 1, healthy |-> TRUE]}
  /\ probers' = {}
  /\ UNCHANGED <<closed, call, packet, calls, handed>>
-----------------------------------------------------------------------------
CallerCancels(c) ==
  /\ call[c].pc # "idle" /\ call[c].ctx = "live"
  /\ call' = [call EXCEPT ![c].ctx = "canceled"]
  /\ UNCHANGED <<breakerVars, closed, packet, calls, reports, handed>>

\* Close, whose first caller also closes the two path dialers.
Close ==
  /\ ~closed
  /\ closed' = TRUE /\ probeID' = 0
  /\ UNCHANGED <<circuit, nextID, stateID, verdicts, probers, call,
                 packet, calls, reports, handed>>

CallStep(c) ==
  \/ PrimaryReturns(c) \/ PrimaryChecked(c) \/ RecordPrimarySuccess(c)
  \/ PrimaryFailed(c) \/ PrimaryAttemptFinished(c) \/ RecordPrimaryHealthy(c)
  \/ RecordPrimaryFailure(c) \/ FallbackReturns(c) \/ FallbackChecked(c)
  \/ RecordFallbackSuccess(c)

Next ==
  \/ \E c \in Callers : Start(c) \/ CallStep(c) \/ CallerCancels(c)
  \/ \E p \in PacketCallers : \/ DialPacket(p) \/ DialPacketReturns(p)
                              \/ RecordOutOfBandPrimaryHealthy(p)
  \/ CooldownElapses
  \/ Close

Safety == Init /\ [][Next]_vars

(***************************************************************************)
(* Fairness.  Goroutines that can step do; the HTTP/3 dial is bounded by   *)
(* primaryAttemptTimeout and the HTTP/2 dial by the dialer's own timeout.  *)
(* Calls are bounded, so one condition for all callers is enough.          *)
(***************************************************************************)
Progress == \E c \in Callers : CallStep(c)
Spec == Safety /\ WF_vars(Progress)
-----------------------------------------------------------------------------
(* Properties. *)

InPrimary(c) ==
  call[c].pc \in {"primary", "got", "success", "failed", "finished", "healthy",
                  "unhealthy"}

TypeOK ==
  /\ circuit \in {"closed", "cooling", "elapsed"}
  /\ probeID \in Nat /\ nextID \in Nat /\ stateID \in 0..nextID
  /\ closed \in BOOLEAN
  /\ call \in [Callers ->
                 [pc : {"idle", "primary", "got", "success", "failed",
                        "finished", "healthy", "unhealthy", "fallback",
                        "got h2", "success h2"},
                  id : Nat, ctx : {"live", "canceled"}, refused : BOOLEAN]]
  /\ packet \in [PacketCallers -> {"idle", "dialing", "open", "done"}]
  /\ verdicts \in SUBSET [id : 1..nextID, healthy : BOOLEAN]
  /\ probers \in SUBSET Callers

\* A burst of calls after the cooldown sends one probe: two callers that began
\* as probes are in their HTTP/3 phase together only if a CONNECT-UDP response
\* proved the path healthy in between, whatever older attempts report.
SingleProbe ==
  \A c, d \in probers : InPrimary(c) /\ InPrimary(d) => c = d

\* The circuit shows the verdict of the newest attempt that reported one, in
\* whatever order the reports came: "a slow failure from an older concurrent
\* attempt must not reopen a path already proved healthy by a newer attempt",
\* and an older success does not hide a newer failure.
NewestVerdict ==
  LET newest == CHOOSE v \in verdicts : \A w \in verdicts : w.id <= v.id
  IN  circuit = "closed" <=> (verdicts = {} \/ newest.healthy)

\* No DialContext call hands out a connection once Close has begun, although
\* dials that succeed late reach every one of its steps.
NothingAfterClose == [][closed => handed' = handed]_vars

\* A probe is always given up, so that HTTP/3 is tried again.
ProbeReleased == []<>(probeID = 0)
=============================================================================
