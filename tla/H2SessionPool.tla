------------------------------ MODULE H2SessionPool ------------------------------
(***************************************************************************)
(* The HTTP/2 session pool of the web client (WebH2Client): callers select *)
(* a physical connection through a one-place gate, one of them bootstraps  *)
(* its authentication, one worker at a time opens a new connection that    *)
(* the callers waiting for it share, a draining connection is left for a   *)
(* new one without disturbing its streams, and Close joins everything.     *)
(*                                                                         *)
(* A session is the number of the dial that opened it.  Abstracted: TLS    *)
(* and HTTP/2 (a connection takes requests, drains or is dead), the        *)
(* credentials (a proof verifies or not), and the reference counts opening *)
(* and active, which are the callers that hold them.                       *)
(***************************************************************************)
EXTENDS Integers, FiniteSets

CONSTANTS
  Callers,          \* calls of DialContext, each with its stream
  MaxDials,         \* bound: physical connections; the last ones do not change
  NoSession         \* nil

Dials == 1..MaxDials
Nobody == "nobody"

VARIABLES
  caller,      \* each call: its step, the cohort it joined, what it is on
  canceled,    \* the calls whose context is done
  gate,        \* who holds dialGate
  session,     \* each session: authentication state, wire, closed
  current,     \* c.current
  tracked,     \* c.sessions
  retired,     \* detached sessions some goroutine is about to close
  dial,        \* each dial: "none", "opening", "late", "done" or "error"
  dialing,     \* c.dial, 0 for nil
  cohort,      \* the attempt of each selection cohort, 0 for nil
  selection,   \* c.selection, 0 for nil
  closer,      \* Close: "idle", "closing", "waiting", "done"
  doomed       \* the sessions Close has taken out

poolVars == <<session, current, tracked, retired>>
dialVars == <<dial, dialing, cohort, selection>>
closeVars == <<closer, doomed>>
vars == <<caller, canceled, gate, poolVars, dialVars, closeVars>>

Closed == closer # "idle"
Stopped(c) == Closed \/ c \in canceled

\* The steps at which a call holds its session: opening, or active.
Opening == {"lead", "follow", "doom", "answered", "cleaning", "finish", "handed"}
Users(cs) == {caller[c].on : c \in {d \in cs : caller[d].pc \in Opening \cup {"open"}}}

Outside(pc) == [pc |-> pc, cohort |-> 0, on |-> 0, seen |-> "", again |-> FALSE]

\* A new client, or one that an earlier call has left with a ready connection.
Init ==
  /\ caller = [c \in Callers |-> Outside("idle")]
  /\ canceled = {}
  /\ gate = Nobody
  /\ current \in {NoSession, 1}
  /\ LET had == {s \in Dials : s = current} IN
     /\ session = [s \in Dials |-> IF s \in had
          THEN [auth |-> "ready", wire |-> "up", closed |-> FALSE]
          ELSE [auth |-> "none", wire |-> "none", closed |-> FALSE]]
     /\ tracked = had
     /\ dial = [d \in Dials |-> IF d \in had THEN "done" ELSE "none"]
     /\ cohort = [k \in 1..(MaxDials + 1) |-> IF k \in had THEN k ELSE 0]
  /\ retired = {}
  /\ dialing = 0
  /\ selection = 0
  /\ closer = "idle"
  /\ doomed = {}

Set(c, pc) == caller' = [caller EXCEPT ![c].pc = pc]
Return(c) == caller' = [caller EXCEPT ![c] = Outside("returned")]
-----------------------------------------------------------------------------
(* reserveSession *)

Start(c) ==
  /\ caller[c].pc = "idle"
  /\ Set(c, "enter")
  /\ UNCHANGED <<canceled, gate, poolVars, dialVars, closeVars>>

\* Joins the cohort of the next physical attempt before it queues at the gate.
\* NextCohort: a cohort is dropped only by the dial it was given.
NextCohort == CHOOSE k \in DOMAIN cohort :
  cohort[k] = 0 /\ \A j \in 1..(k - 1) : cohort[j] # 0
Enter(c) ==
  /\ caller[c].pc = "enter"
  /\ IF Stopped(c)
     THEN Return(c) /\ UNCHANGED selection
     ELSE LET k == IF selection = 0 THEN NextCohort ELSE selection IN
          /\ selection' = k
          /\ caller' = [caller EXCEPT ![c].pc = "gate", ![c].cohort = k]
  /\ UNCHANGED <<canceled, gate, poolVars, dial, dialing, cohort, closeVars>>

TakeGate(c) ==
  /\ caller[c].pc = "gate" /\ gate = Nobody
  /\ gate' = c
  /\ Set(c, "inside")
  /\ UNCHANGED <<canceled, poolVars, dialVars, closeVars>>

LeaveGate(c) ==
  /\ caller[c].pc = "gate" /\ Stopped(c)
  /\ Return(c)
  /\ UNCHANGED <<canceled, gate, poolVars, dialVars, closeVars>>

\* cleanupIdleSessionsLocked, when current is now, and users hold sessions.
IdleIfNoStream(s, now, users) ==     \* mutant: opening is not looked at
  s # now /\ \A c \in users : caller[c].pc = "open" => caller[c].on # s
Idle(s, now, users) == s # now /\ s \notin Users(users)
Sweep(now, users) ==
  LET idle == {s \in tracked : Idle(s, now, users)}
  IN tracked' = tracked \ idle /\ retired' = retired \cup idle

\* The dial part of reserveSession: current is no longer selected, the gate is
\* given back, and the call awaits the dial in flight or a new one.
NoDialInFlight == dialing = 0
Unstarted == {d \in Dials : dial[d] = "none"}
First(ds) == CHOOSE d \in ds : \A e \in ds : d <= e
JoinDial(c) ==
  /\ current' = NoSession
  /\ Sweep(NoSession, Callers)
  /\ NoDialInFlight => Unstarted # {}
  /\ LET d == IF NoDialInFlight THEN First(Unstarted) ELSE dialing IN
     /\ dial' = [dial EXCEPT ![d] = IF @ = "none" THEN "opening" ELSE @]
     /\ dialing' = d
     /\ cohort' = [cohort EXCEPT ![caller[c].cohort] = d]
     /\ caller' = [caller EXCEPT ![c] = [Outside("await") EXCEPT !.on = d, !.again = caller[c].again]]
  /\ gate' = Nobody
  /\ UNCHANGED <<session, selection>>

Leave(c, next) == gate' = Nobody /\ caller' = [caller EXCEPT ![c] = next]

\* The first look under the lock.
Inside(c) ==
  /\ caller[c].pc = "inside"
  /\ LET mine == cohort[caller[c].cohort]
         auth == IF current = NoSession THEN "none" ELSE session[current].auth
     IN IF Stopped(c)
        THEN Leave(c, Outside("returned")) /\ UNCHANGED <<poolVars, dialVars>>
        ELSE IF mine # 0
        THEN /\ Leave(c, [Outside("await") EXCEPT !.on = mine, !.again = caller[c].again])
             /\ UNCHANGED <<poolVars, dialVars>>
        ELSE IF auth \in {"fresh", "ready"}
        THEN /\ caller' = [caller EXCEPT ![c].pc = "inspect", ![c].on = current, ![c].seen = auth]
             /\ UNCHANGED <<gate, poolVars, dialVars>>
        ELSE IF auth = "bootstrapping"
        THEN /\ Leave(c, [Outside("joining") EXCEPT !.on = current, !.again = caller[c].again])
             /\ UNCHANGED <<poolVars, dialVars>>
        ELSE JoinDial(c)
  /\ UNCHANGED <<canceled, closeVars>>

\* Outside the lock: CanTakeNewRequest for a fresh connection, and for a ready
\* one webH2CanTakeRequest, which does not always see that it is draining.
Inspect(c) ==
  /\ caller[c].pc = "inspect"
  /\ LET s == session[caller[c].on] IN
     \/ s.wire = "up" /\ Set(c, "can take")
     \/ s.wire = "draining" /\ caller[c].seen = "ready" /\ Set(c, "can take")
     \/ s.wire # "up" /\ Set(c, "cannot take")
  /\ UNCHANGED <<canceled, gate, poolVars, dialVars, closeVars>>

\* Under the lock again: what was seen is checked before it is used.
SeenAnyway(c) == TRUE                \* mutant: what was seen is used unchecked
StillSeen(c) == current = caller[c].on /\ session[current].auth = caller[c].seen
ClaimForgotten(s) == UNCHANGED session   \* mutant
Claim(s) == session' = [session EXCEPT ![s].auth = "bootstrapping"]
Decide(c) ==
  /\ caller[c].pc \in {"can take", "cannot take"}
  /\ LET s == caller[c].on IN
     IF Stopped(c) \/ ~StillSeen(c)
     THEN /\ Leave(c, [Outside("enter") EXCEPT !.again = caller[c].again])
          /\ UNCHANGED <<poolVars, dialVars>>
     ELSE IF caller[c].pc = "cannot take"
     THEN JoinDial(c)
     ELSE /\ Leave(c, [Outside(IF caller[c].seen = "fresh" THEN "lead" ELSE "follow")
                         EXCEPT !.on = s, !.again = caller[c].again])
          /\ IF caller[c].seen = "fresh"
             THEN /\ Claim(s)
             ELSE UNCHANGED session
          /\ UNCHANGED <<current, tracked, retired, dialVars>>
  /\ UNCHANGED <<canceled, closeVars>>

Again(c) == caller' = [caller EXCEPT ![c] = [Outside("enter") EXCEPT !.again = caller[c].again]]

\* authReady is closed by success and by failure.
Joined(c) ==
  /\ caller[c].pc = "joining"
  /\ \/ session[caller[c].on].auth # "bootstrapping" /\ Again(c)
     \/ Stopped(c) /\ Return(c)
  /\ UNCHANGED <<canceled, gate, poolVars, dialVars, closeVars>>

\* waitSessionDial.
Awaited(c) ==
  /\ caller[c].pc = "await"
  /\ \/ dial[caller[c].on] = "done" /\ ~Stopped(c) /\ Again(c)
     \/ dial[caller[c].on] = "error" /\ Return(c)
     \/ Stopped(c) /\ Return(c)
  /\ UNCHANGED <<canceled, gate, poolVars, dialVars, closeVars>>
-----------------------------------------------------------------------------
(* runSessionDial *)

\* openSession has returned; what it opened is published unless the client is
\* closed, and its failure is published at once.
PublishKeepsCohort(d, result) ==     \* mutant: the cohort is not detached
  dial' = [dial EXCEPT ![d] = result] /\ dialing' = 0 /\ UNCHANGED selection
Publish(d, result) ==
  /\ dial' = [dial EXCEPT ![d] = result]
  /\ dialing' = 0
  /\ selection' = IF selection # 0 /\ cohort[selection] = d THEN 0 ELSE selection

AcceptsAlways == TRUE                \* mutant: closed is not looked at
Accepts == ~Closed
DialOpens(d) ==
  /\ dial[d] = "opening"
  /\ session' = [session EXCEPT ![d] = [auth |-> "fresh", wire |-> "up", closed |-> FALSE]]
  /\ IF Accepts
     THEN current' = d /\ tracked' = tracked \cup {d} /\ dial' = [dial EXCEPT ![d] = "opened"]
     ELSE UNCHANGED <<current, tracked>> /\ dial' = [dial EXCEPT ![d] = "late"]
  /\ UNCHANGED <<caller, canceled, gate, retired, dialing, cohort, selection, closeVars>>

DialFails(d) ==
  /\ dial[d] = "opening"
  /\ Publish(d, "error")
  /\ UNCHANGED <<caller, canceled, gate, poolVars, cohort, closeVars>>

DialPublishes(d) ==
  /\ dial[d] = "opened"
  /\ Publish(d, "done")
  /\ UNCHANGED <<caller, canceled, gate, poolVars, cohort, closeVars>>

\* A late result is closed before the attempt is published and joined.
DialLate(d) ==
  /\ dial[d] = "late"
  /\ session' = [session EXCEPT ![d].closed = TRUE]
  /\ Publish(d, "error")
  /\ UNCHANGED <<caller, canceled, gate, current, tracked, retired, cohort, closeVars>>
-----------------------------------------------------------------------------
(* dialStreamOnce after the reservation *)

streamOnly == <<canceled, gate, dialVars, closeVars>>

\* failSessionAuthentication, under its lock; "doom" then closes the session.
FailSession(c) ==
  LET s == caller[c].on IN
  /\ session' = [session EXCEPT ![s].auth = "failed"]
  /\ current' = IF current = s THEN NoSession ELSE current
  /\ tracked' = tracked \ {s}
  /\ Set(c, "doom")
  /\ UNCHANGED retired

\* The bootstrap request: no credential, no answer, or no valid proof in it.
LeadFails(c) ==
  /\ caller[c].pc = "lead"
  /\ FailSession(c)
  /\ UNCHANGED streamOnly

\* completeSessionBootstrap.
Completes(s) == ~Closed /\ current = s /\ session[s].auth = "bootstrapping"
LeadAnswered(c) ==
  /\ caller[c].pc = "lead" /\ session[caller[c].on].wire # "dead" /\ ~session[caller[c].on].closed
  /\ LET s == caller[c].on IN
     IF Completes(s)
     THEN /\ session' = [session EXCEPT ![s].auth = "ready"]
          /\ Set(c, "answered")
          /\ UNCHANGED <<current, tracked, retired>>
     ELSE FailSession(c)
  /\ UNCHANGED streamOnly

Doom(c) ==
  /\ caller[c].pc = "doom"
  /\ session' = [session EXCEPT ![caller[c].on].closed = TRUE]
  /\ Set(c, "finish")
  /\ UNCHANGED <<current, tracked, retired, streamOnly>>

FollowAnswered(c) ==
  /\ caller[c].pc = "follow" /\ session[caller[c].on].wire # "dead" /\ ~session[caller[c].on].closed
  /\ Set(c, "answered")
  /\ UNCHANGED <<poolVars, streamOnly>>

FollowMisproved(c) ==
  /\ caller[c].pc = "follow" /\ session[caller[c].on].wire # "dead" /\ ~session[caller[c].on].closed
  /\ FailSession(c)
  /\ UNCHANGED streamOnly

Deselect(c, unusable) ==
  LET now == IF unusable /\ current = caller[c].on THEN NoSession ELSE current
  IN current' = now /\ Sweep(now, Callers)

\* RoundTrip refused a request it had not begun to encode: this session is not
\* selected again, its streams go on, and the call reselects once.
FollowUnsent(c) ==
  /\ caller[c].pc = "follow" /\ ~Stopped(c) /\ session[caller[c].on].wire # "up"
  /\ Deselect(c, TRUE)
  /\ caller' = [caller EXCEPT ![c].pc = "finish",
                              ![c].seen = IF caller[c].again THEN "" ELSE "unsent"]
  /\ UNCHANGED <<session, streamOnly>>

\* Any other failure, or the establishment budget: noteSessionFailure.
FollowFails(c) ==
  /\ caller[c].pc = "follow"
  /\ Deselect(c, session[caller[c].on].wire # "up")
  /\ Set(c, "finish")
  /\ UNCHANGED <<session, streamOnly>>

\* A refusal by status, or the establishment budget: failResponse hands the
\* reservation to a goroutine that closes the body.
Refused(c) ==
  /\ caller[c].pc = "answered"
  /\ Set(c, "cleaning")
  /\ UNCHANGED <<poolVars, streamOnly>>

Handoff(c) ==
  /\ caller[c].pc = "answered"
  /\ Set(c, IF Stopped(c) THEN "cleaning" ELSE "handed")
  /\ UNCHANGED <<poolVars, streamOnly>>

\* finish: complete, opening--, and the sweep.
Finish(c) ==
  /\ caller[c].pc \in {"finish", "handed", "cleaning"}
  /\ caller' = [caller EXCEPT ![c] =
       IF caller[c].pc = "handed" THEN [Outside("open") EXCEPT !.on = caller[c].on]
       ELSE IF caller[c].seen = "unsent" THEN [Outside("enter") EXCEPT !.again = TRUE]
       ELSE Outside("returned")]
  /\ Sweep(current, IF caller[c].pc = "handed" THEN Callers ELSE Callers \ {c})
  /\ UNCHANGED <<session, current, streamOnly>>

\* The body of a failed response may stay in the connection's write lock for
\* as long as the peer does not read; only closing the connection ends that.
Stuck(c) == caller[c].pc = "cleaning" /\ ~session[caller[c].on].closed

CloseStream(c) ==
  /\ caller[c].pc = "open"
  /\ Return(c)
  /\ Sweep(current, Callers \ {c})
  /\ UNCHANGED <<session, current, streamOnly>>

CloseRetired(s) ==
  /\ s \in retired
  /\ session' = [session EXCEPT ![s].closed = TRUE]
  /\ retired' = retired \ {s}
  /\ UNCHANGED <<caller, current, tracked, streamOnly>>
-----------------------------------------------------------------------------
(* The environment, and Close *)

Cancel(c) ==
  /\ c \notin canceled /\ caller[c].pc \notin {"idle", "returned", "open"}
  /\ canceled' = canceled \cup {c}
  /\ UNCHANGED <<caller, gate, poolVars, dialVars, closeVars>>

WireChanges(s) ==
  /\ s <= MaxDials - Cardinality(Callers) /\ session[s].wire \in {"up", "draining"} /\ dial[s] \in {"opened", "done"}
  /\ \E w \in {"draining", "dead"} :
       w # session[s].wire /\ session' = [session EXCEPT ![s].wire = w]
  /\ UNCHANGED <<caller, current, tracked, retired, streamOnly>>

CloseBegins ==
  /\ closer = "idle"
  /\ closer' = "closing"
  /\ doomed' = tracked
  /\ current' = NoSession
  /\ tracked' = {}
  /\ UNCHANGED <<caller, canceled, gate, session, retired, dialVars>>

CloseSessions ==
  /\ closer = "closing"
  /\ closer' = "waiting"
  /\ session' = [s \in Dials |-> IF s \in doomed THEN [session[s] EXCEPT !.closed = TRUE] ELSE session[s]]
  /\ UNCHANGED <<caller, canceled, gate, current, tracked, retired, dialVars, doomed>>

\* workers.Wait: dials, reservations and detached sessions.
WorkersDone ==
  /\ \A d \in Dials : dial[d] \notin {"opening", "opened", "late"}
  /\ \A c \in Callers : caller[c].pc \notin Opening
  /\ retired = {}
CloseReturns ==
  /\ closer = "waiting" /\ WorkersDone
  /\ closer' = "done"
  /\ UNCHANGED <<caller, canceled, gate, poolVars, dialVars, doomed>>
-----------------------------------------------------------------------------
Worker(d) == DialOpens(d) \/ DialFails(d) \/ DialPublishes(d) \/ DialLate(d) \/ CloseRetired(d)

Call(c) ==
  \/ Enter(c) \/ TakeGate(c) \/ LeaveGate(c) \/ Inside(c) \/ Inspect(c) \/ Decide(c)
  \/ Joined(c) \/ Awaited(c)
  \/ LeadFails(c) \/ LeadAnswered(c) \/ Doom(c)
  \/ FollowAnswered(c) \/ FollowMisproved(c) \/ FollowUnsent(c) \/ FollowFails(c)
  \/ Refused(c) \/ Handoff(c)

Next ==
  \/ \E c \in Callers : Start(c) \/ Call(c) \/ Finish(c) \/ CloseStream(c) \/ Cancel(c)
  \/ \E d \in Dials : Worker(d) \/ WireChanges(d)
  \/ CloseBegins \/ CloseSessions \/ CloseReturns

\* Every wait of the code has a deadline or a goroutine of its own, but for a
\* body stuck behind the peer.
Progress ==
  \/ \E c \in Callers : Call(c) \/ (~Stuck(c) /\ Finish(c))
  \/ \E d \in Dials : Worker(d)
  \/ CloseSessions \/ CloseReturns

Spec == Init /\ [][Next]_vars /\ WF_vars(Progress)
-----------------------------------------------------------------------------
(* Properties. *)

Pool == INSTANCE AuthenticatedPool WITH
  Sessions <- Dials,
  auth <- [s \in Dials |-> session[s].auth],
  users <- [s \in Dials |->
    {c \in Callers : caller[c].pc \in Opening \cup {"open"} /\ caller[c].on = s}],
  open <- {s \in Dials : session[s].wire # "none" /\ ~session[s].closed},
  lost <- {},
  shut <- Closed

\* One full credential per physical connection, no ticket before it is
\* established, and no connection closed under a call or a returned stream unless
\* its authentication failed or the client is closed: retirement, a sibling's
\* failure and a sweep all wait for the last user.
ImplementsPool == Pool!Spec

\* One physical connection is being opened at a time, and an open connection
\* always has an owner who will close it: the pool, its dial, a sweeper, Close,
\* or the call that found its authentication broken.  Once Close has returned
\* none is open and no call is still opening a stream.
OwnedBy(s) ==
  \/ s \in tracked /\ ~Closed
  \/ s \in retired \/ dial[s] = "late"
  \/ closer = "closing" /\ s \in doomed
  \/ \E c \in Callers : caller[c].pc = "doom" /\ caller[c].on = s
EveryConnectionOwned ==
  /\ Cardinality({d \in Dials : dial[d] \in {"opening", "opened", "late"}}) <= 1
  /\ \A s \in Dials : session[s].wire # "none" /\ ~session[s].closed => OwnedBy(s)
  /\ closer = "done" => \A c \in Callers : caller[c].pc \notin Opening

Settled ==
  /\ \A c \in Callers : caller[c].pc \in {"idle", "open", "returned"} \/ Stuck(c)
  /\ \A s \in tracked : s = current \/ s \in Users(Callers)
  /\ Closed => closer = "done" /\ \A s \in Dials : session[s].wire # "none" => session[s].closed

\* Every call returns, whoever leads, fails or is canceled; what nobody uses is
\* closed; and Close returns with every connection closed, also when a body is
\* stuck behind a peer that does not read.
Settles == <>[]Settled
=============================================================================
