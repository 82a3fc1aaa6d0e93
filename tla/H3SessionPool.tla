------------------------------ MODULE H3SessionPool ------------------------------
(***************************************************************************)
(* The HTTP/3 session pool of the web client (WebH3Client): one dial at a  *)
(* time races the addresses of the relay, each with a UDP socket of its    *)
(* own; the winner is published to all waiting callers; one of them        *)
(* bootstraps; a retired connection lives on until its last user has gone; *)
(* a watcher per connection cleans up after it; Close joins dials and      *)
(* watchers.                                                               *)
(*                                                                         *)
(* A session is the number of the dial that opened it.  Abstracted: QUIC   *)
(* and HTTP/3, and the credentials (a proof verifies or not).              *)
(***************************************************************************)
EXTENDS Integers, FiniteSets

CONSTANTS
  Callers,          \* calls of DialContext, each with its stream
  MaxDials,         \* bound: physical connections; the network ends only the first ones
  Addresses,        \* 1..n, n >= 1: the relay's addresses, in interleaved order
  NoSession         \* nil

Dials == 1..MaxDials

VARIABLES
  caller,      \* each call: its step, what it is on, whether its context is done
  racer,       \* each address of each dial: the goroutine that dials it
  winner,      \* of each race, 0 for none
  sockets,     \* the open UDP sockets, <<dial, address>>, a connection's own <<dial, 0>>
  dial,        \* each dial: "none", "racing", "opened", "late", "done", "error"
  dialing,     \* c.dial, 0 for nil
  session,     \* each session: authentication state, retired
  dead,        \* each connection's context: "no", "peer" or "local"
  current,     \* c.conn
  conns,       \* c.conns
  watcher,     \* each session's watcher: "none", "watching", "closing", "done"
  closer,      \* Close: "idle", "closing", "waiting", "done"
  doomed       \* the sessions Close has taken out

raceVars == <<racer, winner>>
dialVars == <<raceVars, dial, dialing>>
poolVars == <<session, dead, current, conns>>
closeVars == <<closer, doomed>>
rest == <<sockets, watcher, closeVars>>
vars == <<caller, dialVars, poolVars, rest>>

Closed == closer # "idle"
Stopped(c) == Closed \/ caller[c].canceled
Holding == {"lead", "follow", "doom", "answered", "release", "open"}
Users(s) == {c \in Callers : caller[c].pc \in Holding /\ caller[c].on = s}


\* A new client, or one that an earlier call has left with a ready connection.
Init ==
  /\ caller = [c \in Callers |-> [pc |-> "idle", on |-> 0, canceled |-> FALSE]]
  /\ current \in {NoSession, 1}
  /\ LET had == {s \in Dials : s = current} IN
     /\ racer = [d \in Dials, a \in Addresses |-> IF d \in had THEN "taken" ELSE "none"]
     /\ winner = [d \in Dials |-> 0]
     /\ sockets = had \X {0}
     /\ dial = [d \in Dials |-> IF d \in had THEN "done" ELSE "none"]
     /\ session = [s \in Dials |-> [auth |-> IF s \in had THEN "ready" ELSE "none", retired |-> FALSE]]
     /\ conns = had
     /\ watcher = [s \in Dials |-> IF s \in had THEN "watching" ELSE "none"]
  /\ dialing = 0
  /\ dead = [s \in Dials |-> "no"]
  /\ closer = "idle"
  /\ doomed = {}

\* The context of a call that has returned no longer matters.
Go(c, pc, s) == caller' = [caller EXCEPT ![c] =
  [pc |-> pc, on |-> s, canceled |-> caller[c].canceled /\ pc # "returned"]]
Set(c, pc) == caller' = [caller EXCEPT ![c].pc = pc]
-----------------------------------------------------------------------------
(* connection and reserveAuthenticatedSession *)

Start(c) ==
  /\ caller[c].pc = "idle"
  /\ Set(c, "select")
  /\ UNCHANGED <<dialVars, poolVars, rest>>

Unstarted == {d \in Dials : dial[d] = "none"}
First(ds) == CHOOSE d \in ds : \A e \in ds : d <= e
Live == current # NoSession /\ dead[current] = "no"

Select(c) ==
  /\ caller[c].pc = "select"
  /\ IF Stopped(c)
     THEN Go(c, "returned", 0) /\ UNCHANGED dialVars
     ELSE IF Live
     THEN Go(c, "check", current) /\ UNCHANGED dialVars
     ELSE IF dialing # 0
     THEN Go(c, "await", dialing) /\ UNCHANGED dialVars
     ELSE /\ Unstarted # {}
          /\ LET d == First(Unstarted) IN
             /\ dialing' = d
             /\ dial' = [dial EXCEPT ![d] = "racing"]
             /\ racer' = [e \in Dials, a \in Addresses |->
                  IF e # d THEN racer[e, a] ELSE IF a = 1 THEN "dialing" ELSE "delayed"]
             /\ Go(c, "await", d)
          /\ UNCHANGED winner
  /\ UNCHANGED <<poolVars, rest>>

Awaited(c) ==
  /\ caller[c].pc = "await"
  /\ \/ Stopped(c) /\ Go(c, "returned", 0)
     \/ dial[caller[c].on] = "error" /\ Go(c, "returned", 0)
     \/ dial[caller[c].on] = "done" /\ ~Stopped(c) /\ Set(c, "check")
  /\ UNCHANGED <<dialVars, poolVars, rest>>

\* What connection returned may be gone by now.  A user is counted before the
\* selection lock is released.
StillGoodAnyway(s) == TRUE           \* mutant
StillGood(s) == s \in conns /\ ~session[s].retired /\ dead[s] = "no"
Check(c) ==
  /\ caller[c].pc = "check"
  /\ LET s == caller[c].on IN
     IF Stopped(c) THEN Go(c, "returned", 0) /\ UNCHANGED session
     ELSE IF ~StillGood(s) \/ session[s].auth = "failed" THEN Go(c, "select", 0) /\ UNCHANGED session
     ELSE IF session[s].auth = "fresh"
     THEN Set(c, "lead") /\ session' = [session EXCEPT ![s].auth = "bootstrapping"]
     ELSE IF session[s].auth = "ready" THEN Set(c, "follow") /\ UNCHANGED session
     ELSE Set(c, "joining") /\ UNCHANGED session
  /\ UNCHANGED <<dialVars, dead, current, conns, rest>>

Joined(c) ==
  /\ caller[c].pc = "joining"
  /\ \/ session[caller[c].on].auth # "bootstrapping" /\ Go(c, "select", 0)
     \/ Stopped(c) /\ Go(c, "returned", 0)
  /\ UNCHANGED <<dialVars, poolVars, rest>>
-----------------------------------------------------------------------------
(* dialSessionAddresses, runConnectionDial and watchConnection *)

RaceOver(d) == winner[d] # 0 \/ Closed

\* Each later address waits for its delay, or for the end of the race.
RacerStarts(d, a) ==
  /\ dial[d] = "racing" /\ racer[d, a] = "delayed"
  /\ racer' = [racer EXCEPT ![<<d, a>>] = IF RaceOver(d) THEN "taken" ELSE "dialing"]
  /\ UNCHANGED <<caller, winner, dial, dialing, poolVars, rest>>

\* dialSessionAddress and the receipt of its result: the first success wins, and
\* one that comes when the race is over is closed.
LoserForgotten(d, a) == sockets' = sockets \cup {<<d, a>>}    \* mutant
DiscardLoser(d, a) == sockets' = sockets \ {<<d, a>>}
RacerDials(d, a) ==
  /\ dial[d] = "racing" /\ racer[d, a] = "dialing"
  /\ racer' = [racer EXCEPT ![<<d, a>>] = "taken"]
  /\ \/ winner[d] = 0 /\ winner' = [winner EXCEPT ![d] = a] /\ sockets' = sockets \cup {<<d, a>>}
     \/ winner[d] # 0 /\ DiscardLoser(d, a) /\ UNCHANGED winner
     \/ UNCHANGED <<winner, sockets>>
  /\ UNCHANGED <<caller, dial, dialing, poolVars, watcher, closeVars>>

RaceEnded(d) == dial[d] = "racing" /\ \A a \in Addresses : racer[d, a] = "taken"

DialOpens(d) ==
  /\ RaceEnded(d) /\ winner[d] # 0
  /\ session' = [session EXCEPT ![d].auth = "fresh"]
  /\ winner' = [winner EXCEPT ![d] = 0]
  /\ sockets' = (sockets \ {<<d, winner[d]>>}) \cup {<<d, 0>>}
  /\ IF Closed
     THEN dial' = [dial EXCEPT ![d] = "late"] /\ UNCHANGED <<current, conns, watcher>>
     ELSE /\ dial' = [dial EXCEPT ![d] = "opened"]
          /\ current' = d
          /\ conns' = conns \cup {d}
          /\ watcher' = [watcher EXCEPT ![d] = "watching"]
  /\ UNCHANGED <<caller, racer, dialing, dead, closeVars>>

DialFails(d) ==
  /\ RaceEnded(d) /\ winner[d] = 0
  /\ dial' = [dial EXCEPT ![d] = "error"]
  /\ dialing' = 0
  /\ UNCHANGED <<caller, raceVars, poolVars, rest>>

DialPublishes(d) ==
  /\ dial[d] = "opened"
  /\ dial' = [dial EXCEPT ![d] = "done"]
  /\ dialing' = 0
  /\ UNCHANGED <<caller, raceVars, poolVars, rest>>

DialLate(d) ==
  /\ dial[d] = "late"
  /\ dead' = [dead EXCEPT ![d] = "local"]
  /\ sockets' = sockets \ {<<d, 0>>}
  /\ dial' = [dial EXCEPT ![d] = "error"]
  /\ dialing' = 0
  /\ UNCHANGED <<caller, raceVars, session, current, conns, watcher, closeVars>>

\* The watcher: bootstrap waiters are woken, and only what is still this
\* connection's is removed.
Watched(s) ==
  /\ watcher[s] = "watching" /\ dead[s] # "no"
  /\ session' = [session EXCEPT ![s].auth = IF @ \in {"fresh", "bootstrapping"} THEN "failed" ELSE @]
  /\ conns' = conns \ {s}
  /\ current' = IF current = s THEN NoSession ELSE current
  /\ watcher' = [watcher EXCEPT ![s] = "closing"]
  /\ UNCHANGED <<caller, dialVars, dead, sockets, closeVars>>

WatcherEnds(s) ==
  /\ watcher[s] = "closing"
  /\ sockets' = sockets \ {<<s, 0>>}
  /\ watcher' = [watcher EXCEPT ![s] = "done"]
  /\ UNCHANGED <<caller, dialVars, poolVars, closeVars>>
-----------------------------------------------------------------------------
(* DialContext after the reservation *)

streamOnly == <<dialVars, rest>>
CloseConn(s) == dead' = [dead EXCEPT ![s] = IF @ = "no" THEN "local" ELSE @]
Reachable(c) == dead[caller[c].on] = "no"

\* failSessionAuthentication; "doom" then closes the connection.
FailSession(c) ==
  LET s == caller[c].on IN
  /\ session' = [session EXCEPT ![s].auth = "failed"]
  /\ current' = IF current = s THEN NoSession ELSE current
  /\ Set(c, "doom")
  /\ UNCHANGED <<dead, conns>>

\* A bootstrap without credential, stream, answer or valid proof.
LeadFails(c) ==
  /\ caller[c].pc = "lead"
  /\ FailSession(c)
  /\ UNCHANGED streamOnly

LeadAnswered(c) ==
  /\ caller[c].pc = "lead" /\ Reachable(c)
  /\ LET s == caller[c].on IN
     IF ~Closed /\ s \in conns /\ session[s].auth = "bootstrapping"
     THEN /\ session' = [session EXCEPT ![s].auth = "ready"]
          /\ Set(c, "answered")
          /\ UNCHANGED <<dead, current, conns>>
     ELSE FailSession(c)
  /\ UNCHANGED streamOnly

Doom(c) ==
  /\ caller[c].pc = "doom"
  /\ CloseConn(caller[c].on)
  /\ Set(c, "release")
  /\ UNCHANGED <<session, current, conns, streamOnly>>

FollowAnswered(c) ==
  /\ caller[c].pc = "follow" /\ Reachable(c)
  /\ Set(c, "answered")
  /\ UNCHANGED <<poolVars, streamOnly>>

FollowMisproved(c) ==
  /\ caller[c].pc = "follow" /\ Reachable(c)
  /\ FailSession(c)
  /\ UNCHANGED streamOnly

\* OpenRequestStream refused (GOAWAY, or the connection is dead): retire.  This
\* call is still a user, so retire itself closes nothing.
Retires(c) ==
  /\ caller[c].pc = "follow" /\ ~caller[c].canceled
  /\ LET s == caller[c].on IN
     /\ session' = IF s \in conns THEN [session EXCEPT ![s].retired = TRUE] ELSE session
     /\ current' = IF current = s THEN NoSession ELSE current
  /\ Set(c, "release")
  /\ UNCHANGED <<dead, conns, streamOnly>>

\* The stream is canceled, refused by status, late, or reset.
Abandons(c) ==
  /\ caller[c].pc \in {"follow", "answered"}
  /\ Set(c, "release")
  /\ UNCHANGED <<poolVars, streamOnly>>

Handoff(c) ==
  /\ caller[c].pc = "answered"
  /\ Set(c, IF Stopped(c) THEN "release" ELSE "open")
  /\ UNCHANGED <<poolVars, streamOnly>>

\* releaseSession, once per reservation: the last user of a retired connection
\* closes it.
LastUserAny(s) == TRUE               \* mutant: the count is not looked at
LastUserNever(s) == FALSE            \* mutant: nobody closes it
LastUser(s) == Cardinality(Users(s)) = 1
Release(c) ==
  /\ LET s == caller[c].on IN
     IF session[s].retired /\ LastUser(s) /\ s \in conns THEN Go(c, "close", s) ELSE Go(c, "returned", 0)
  /\ UNCHANGED <<poolVars, streamOnly>>
Releases(c) == caller[c].pc = "release" /\ Release(c)
CloseStream(c) == caller[c].pc = "open" /\ Release(c)

CloseRetired(c) ==
  /\ caller[c].pc = "close"
  /\ CloseConn(caller[c].on)
  /\ Go(c, "returned", 0)
  /\ UNCHANGED <<session, current, conns, streamOnly>>
-----------------------------------------------------------------------------
(* The environment, and Close *)

Cancel(c) ==
  /\ ~caller[c].canceled /\ caller[c].pc \notin {"idle", "returned", "open"}
  /\ caller' = [caller EXCEPT ![c].canceled = TRUE]
  /\ UNCHANGED <<dialVars, poolVars, rest>>

PeerEnds(s) ==
  /\ s <= MaxDials - Cardinality(Callers) /\ dial[s] \in {"opened", "done"} /\ dead[s] = "no"
  /\ dead' = [dead EXCEPT ![s] = "peer"]
  /\ UNCHANGED <<caller, session, current, conns, streamOnly>>

CloseBegins ==
  /\ closer = "idle"
  /\ closer' = "closing"
  /\ doomed' = conns
  /\ current' = NoSession
  /\ conns' = {}
  /\ UNCHANGED <<caller, dialVars, session, dead, sockets, watcher>>

CloseSessions ==
  /\ closer = "closing"
  /\ closer' = "waiting"
  /\ dead' = [s \in Dials |-> IF s \in doomed /\ dead[s] = "no" THEN "local" ELSE dead[s]]
  /\ sockets' = sockets \ (doomed \X {0})
  /\ UNCHANGED <<caller, dialVars, session, current, conns, watcher, doomed>>

\* workers.Wait, then the HTTP/3 transport is closed.
WorkersDone ==
  /\ \A d \in Dials : dial[d] \in {"none", "done", "error"}
  /\ \A s \in Dials : watcher[s] \in {"none", "done"}
CloseReturns ==
  /\ closer = "waiting" /\ WorkersDone
  /\ closer' = "done"
  /\ UNCHANGED <<caller, dialVars, poolVars, sockets, watcher, doomed>>
-----------------------------------------------------------------------------
Worker(d) ==
  \/ \E a \in Addresses : RacerStarts(d, a) \/ RacerDials(d, a)
  \/ DialOpens(d) \/ DialFails(d) \/ DialPublishes(d) \/ DialLate(d)
  \/ Watched(d) \/ WatcherEnds(d)

Call(c) ==
  \/ Select(c) \/ Awaited(c) \/ Check(c) \/ Joined(c)
  \/ LeadFails(c) \/ LeadAnswered(c) \/ Doom(c)
  \/ FollowAnswered(c) \/ FollowMisproved(c) \/ Retires(c) \/ Abandons(c)
  \/ Handoff(c) \/ Releases(c) \/ CloseRetired(c)

Next ==
  \/ \E c \in Callers : Start(c) \/ Call(c) \/ CloseStream(c) \/ Cancel(c)
  \/ \E d \in Dials : Worker(d) \/ PeerEnds(d)
  \/ CloseBegins \/ CloseSessions \/ CloseReturns

\* Dials, requests and answers all have deadlines.
Progress ==
  \/ \E c \in Callers : Call(c)
  \/ \E d \in Dials : Worker(d)
  \/ CloseSessions \/ CloseReturns

Spec == Init /\ [][Next]_vars /\ WF_vars(Progress)
-----------------------------------------------------------------------------
(* Properties. *)

Pool == INSTANCE AuthenticatedPool WITH
  Sessions <- Dials,
  auth <- [s \in Dials |-> session[s].auth],
  users <- [s \in Dials |-> Users(s)],
  open <- {s \in Dials : session[s].auth # "none" /\ dead[s] = "no"},
  lost <- {s \in Dials : dead[s] = "peer"},
  shut <- Closed

\* One full credential per QUIC connection, no ticket before it is established,
\* and no connection closed under a call or a returned stream unless its
\* authentication failed, the network ended it or the client is closed.
ImplementsPool == Pool!Spec

\* One dial races at a time, and every UDP socket has somebody who will close
\* it: the race that opened it, the connection's watcher or Close.  Once Close
\* has returned there is none.
SocketsOwned ==
  /\ Cardinality({d \in Dials : dial[d] \in {"racing", "opened", "late"}}) <= 1
  /\ \A k \in sockets :
       \/ dial[k[1]] = "racing" /\ k[2] = winner[k[1]]
       \/ dial[k[1]] = "late" /\ k[2] = 0
       \/ k[2] = 0 /\ watcher[k[1]] \in {"watching", "closing"}
  /\ closer = "done" => sockets = {}

Settled ==
  /\ \A c \in Callers : caller[c].pc \in {"idle", "open", "returned"}
  /\ \A s \in conns : session[s].retired => Users(s) # {}
  /\ Closed => closer = "done"

\* Every call returns, whoever leads, fails, dies or is canceled; a retired
\* connection does not outlive its users; and Close returns.
Settles == <>[]Settled
=============================================================================
