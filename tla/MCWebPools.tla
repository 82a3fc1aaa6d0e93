------------------------------ MODULE MCWebPools ------------------------------
(***************************************************************************)
(* The two session pools of the web client, which has one of each and sends *)
(* a call to one of them (WebClient).  They share nothing, so the calls of *)
(* a behaviour all go to one; the other stays new.                         *)
(***************************************************************************)
EXTENDS Integers, FiniteSets

CONSTANTS
  Callers,       \* the calls of a client, all of them to one of its pools
  MaxDials,      \* bound: physical connections of a pool
  Addresses,     \* the candidate addresses that an H3 connection is raced over
  NoSession      \* nil

\* A pool counts its dials, addresses and calls from values that stand for none.
ASSUME PoolsAssumption ==
  /\ MaxDials \in Nat \ {0} /\ NoSession \notin 1..MaxDials
  /\ IsFiniteSet(Callers) /\ "nobody" \notin Callers
  /\ 0 \notin Addresses

VARIABLES
  transport,     \* "h2" or "h3"
  caller, canceled, gate, session, current, tracked, retired, dial, dialing,
  cohort, selection, closer, doomed,
  h3caller, racer, winner, sockets, h3dial, h3dialing, h3session, dead, h3current,
  conns, watcher, h3closer, h3doomed

h2Vars ==
  <<caller, canceled, gate, session, current, tracked, retired, dial, dialing,
    cohort, selection, closer, doomed>>
h3Vars ==
  <<h3caller, racer, winner, sockets, h3dial, h3dialing, h3session, dead, h3current,
    conns, watcher, h3closer, h3doomed>>
vars == <<transport, h2Vars, h3Vars>>

H2 == INSTANCE H2SessionPool
H3 == INSTANCE H3SessionPool WITH
  caller <- h3caller, dial <- h3dial, dialing <- h3dialing, session <- h3session,
  current <- h3current, closer <- h3closer, doomed <- h3doomed
-----------------------------------------------------------------------------
Init ==
  /\ H2!Init /\ H3!Init
  /\ \/ transport = "h2" /\ h3current = NoSession
     \/ transport = "h3" /\ current = NoSession

Next ==
  \/ transport = "h2" /\ H2!Next /\ UNCHANGED <<transport, h3Vars>>
  \/ transport = "h3" /\ H3!Next /\ UNCHANGED <<transport, h2Vars>>

Progress ==
  \/ transport = "h2" /\ H2!Progress /\ UNCHANGED <<transport, h3Vars>>
  \/ transport = "h3" /\ H3!Progress /\ UNCHANGED <<transport, h2Vars>>

Spec == Init /\ [][Next]_vars /\ WF_vars(Progress)
-----------------------------------------------------------------------------
\* Every connection and UDP socket has somebody who will close it, one is being
\* opened at a time, and none is left when Close has returned (runSessionDial,
\* cleanupIdleSessionsLocked, watchConnection, dialSessionAddresses).
EveryConnectionOwned == H2!EveryConnectionOwned /\ H3!SocketsOwned

\* Both pools authenticate each connection once, admit nobody to it before that,
\* and close it under no user.
ImplementsPool == H2!ImplementsPool /\ H3!ImplementsPool

\* Every call returns, retired connections are closed, Close returns.
Settles == <>[](IF transport = "h2" THEN H2!Settled ELSE H3!Settled)
=============================================================================
