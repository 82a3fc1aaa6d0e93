--------------------------- MODULE NativeClientProofs ---------------------------
(***************************************************************************)
(* Proofs about NativeClient, for any number of callers, packet callers,   *)
(* Close calls and dial attempts: the half-open probe has one owner, one   *)
(* physical dial runs at a time, no live connection is left behind, and    *)
(* Close is a barrier.                                                     *)
(***************************************************************************)
EXTENDS NativeClient, TLAPS

\* What a place in connection() and the retry loop says about the locals.
CallShape ==
  \A c \in Callers :
    /\ call[c].pc = "loop" => call[c].tries < 2
    /\ call[c].pc = "wait" => call[c].waits \in Dials
    /\ call[c].pc \in {"open", "request", "succeed"} => call[c].held \in Dials

TypeInv == TypeOK /\ CallShape

\* Attempts have numbers of their own, at most the last one given; a prober in
\* its QUIC phase owns the probe, and the probe has an owner in its QUIC phase.
NumbersInv ==
  /\ probeID <= nextID
  /\ \A c \in Callers : call[c].id <= nextID
  /\ \A c, d \in Callers : call[c].id # 0 /\ call[c].id = call[d].id => c = d
  /\ \A c \in Callers : InPrimary(c) /\ DialsStream(c) => call[c].id # 0
OwnersInv ==
  \A c \in probers : InPrimary(c) /\ DialsStream(c) => call[c].id = probeID
BreakerInv == NumbersInv /\ OwnersInv /\ ProbeOwned

\* Nobody is ahead of the health generation; who is outdated is behind it.
HealthInv ==
  /\ \A c \in Callers : call[c].gen <= healthGen
  /\ \A d \in Dials : dial[d].gen <= healthGen
  /\ \A c \in outdated.callers : call[c].gen < healthGen
  /\ \A d \in outdated.dials : dial[d].gen < healthGen

\* The dial in flight is the one at work; until its result is settled nobody
\* has its connection, and the client has none that lives; a live connection is
\* the client's, its dial's, or one Close is about to close.
InFlight == \A d \in Dials : Working(d) <=> dialing = d
Unsettled ==
  \A d \in Dials : dial[d].phase \in {"dialing", "returned", "rejecting"} =>
    d # conn /\ d # closing /\ ~Usable(conn)
Owned ==
  \A d \in Dials : dial[d].link = "live" =>
    \/ conn = d \/ dial[d].phase \in {"returned", "rejecting"}
    \/ closing = d /\ ~canceled
DialInv == InFlight /\ Unsettled /\ Owned

\* How far the first Close has come.
CloseInv ==
  /\ closed => conn = NoDial
  /\ ~closed => closing = NoDial /\ \A k \in Closers : closer[k] = "idle"
  /\ canceled => closed
  /\ \A k \in Closers : closer[k] = "join" => canceled
  /\ \A k \in Closers : closer[k] = "returned" => closeDone
  /\ closeDone => canceled /\ \A d \in Dials : ~Working(d)

IInv == TypeInv /\ BreakerInv /\ HealthInv /\ DialInv /\ CloseInv
-----------------------------------------------------------------------------
(* Types, and the shape of a call. *)

\* A caller's new locals keep the types when they agree with its new place.
WellShaped(r) ==
  /\ r \in CallRecord
  /\ r.pc = "loop" => r.tries < 2
  /\ r.pc = "wait" => r.waits \in Dials
  /\ r.pc \in {"open", "request", "succeed"} => r.held \in Dials

LEMMA UpdateTyped ==
  ASSUME TypeInv, NEW c \in Callers, NEW r, WellShaped(r), Update(c, r)
  PROVE  call' \in [Callers -> CallRecord] /\ CallShape'
<1>1. call \in [Callers -> CallRecord]
  BY DEF TypeInv, TypeOK, CallTypes
<1>2. call' \in [Callers -> CallRecord]
  BY <1>1 DEF Update, WellShaped
<1>3. \A e \in Callers : call'[e] = IF e = c THEN r ELSE call[e]
  BY <1>1 DEF Update
<1> QED BY <1>2, <1>3 DEF CallShape, TypeInv, WellShaped

\* A blank call is well shaped, whatever it does next without a dial.
LEMMA IdleShaped ==
  /\ WellShaped(Idle) /\ WellShaped([Idle EXCEPT !.pc = "tls"])
  /\ WellShaped([Idle EXCEPT !.pc = "loop", !.kind = "packet"])
<1>1. Idle \in CallRecord
  BY DEF Idle, CallRecord, Pcs, Names
<1>2. [Idle EXCEPT !.pc = "tls"] \in CallRecord
  BY <1>1 DEF CallRecord, Pcs
<1>3. [Idle EXCEPT !.pc = "loop", !.kind = "packet"] \in CallRecord
  BY <1>1 DEF CallRecord, Pcs
<1> QED BY <1>1, <1>2, <1>3 DEF WellShaped, Idle

\* A caller that moves on with the same attempt number.
Moves(c) ==
  /\ InPrimary(c)
  /\ \E r : /\ WellShaped(r) /\ r.pc \notin {"idle", "tls"}
            /\ r.id = call[c].id /\ r.gen = call[c].gen /\ r.kind = call[c].kind
            /\ Update(c, r)
  /\ UNCHANGED <<circuit, probeID, nextID, healthGen, probers>>
  /\ UNCHANGED outdated \/ StartDial(c)

\* A caller that leaves its QUIC phase and releases its probe.
Leaves(c) ==
  /\ InPrimary(c)
  /\ Return(c) \/ TurnToTLS(c)
  /\ ReleaseProbe(c)
  /\ UNCHANGED <<nextID, healthGen, probers, outdated>>

\* A caller that reports an authenticated answer.
Resets(c) == Return(c) /\ ResetCircuit

\* A call without an attempt begins or ends.
Bypasses(c) ==
  /\ ~InPrimary(c)
  /\ \/ Return(c) \/ TurnToTLS(c)
     \/ Update(c, [Idle EXCEPT !.pc = "loop", !.kind = "packet"])
  /\ UNCHANGED breakerVars

\* The locals of callers do not change, and the probe neither.
Rests == UNCHANGED <<call, probeID, nextID, healthGen, probers, outdated>>

\* connection() failed: the caller moves on, or leaves.
LEMMA ConnectionFailedClass ==
  ASSUME TypeInv, NEW c \in Callers, InPrimary(c), ConnectionFailed(c)
  PROVE  Moves(c) \/ Leaves(c)
<1> DEFINE r == [call[c] EXCEPT !.pc = "after", !.waits = NoDial]
<1>1. call[c] \in CallRecord
  BY DEF TypeInv, TypeOK, CallTypes
<1>2. WellShaped(r) /\ r.pc = "after" /\ r.id = call[c].id /\ r.gen = call[c].gen
      /\ r.kind = call[c].kind
  BY <1>1 DEF WellShaped, CallRecord, Pcs, Names
<1>3. CASE call[c].ctx = "caller"
  BY <1>3 DEF ConnectionFailed, Leave, Leaves
<1>4. CASE call[c].ctx # "caller"
  BY <1>2, <1>4 DEF ConnectionFailed, Moves, breakerVars
<1> QED BY <1>3, <1>4

\* Whatever a caller does once it has begun belongs to one of these classes.
LEMMA CallClass ==
  ASSUME TypeInv, NEW c \in Callers,
         CallStep(c) \/ StartPacket(c) \/ CallerCancels(c) \/ BudgetExpires(c)
  PROVE  Moves(c) \/ Leaves(c) \/ Resets(c) \/ Bypasses(c)
<1>1. call[c] \in CallRecord
  BY DEF TypeInv, TypeOK, CallTypes
<1>2. outdated \in [callers : SUBSET Callers, dials : SUBSET Dials]
  BY DEF TypeInv, TypeOK, BreakerTypes
<1>3. /\ call[c].pc = "loop" => call[c].tries < 2
      /\ call[c].pc = "wait" => call[c].waits \in Dials
      /\ call[c].pc \in {"open", "request", "succeed"} => call[c].held \in Dials
  BY DEF TypeInv, CallShape
<1>4. CASE Loop(c)
  <2>1. CASE call[c].ctx = "caller" /\ Leave(c)
    BY <1>4, <2>1 DEF Loop, Leave, Leaves, InPrimary
  <2>2. CASE Goto(c, "after") /\ UNCHANGED breakerVars
    <3>1. WellShaped([call[c] EXCEPT !.pc = "after"])
      BY <1>1 DEF WellShaped, CallRecord, Pcs
    <3> QED BY <1>1, <1>4, <2>2, <3>1 DEF Loop, Goto, Moves, InPrimary, breakerVars, CallRecord
  <2>3. CASE /\ Update(c, [call[c] EXCEPT !.pc = "conn", !.tries = @ + 1])
             /\ UNCHANGED breakerVars
    <3>1. WellShaped([call[c] EXCEPT !.pc = "conn", !.tries = @ + 1])
      <4>1. call[c].tries \in 0..2 /\ call[c].tries < 2
        BY <1>1, <1>3, <1>4 DEF Loop, CallRecord
      <4>2. call[c].tries + 1 \in 0..2
        BY <4>1
      <4> QED BY <1>1, <4>2 DEF WellShaped, CallRecord, Pcs
    <3> QED BY <1>1, <1>4, <2>3, <3>1 DEF Loop, Moves, InPrimary, breakerVars, CallRecord
  <2> QED BY <1>4, <2>1, <2>2, <2>3 DEF Loop
<1>5. CASE UseClosed(c) \/ WaitFails(c)
  BY <1>5, ConnectionFailedClass DEF UseClosed, WaitFails, InPrimary
<1>6. CASE UseLive(c)
  <2>1. WellShaped([call[c] EXCEPT !.pc = "open", !.held = conn])
    <3>1. conn \in Dials
      BY <1>6 DEF UseLive, Usable
    <3> QED BY <1>1, <3>1 DEF WellShaped, CallRecord, Pcs, Names
  <2> QED BY <1>1, <1>6, <2>1 DEF UseLive, Moves, InPrimary, breakerVars, CallRecord
<1>7. CASE JoinDial(c)
  <2>1. dialing \in Dials
    BY <1>7 DEF JoinDial, NoDialInFlight, TypeInv, TypeOK, DialTypes, Names
  <2>2. WellShaped([call[c] EXCEPT !.pc = "wait", !.waits = dialing])
    BY <1>1, <2>1 DEF WellShaped, CallRecord, Pcs, Names
  <2> QED BY <1>1, <1>7, <2>2 DEF JoinDial, Moves, InPrimary, breakerVars, CallRecord
<1>8. CASE StartDial(c)
  <2>1. PICK d \in Dials :
          /\ Update(c, [call[c] EXCEPT !.pc = "wait", !.waits = d])
          /\ outdated' = [outdated EXCEPT !.dials = @ \ {d}]
    BY <1>8 DEF StartDial
  <2>2. WellShaped([call[c] EXCEPT !.pc = "wait", !.waits = d])
    BY <1>1 DEF WellShaped, CallRecord, Pcs, Names
  <2> QED BY <1>1, <1>2, <1>8, <2>1, <2>2 DEF StartDial, Moves, InPrimary, CallRecord
<1>9. CASE DialAwaited(c)
  <2>1. WellShaped([call[c] EXCEPT !.pc = "conn", !.waits = NoDial])
    BY <1>1 DEF WellShaped, CallRecord, Pcs, Names
  <2> QED BY <1>1, <1>9, <2>1 DEF DialAwaited, Moves, InPrimary, breakerVars, CallRecord
<1>10. CASE StreamOpens(c)
  <2>1. WellShaped([call[c] EXCEPT !.pc = "request"])
    BY <1>1, <1>3, <1>10 DEF StreamOpens, WellShaped, CallRecord, Pcs
  <2> QED BY <1>1, <1>10, <2>1 DEF StreamOpens, Goto, Moves, InPrimary, breakerVars, CallRecord
<1>11. CASE StreamFails(c)
  <2>1. CASE Leave(c)
    BY <1>11, <2>1 DEF StreamFails, Leave, Leaves, InPrimary
  <2>2. CASE \E label \in {"loop", "after"} :
               /\ label = "loop" => RetriesOnce(c)
               /\ Update(c, [call[c] EXCEPT !.held = NoDial, !.pc = label])
               /\ UNCHANGED breakerVars
    <3>1. PICK label \in {"loop", "after"} :
               /\ label = "loop" => RetriesOnce(c)
               /\ Update(c, [call[c] EXCEPT !.held = NoDial, !.pc = label])
               /\ UNCHANGED breakerVars
      BY <2>2
    <3>2. WellShaped([call[c] EXCEPT !.held = NoDial, !.pc = label])
      BY <1>1, <3>1 DEF RetriesOnce, WellShaped, CallRecord, Pcs, Names
    <3> QED BY <1>1, <1>11, <3>1, <3>2 DEF StreamFails, Moves, InPrimary, breakerVars, CallRecord
  <2>3. [call[c] EXCEPT !.pc = "after", !.held = NoDial]
          = [call[c] EXCEPT !.held = NoDial, !.pc = "after"]
    BY <1>1 DEF CallRecord
  <2> QED BY <1>11, <2>1, <2>2, <2>3 DEF StreamFails
<1>12. CASE Response(c)
  <2>1. CASE Goto(c, "succeed")
    <3>1. WellShaped([call[c] EXCEPT !.pc = "succeed"])
      BY <1>1, <1>3, <1>12 DEF Response, WellShaped, CallRecord, Pcs
    <3> QED BY <1>1, <1>12, <2>1, <3>1 DEF Response, Goto, Moves, InPrimary, breakerVars, CallRecord
  <2>2. CASE Update(c, [call[c] EXCEPT !.pc = "after", !.held = NoDial])
    <3>1. WellShaped([call[c] EXCEPT !.pc = "after", !.held = NoDial])
      BY <1>1 DEF WellShaped, CallRecord, Pcs, Names
    <3> QED BY <1>1, <1>12, <2>2, <3>1 DEF Response, Moves, InPrimary, breakerVars, CallRecord
  <2> QED BY <1>12, <2>1, <2>2 DEF Response
<1>13. CASE Succeed(c) \/ Refused(c)
  BY <1>13 DEF Succeed, Refused, Resets
<1>14. CASE After(c)
  BY <1>14 DEF After, Leave, PrimaryFailed, Leaves, InPrimary
<1>15. CASE TlsReturns(c) \/ StartPacket(c)
  BY <1>15 DEF TlsReturns, StartPacket, Bypasses, InPrimary
<1>16. CASE CallerCancels(c)
  <2>1. WellShaped([call[c] EXCEPT !.ctx = "caller"])
    BY <1>1, <1>3 DEF WellShaped, CallRecord
  <2> QED BY <1>1, <1>16, <2>1 DEF CallerCancels, Moves, InPrimary, breakerVars, CallRecord
<1>17. CASE BudgetExpires(c)
  <2>1. WellShaped([call[c] EXCEPT !.ctx = "budget"])
    BY <1>1, <1>3 DEF WellShaped, CallRecord
  <2> QED BY <1>1, <1>17, <2>1 DEF BudgetExpires, Moves, InPrimary, breakerVars, CallRecord
<1> QED BY <1>4, <1>5, <1>6, <1>7, <1>8, <1>9, <1>10, <1>11, <1>12, <1>13,
           <1>14, <1>15, <1>16, <1>17 DEF CallStep

\* The steps of dials, of Close and of time leave callers and the probe alone.
LEMMA OtherClass ==
  ASSUME \/ \E d \in Dials : DialWorker(d) \/ ConnectionDies(d)
         \/ \E k \in Closers : Close(k) \/ CloseStep(k)
         \/ CooldownElapses
  PROVE  Rests
<1>1. CASE \E d \in Dials : DialWorker(d) \/ ConnectionDies(d)
  BY <1>1 DEF DialWorker, DialReturns, SettleDial, CloseRejected, PublishDial,
              ConnectionDies, Rests, breakerVars
<1>2. CASE \E k \in Closers : Close(k) \/ CloseStep(k)
  BY <1>2 DEF Close, CloseStep, CloseCancels, CloseJoins, CloseAwaits, Rests, breakerVars
<1>3. CASE CooldownElapses
  BY <1>3 DEF CooldownElapses, Rests
<1> QED BY <1>1, <1>2, <1>3

\* Every step: a caller starts, belongs to a class, or nobody's call changes.
LEMMA StepClass ==
  ASSUME TypeInv, Next
  PROVE  \/ \E c \in Callers : \/ Start(c) \/ Moves(c) \/ Leaves(c)
                               \/ Resets(c) \/ Bypasses(c)
         \/ Rests
BY CallClass, OtherClass DEF Next

\* A new attempt of DialContext: the number after the last.
LEMMA StartShaped ==
  ASSUME TypeInv, NEW c \in Callers
  PROVE  WellShaped([Idle EXCEPT !.pc = "loop", !.id = nextID + 1, !.gen = healthGen])
<1>1. nextID + 1 \in Nat /\ healthGen \in Nat
  BY DEF TypeInv, TypeOK, BreakerTypes
<1> DEFINE r == [Idle EXCEPT !.pc = "loop", !.id = nextID + 1, !.gen = healthGen]
<1>2. Idle \in CallRecord
  BY IdleShaped DEF WellShaped
<1>3. r \in CallRecord /\ r.pc = "loop" /\ r.tries = 0
  <2>1. Idle.tries = 0
    BY DEF Idle
  <2>2. \A i, g \in Nat : [Idle EXCEPT !.pc = "loop", !.id = i, !.gen = g] \in CallRecord
    BY <1>2 DEF CallRecord, Pcs
  <2>3. r.pc = "loop" /\ r.tries = Idle.tries
    BY <1>2 DEF CallRecord
  <2> QED BY <1>1, <2>1, <2>2, <2>3
<1> QED BY <1>3 DEF WellShaped

LEMMA CallsTyped ==
  ASSUME TypeInv, Next
  PROVE  call' \in [Callers -> CallRecord] /\ CallShape'
<1>1. CASE \E c \in Callers : Start(c)
  BY <1>1, IdleShaped, StartShaped, UpdateTyped DEF Start, TurnToTLS
<1>2. CASE \E c \in Callers : Moves(c)
  BY <1>2, UpdateTyped DEF Moves
<1>3. CASE \E c \in Callers : Leaves(c) \/ Resets(c) \/ Bypasses(c)
  BY <1>3, IdleShaped, UpdateTyped DEF Leaves, Resets, Bypasses, Return, TurnToTLS
<1>4. CASE Rests
  BY <1>4 DEF Rests, TypeInv, TypeOK, CallTypes, CallShape
<1> QED BY <1>1, <1>2, <1>3, <1>4, StepClass

LEMMA BreakerTyped ==
  ASSUME TypeInv, Next
  PROVE  BreakerTypes'
<1> USE DEF TypeInv, TypeOK, BreakerTypes
<1>1. ASSUME NEW c \in Callers, Start(c)
      PROVE  BreakerTypes'
  BY <1>1 DEF Start, TurnToTLS, breakerVars
<1>2. \A c \in Callers : call[c].id \in Nat
  BY DEF CallTypes, CallRecord
<1>3. ASSUME NEW c \in Callers, CallStep(c)
      PROVE  circuit' \in {"closed", "cooling", "elapsed"}
  BY <1>3 DEF CallStep, Loop, UseClosed, UseLive, JoinDial, StartDial, DialAwaited,
       WaitFails, ConnectionFailed, StreamOpens, StreamFails, Response, Succeed,
       Refused, After, TlsReturns, Leave, PrimaryFailed, OpenCircuit, ResetCircuit,
       breakerVars
<1>4. circuit' \in {"closed", "cooling", "elapsed"}
  <2>1. ASSUME NEW c \in Callers, StartPacket(c) \/ CallerCancels(c) \/ BudgetExpires(c)
        PROVE  circuit' = circuit
    BY <2>1 DEF StartPacket, CallerCancels, BudgetExpires, breakerVars
  <2>2. ASSUME NEW d \in Dials, DialWorker(d) \/ ConnectionDies(d)
        PROVE  circuit' \in {circuit, "cooling"}
    BY <2>2 DEF DialWorker, DialReturns, SettleDial, CloseRejected, PublishDial,
                ConnectionDies, breakerVars
  <2>3. ASSUME NEW k \in Closers, Close(k) \/ CloseStep(k)
        PROVE  circuit' = circuit
    BY <2>3 DEF Close, CloseStep, CloseCancels, CloseJoins, CloseAwaits, breakerVars
  <2>4. CooldownElapses => circuit' = "elapsed"
    BY DEF CooldownElapses
  <2> QED BY <1>1, <1>3, <2>1, <2>2, <2>3, <2>4 DEF Next
<1>5. ASSUME NEW c \in Callers, StartDial(c)
      PROVE  outdated' \in [callers : SUBSET Callers, dials : SUBSET Dials]
  BY <1>5 DEF StartDial
<1>6. ASSUME NEW c \in Callers, Moves(c)
      PROVE  BreakerTypes'
  BY <1>4, <1>5, <1>6 DEF Moves
<1>7. ASSUME NEW c \in Callers, Leaves(c) \/ Bypasses(c)
      PROVE  BreakerTypes'
  BY <1>4, <1>7 DEF Leaves, Bypasses, ReleaseProbe, breakerVars
<1>8. ASSUME NEW c \in Callers, Resets(c)
      PROVE  BreakerTypes'
  BY <1>4, <1>8 DEF Resets, ResetCircuit
<1>9. CASE Rests
  BY <1>4, <1>9 DEF Rests
<1> QED BY <1>1, <1>6, <1>7, <1>8, <1>9, StepClass
-----------------------------------------------------------------------------
(* The dials and Close. *)

\* A call that failed on a connection that does not live any more drops it.
Drops(c) ==
  /\ call[c].pc \in {"open", "request"} /\ ~Spares(c)
  /\ Invalidate(call[c].held)

\* The steps that touch the shared connection, its dials or Close.
LEMMA DialClass ==
  ASSUME Next
  PROVE  \/ UNCHANGED <<sharedVars, closeVars>>
         \/ UNCHANGED closeVars /\ \E c \in Callers : StartDial(c)
         \/ UNCHANGED <<dialing, closeVars>> /\ \E c \in Callers : Drops(c)
         \/ UNCHANGED closeVars /\ \E d \in Dials : DialWorker(d) \/ ConnectionDies(d)
         \/ \E k \in Closers : Close(k) \/ CloseStep(k)
<1>1. ASSUME NEW c \in Callers, CallStep(c)
      PROVE  \/ UNCHANGED <<sharedVars, closeVars>>
             \/ UNCHANGED closeVars /\ StartDial(c)
             \/ UNCHANGED <<dialing, closeVars>> /\ Drops(c)
  <2>1. CASE StreamFails(c)
    BY <2>1 DEF StreamFails, Drops, sharedVars
  <2>2. CASE StartDial(c)
    BY <2>2 DEF StartDial
  <2>3. CASE ~StreamFails(c) /\ ~StartDial(c)
    BY <1>1, <2>3 DEF CallStep, Loop, UseClosed, UseLive, JoinDial, DialAwaited,
         WaitFails, StreamOpens, Response, Succeed, Refused, After, TlsReturns
  <2> QED BY <2>1, <2>2, <2>3
<1>2. ASSUME NEW c \in Callers,
             Start(c) \/ StartPacket(c) \/ CallerCancels(c) \/ BudgetExpires(c)
      PROVE  UNCHANGED <<sharedVars, closeVars>>
  BY <1>2 DEF Start, StartPacket, CallerCancels, BudgetExpires
<1>3. ASSUME NEW d \in Dials, DialWorker(d) \/ ConnectionDies(d)
      PROVE  UNCHANGED closeVars
  BY <1>3 DEF DialWorker, DialReturns, SettleDial, CloseRejected, PublishDial,
              ConnectionDies
<1>4. CooldownElapses => UNCHANGED <<sharedVars, closeVars>>
  BY DEF CooldownElapses
<1> QED BY <1>1, <1>2, <1>3, <1>4 DEF Next

LEMMA DialsTyped ==
  ASSUME TypeInv, Next
  PROVE  DialTypes'
<1> USE DEF TypeInv, TypeOK, DialTypes
<1>1. CASE UNCHANGED <<sharedVars, closeVars>>
  BY <1>1 DEF sharedVars
<1>2. ASSUME NEW c \in Callers, StartDial(c)
      PROVE  DialTypes'
  <2>1. PICK d \in Dials :
          /\ dialing' = d
          /\ dial' = [e \in Dials |->
                        IF e = d THEN [NewDial EXCEPT !.phase = "dialing",
                                                      !.gen = healthGen]
                        ELSE IF Unused(e) THEN NewDial ELSE dial[e]]
    BY <1>2 DEF StartDial
  <2>2. NewDial \in DialRecord
    BY DEF NewDial, DialRecord, Phases, Links
  <2>3. [NewDial EXCEPT !.phase = "dialing", !.gen = healthGen] \in DialRecord
    BY <2>2 DEF DialRecord, Phases, BreakerTypes
  <2>4. conn' = conn
    BY <1>2 DEF StartDial
  <2>5. dial' \in [Dials -> DialRecord]
    BY <2>1, <2>2, <2>3
  <2> QED BY <2>1, <2>4, <2>5 DEF Names
<1>3. ASSUME NEW c \in Callers, Drops(c), dialing' = dialing
      PROVE  DialTypes'
  <2>1. call[c].held \in Dials
    BY <1>3 DEF Drops, CallShape
  <2>2. [dial[call[c].held] EXCEPT !.link = "closed"] \in DialRecord
    BY <2>1 DEF DialRecord, Links
  <2> QED BY <1>3, <2>1, <2>2 DEF Drops, Invalidate, UpdateDial, Names
<1>4. ASSUME NEW d \in Dials, DialWorker(d) \/ ConnectionDies(d)
      PROVE  DialTypes'
  <2>1. dial[d] \in DialRecord
    OBVIOUS
  <2>2. CASE DialReturns(d)
    <3>1. PICK result \in {"error", "connected", "no pacer"} :
            UpdateDial(d, [dial[d] EXCEPT
                 !.phase = "returned", !.err = result # "connected",
                 !.link = IF result = "error" THEN "none" ELSE "live"])
      BY <2>2 DEF DialReturns
    <3>2. [dial[d] EXCEPT
              !.phase = "returned", !.err = result # "connected",
              !.link = IF result = "error" THEN "none" ELSE "live"] \in DialRecord
      BY <2>1 DEF DialRecord, Phases, Links
    <3> QED BY <2>2, <3>1, <3>2 DEF DialReturns, UpdateDial
  <2>3. CASE SettleDial(d)
    <3>1. \A p \in Phases : [dial[d] EXCEPT !.phase = p] \in DialRecord
      BY <2>1 DEF DialRecord
    <3>2. \E p \in Phases : UpdateDial(d, [dial[d] EXCEPT !.phase = p])
      BY <2>3 DEF SettleDial, Phases
    <3>3. dial' \in [Dials -> DialRecord]
      BY <3>1, <3>2 DEF UpdateDial
    <3> QED BY <2>3, <3>3 DEF SettleDial, Names
  <2>4. CASE CloseRejected(d)
    <3>1. [dial[d] EXCEPT !.phase = "publishing", !.link = "closed"] \in DialRecord
      BY <2>1 DEF DialRecord, Phases, Links
    <3> QED BY <2>4, <3>1 DEF CloseRejected, UpdateDial
  <2>5. CASE PublishDial(d)
    <3>1. [dial[d] EXCEPT !.phase = "done"] \in DialRecord
      BY <2>1 DEF DialRecord, Phases
    <3> QED BY <2>5, <3>1 DEF PublishDial, ClearDial, UpdateDial, Names
  <2>6. CASE ConnectionDies(d)
    <3>1. [dial[d] EXCEPT !.link = "dead"] \in DialRecord
      BY <2>1 DEF DialRecord, Links
    <3> QED BY <2>6, <3>1 DEF ConnectionDies, UpdateDial
  <2> QED BY <1>4, <2>2, <2>3, <2>4, <2>5, <2>6 DEF DialWorker
<1>5. ASSUME NEW k \in Closers, Close(k) \/ CloseStep(k)
      PROVE  DialTypes'
  <2>1. CASE Close(k)
    BY <2>1 DEF Close, Names
  <2>2. CASE CloseCancels(k)
    <3>1. CASE closing = NoDial
      BY <2>2, <3>1 DEF CloseCancels
    <3>2. CASE closing # NoDial
      <4>1. closing \in Dials
        BY <3>2 DEF CloseTypes, Names
      <4>2. [dial[closing] EXCEPT !.link = "closed"] \in DialRecord
        BY <4>1 DEF DialRecord, Links
      <4> QED BY <2>2, <3>2, <4>1, <4>2 DEF CloseCancels
    <3> QED BY <3>1, <3>2
  <2>3. CASE CloseJoins(k) \/ CloseAwaits(k)
    BY <2>3 DEF CloseJoins, CloseAwaits, sharedVars
  <2> QED BY <1>5, <2>1, <2>2, <2>3 DEF CloseStep
<1> QED BY <1>1, <1>2, <1>3, <1>4, <1>5, DialClass

LEMMA CloseTyped ==
  ASSUME TypeInv, Next
  PROVE  CloseTypes'
<1> USE DEF TypeInv, TypeOK, CloseTypes
<1>1. CASE UNCHANGED closeVars
  BY <1>1 DEF closeVars
<1>2. ASSUME NEW k \in Closers, Close(k) \/ CloseStep(k)
      PROVE  CloseTypes'
  BY <1>2 DEF Close, CloseStep, CloseCancels, CloseJoins, CloseAwaits, DialTypes
<1> QED BY <1>1, <1>2, DialClass

\* Every step keeps the types.
LEMMA TypeKept ==
  ASSUME TypeInv, Next
  PROVE  TypeInv'
<1>1. calls' \in Nat /\ deaths' \in Nat
  <2>1. calls \in Nat /\ deaths \in Nat
    BY DEF TypeInv, TypeOK, CallTypes
  <2>2. ASSUME NEW c \in Callers, CallStep(c) \/ CallerCancels(c) \/ BudgetExpires(c)
        PROVE  UNCHANGED countVars
    BY <2>2 DEF CallStep, Loop, UseClosed, UseLive, JoinDial, StartDial, DialAwaited,
         WaitFails, StreamOpens, StreamFails, Response, Succeed, Refused, After,
         TlsReturns, CallerCancels, BudgetExpires
  <2>3. ASSUME NEW c \in Callers, Start(c) \/ StartPacket(c)
        PROVE  calls' = calls + 1 /\ deaths' = deaths
    BY <2>3 DEF Start, StartPacket
  <2>4. ASSUME NEW d \in Dials, DialWorker(d) \/ ConnectionDies(d)
        PROVE  calls' = calls /\ deaths' \in {deaths, deaths + 1}
    BY <2>4 DEF DialWorker, DialReturns, SettleDial, CloseRejected, PublishDial,
                ConnectionDies, countVars
  <2>5. ASSUME NEW k \in Closers, Close(k) \/ CloseStep(k)
        PROVE  UNCHANGED countVars
    BY <2>5 DEF Close, CloseStep, CloseCancels, CloseJoins, CloseAwaits
  <2>6. CooldownElapses => UNCHANGED countVars
    BY DEF CooldownElapses
  <2> QED BY <2>1, <2>2, <2>3, <2>4, <2>5, <2>6 DEF Next, countVars
<1> QED BY <1>1, CallsTyped, BreakerTyped, DialsTyped, CloseTyped
        DEF TypeInv, TypeOK, CallTypes
-----------------------------------------------------------------------------
(* The half-open probe. *)

LEMMA UpdatedCall ==
  ASSUME TypeInv, NEW c \in Callers, NEW r, Update(c, r)
  PROVE  \A e \in Callers : call'[e] = IF e = c THEN r ELSE call[e]
BY DEF TypeInv, TypeOK, CallTypes, Update

\* A fresh attempt has the next number; a prober takes a free probe.
LEMMA StartKeepsProbe ==
  ASSUME TypeInv, BreakerInv, NEW c \in Callers, Start(c)
  PROVE  BreakerInv'
<1>1. /\ probeID \in Nat /\ nextID \in Nat /\ circuit \in {"closed", "cooling", "elapsed"}
      /\ \A e \in Callers : call[e].id \in Nat
      /\ probers \subseteq Callers
  BY DEF TypeInv, TypeOK, BreakerTypes, CallTypes, CallRecord
<1>2. call[c].pc = "idle"
  BY DEF Start
<1>3. CASE CircuitOpen
  <2>1. \A e \in Callers : call'[e] = IF e = c THEN [Idle EXCEPT !.pc = "tls"] ELSE call[e]
    BY <1>3, UpdatedCall DEF Start, TurnToTLS
  <2>2. UNCHANGED breakerVars
    BY <1>3 DEF Start
  <2>3. call'[c].pc = "tls" /\ call'[c].id = 0
    BY <2>1 DEF Idle
  <2> QED BY <1>1, <1>2, <2>1, <2>2, <2>3
          DEF BreakerInv, NumbersInv, OwnersInv, ProbeOwned, InPrimary, DialsStream, breakerVars
<1>4. CASE ~CircuitOpen
  <2> DEFINE r == [Idle EXCEPT !.pc = "loop", !.id = nextID + 1, !.gen = healthGen]
  <2>1. \A e \in Callers : call'[e] = IF e = c THEN r ELSE call[e]
    BY <1>4, UpdatedCall DEF Start
  <2>2. /\ nextID' = nextID + 1
        /\ probeID' = IF circuit = "closed" THEN probeID ELSE nextID + 1
        /\ probers' = IF circuit = "closed" THEN probers \ {c} ELSE probers \cup {c}
    BY <1>4 DEF Start
  <2>3. call'[c].pc = "loop" /\ call'[c].id = nextID + 1 /\ call'[c].kind = "stream"
    BY <2>1 DEF Idle
  <2>4. circuit # "closed" => probeID = 0
    BY <1>1, <1>4 DEF CircuitOpen
  <2>5. NumbersInv'
    BY <1>1, <2>1, <2>2, <2>3 DEF BreakerInv, NumbersInv, InPrimary, DialsStream
  <2>6. OwnersInv'
    <3>1. ASSUME NEW e \in probers', InPrimary(e)', DialsStream(e)'
          PROVE  call'[e].id = probeID'
      <4>1. e \in Callers
        BY <1>1, <2>2
      <4>2. CASE e = c
        BY <2>2, <2>3, <4>2
      <4>3. CASE e # c
        <5>1. e \in probers /\ call'[e] = call[e]
          BY <2>1, <2>2, <4>1, <4>3
        <5>2. InPrimary(e) /\ DialsStream(e)
          BY <3>1, <5>1 DEF InPrimary, DialsStream
        <5>3. call[e].id = probeID /\ call[e].id # 0
          BY <4>1, <5>1, <5>2 DEF BreakerInv, NumbersInv, OwnersInv
        <5> QED BY <2>2, <2>4, <5>1, <5>3
      <4> QED BY <4>2, <4>3
    <3> QED BY <3>1 DEF OwnersInv
  <2>7. ProbeOwned'
    BY <1>1, <1>2, <2>1, <2>2, <2>3 DEF BreakerInv, ProbeOwned, InPrimary
  <2> QED BY <2>5, <2>6, <2>7 DEF BreakerInv
<1> QED BY <1>3, <1>4

\* Moving on within the QUIC phase, the owner stays the owner.
LEMMA MoveKeepsProbe ==
  ASSUME TypeInv, BreakerInv, NEW c \in Callers, Moves(c)
  PROVE  BreakerInv'
<1>1. PICK r : /\ r.pc \notin {"idle", "tls"} /\ r.id = call[c].id
               /\ r.kind = call[c].kind /\ Update(c, r)
  BY DEF Moves
<1>2. \A e \in Callers : call'[e] = IF e = c THEN r ELSE call[e]
  BY <1>1, UpdatedCall
<1>3. probers \subseteq Callers
  BY DEF TypeInv, TypeOK, BreakerTypes
<1>4. \A e \in Callers : /\ call'[e].id = call[e].id
                         /\ DialsStream(e)' <=> DialsStream(e)
                         /\ InPrimary(e)' <=> InPrimary(e)
  BY <1>1, <1>2 DEF DialsStream, InPrimary, Moves
<1>5. UNCHANGED <<probeID, nextID, probers>>
  BY DEF Moves
<1> QED BY <1>3, <1>4, <1>5 DEF BreakerInv, NumbersInv, OwnersInv, ProbeOwned

\* Who leaves the QUIC phase gives back no probe but its own.
LEMMA LeaveKeepsProbe ==
  ASSUME TypeInv, BreakerInv, NEW c \in Callers, Leaves(c)
  PROVE  BreakerInv'
<1>1. PICK r \in {Idle, [Idle EXCEPT !.pc = "tls"]} : Update(c, r)
  BY DEF Leaves, Return, TurnToTLS
<1>2. \A e \in Callers : call'[e] = IF e = c THEN r ELSE call[e]
  BY <1>1, UpdatedCall
<1>3. r.pc \in {"idle", "tls"} /\ r.id = 0
  BY <1>1 DEF Idle
<1>4. UNCHANGED <<nextID, probers>> /\ InPrimary(c)
      /\ probeID' = IF probeID = call[c].id THEN 0 ELSE probeID
  BY DEF Leaves, ReleaseProbe
<1>5. /\ probers \subseteq Callers /\ probeID \in Nat /\ nextID \in Nat
      /\ \A e \in Callers : call[e].id \in Nat
  BY DEF TypeInv, TypeOK, BreakerTypes, CallTypes, CallRecord
<1>6. NumbersInv'
  BY <1>2, <1>3, <1>4, <1>5 DEF BreakerInv, NumbersInv, InPrimary, DialsStream
<1>7. OwnersInv'
  <2>1. ASSUME NEW e \in probers', InPrimary(e)', DialsStream(e)'
        PROVE  call'[e].id = probeID'
    <3>1. e \in Callers /\ e # c /\ e \in probers
      BY <1>2, <1>3, <1>4, <1>5, <2>1 DEF InPrimary
    <3>2. call'[e] = call[e]
      BY <1>2, <3>1
    <3>3. InPrimary(e) /\ DialsStream(e)
      BY <2>1, <3>2 DEF InPrimary, DialsStream
    <3>4. call[e].id = probeID /\ call[e].id # 0
      BY <3>1, <3>3 DEF BreakerInv, NumbersInv, OwnersInv
    <3>5. call[c].id # probeID
      BY <3>1, <3>4 DEF BreakerInv, NumbersInv
    <3> QED BY <1>4, <3>2, <3>4, <3>5
  <2> QED BY <2>1 DEF OwnersInv
<1>8. ProbeOwned'
  <2>1. SUFFICES ASSUME probeID' # 0
                 PROVE  \E e \in Callers : InPrimary(e)' /\ call'[e].id = probeID'
    BY DEF ProbeOwned
  <2>2. probeID # 0 /\ probeID # call[c].id /\ probeID' = probeID
    BY <1>4, <2>1
  <2>3. PICK e \in Callers : InPrimary(e) /\ call[e].id = probeID
    BY <2>2 DEF BreakerInv, ProbeOwned
  <2>4. e # c /\ call'[e] = call[e]
    BY <1>2, <2>2, <2>3
  <2> QED BY <2>2, <2>3, <2>4 DEF InPrimary
<1> QED BY <1>6, <1>7, <1>8 DEF BreakerInv

\* Health takes the probe from everybody.
LEMMA ResetKeepsProbe ==
  ASSUME TypeInv, BreakerInv, NEW c \in Callers, Resets(c)
  PROVE  BreakerInv'
<1>1. \A e \in Callers : call'[e] = IF e = c THEN Idle ELSE call[e]
  BY UpdatedCall DEF Resets, Return
<1>2. Idle.pc = "idle" /\ Idle.id = 0
  BY DEF Idle
<1>3. probeID' = 0 /\ nextID' = nextID /\ probers' = {} /\ nextID \in Nat
      /\ \A e \in Callers : call[e].id \in Nat
  BY DEF Resets, ResetCircuit, TypeInv, TypeOK, BreakerTypes, CallTypes, CallRecord
<1>4. NumbersInv'
  BY <1>1, <1>2, <1>3 DEF BreakerInv, NumbersInv, InPrimary, DialsStream
<1> QED BY <1>3, <1>4 DEF BreakerInv, OwnersInv, ProbeOwned

\* A call without an attempt number owns nothing.
LEMMA BypassKeepsProbe ==
  ASSUME TypeInv, BreakerInv, NEW c \in Callers, Bypasses(c)
  PROVE  BreakerInv'
<1>1. PICK r \in {Idle, [Idle EXCEPT !.pc = "tls"],
                  [Idle EXCEPT !.pc = "loop", !.kind = "packet"]} : Update(c, r)
  BY DEF Bypasses, Return, TurnToTLS
<1>2. \A e \in Callers : call'[e] = IF e = c THEN r ELSE call[e]
  BY <1>1, UpdatedCall
<1>3. r.id = 0 /\ (r.pc \in {"idle", "tls"} \/ r.kind = "packet")
  <2>1. Idle.id = 0 /\ Idle.pc = "idle"
    BY DEF Idle
  <2>2. LET s == [Idle EXCEPT !.pc = "tls"] IN s.id = 0 /\ s.pc = "tls"
    BY DEF Idle
  <2>3. LET s == [Idle EXCEPT !.pc = "loop", !.kind = "packet"]
        IN  s.id = 0 /\ s.kind = "packet"
    BY DEF Idle
  <2> QED BY <1>1, <2>1, <2>2, <2>3
<1>4. UNCHANGED <<probeID, nextID, probers>> /\ ~InPrimary(c)
  BY DEF Bypasses, breakerVars
<1>5. /\ probers \subseteq Callers /\ nextID \in Nat
      /\ \A e \in Callers : call[e].id \in Nat
  BY DEF TypeInv, TypeOK, BreakerTypes, CallTypes, CallRecord
<1>6. NumbersInv'
  BY <1>2, <1>3, <1>4, <1>5 DEF BreakerInv, NumbersInv, InPrimary, DialsStream
<1>7. OwnersInv'
  BY <1>2, <1>3, <1>4, <1>5 DEF BreakerInv, OwnersInv, InPrimary, DialsStream
<1>8. ProbeOwned'
  BY <1>2, <1>4 DEF BreakerInv, ProbeOwned, InPrimary
<1> QED BY <1>6, <1>7, <1>8 DEF BreakerInv

LEMMA ProbeKept ==
  ASSUME TypeInv, BreakerInv, Next
  PROVE  BreakerInv'
<1>1. CASE Rests
  BY <1>1 DEF Rests, BreakerInv, NumbersInv, OwnersInv, ProbeOwned, InPrimary, DialsStream
<1> QED BY <1>1, StepClass, StartKeepsProbe, MoveKeepsProbe, LeaveKeepsProbe,
           ResetKeepsProbe, BypassKeepsProbe
-----------------------------------------------------------------------------
(* The health generation. *)

LEMMA CallerGenerations ==
  ASSUME TypeInv, HealthInv, Next
  PROVE  /\ \A c \in Callers : call'[c].gen <= healthGen'
         /\ \A c \in outdated'.callers : call'[c].gen < healthGen'
         /\ \/ healthGen' = healthGen /\ outdated'.dials \subseteq outdated.dials
            \/ healthGen' = healthGen + 1 /\ UNCHANGED dial
<1>1. /\ healthGen \in Nat
      /\ \A c \in Callers : call[c].gen \in Nat
      /\ outdated \in [callers : SUBSET Callers, dials : SUBSET Dials]
  BY DEF TypeInv, TypeOK, BreakerTypes, CallTypes, CallRecord
<1>2. /\ Idle.gen = 0
      /\ LET s == [Idle EXCEPT !.pc = "tls"] IN s.gen = 0
      /\ LET s == [Idle EXCEPT !.pc = "loop", !.kind = "packet"] IN s.gen = 0
  BY DEF Idle
<1>3. ASSUME NEW c \in Callers, NEW r, Update(c, r),
             r.gen \in {0, call[c].gen}, healthGen' = healthGen,
             outdated'.callers = outdated.callers
      PROVE  /\ \A e \in Callers : call'[e].gen <= healthGen'
             /\ \A e \in outdated'.callers : call'[e].gen < healthGen'
  <2>1. \A e \in Callers : call'[e] = IF e = c THEN r ELSE call[e]
    BY <1>3, UpdatedCall
  <2>2. \A e \in Callers : call'[e].gen \in {0, call[e].gen}
    BY <1>3, <2>1
  <2> QED BY <1>1, <1>3, <2>2 DEF HealthInv
<1>4. CASE \E c \in Callers : Start(c)
  <2>1. PICK c \in Callers : Start(c)
    BY <1>4
  <2>2. CASE CircuitOpen
    <3>1. UNCHANGED <<healthGen, outdated>>
      BY <2>1, <2>2 DEF Start, breakerVars
    <3>2. Update(c, [Idle EXCEPT !.pc = "tls"])
      BY <2>1, <2>2 DEF Start, TurnToTLS
    <3> QED BY <1>2, <1>3, <3>1, <3>2
  <2>3. CASE ~CircuitOpen
    <3> DEFINE r == [Idle EXCEPT !.pc = "loop", !.id = nextID + 1, !.gen = healthGen]
    <3>1. \A e \in Callers : call'[e] = IF e = c THEN r ELSE call[e]
      BY <2>1, <2>3, UpdatedCall DEF Start
    <3>2. r.gen = healthGen
      BY DEF Idle
    <3>3. healthGen' = healthGen /\ outdated' = [outdated EXCEPT !.callers = @ \ {c}]
      BY <2>1, <2>3 DEF Start
    <3>4. outdated'.callers = outdated.callers \ {c} /\ outdated'.dials = outdated.dials
      BY <1>1, <3>3
    <3> HIDE DEF r
    <3>5. \A e \in Callers : call'[e].gen <= healthGen
      BY <1>1, <3>1, <3>2 DEF HealthInv
    <3>6. \A e \in outdated.callers \ {c} : call'[e].gen < healthGen
      BY <1>1, <3>1 DEF HealthInv
    <3> QED BY <3>3, <3>4, <3>5, <3>6
  <2> QED BY <2>2, <2>3
<1>5. CASE \E c \in Callers : Moves(c)
  <2>1. PICK c \in Callers : Moves(c)
    BY <1>5
  <2>2. /\ outdated'.callers = outdated.callers
        /\ outdated'.dials \subseteq outdated.dials
    <3>1. CASE UNCHANGED outdated
      BY <3>1
    <3>2. CASE StartDial(c)
      BY <1>1, <3>2 DEF StartDial
    <3> QED BY <2>1, <3>1, <3>2 DEF Moves
  <2>3. healthGen' = healthGen /\ \E r : r.gen = call[c].gen /\ Update(c, r)
    BY <2>1 DEF Moves
  <2> QED BY <1>3, <2>2, <2>3
<1>6. CASE \E c \in Callers : Leaves(c) \/ Bypasses(c)
  <2>1. PICK c \in Callers : Leaves(c) \/ Bypasses(c)
    BY <1>6
  <2>2. UNCHANGED <<healthGen, outdated>>
    BY <2>1 DEF Leaves, Bypasses, breakerVars
  <2>3. \E r : r.gen = 0 /\ Update(c, r)
    BY <1>2, <2>1 DEF Leaves, Bypasses, Return, TurnToTLS
  <2> QED BY <1>3, <2>2, <2>3
<1>7. ASSUME NEW c \in Callers, Succeed(c) \/ Refused(c)
      PROVE  /\ \A e \in Callers : call'[e].gen < healthGen'
             /\ healthGen' = healthGen + 1 /\ UNCHANGED dial
             /\ outdated'.callers = Callers
  <2>1. \A e \in Callers : call'[e] = IF e = c THEN Idle ELSE call[e]
    BY <1>7, UpdatedCall DEF Succeed, Refused, Return
  <2>2. /\ healthGen' = healthGen + 1 /\ UNCHANGED dial
        /\ outdated'.callers = Callers
    BY <1>7 DEF Succeed, Refused, ResetCircuit, sharedVars
  <2> QED BY <1>1, <1>2, <2>1, <2>2 DEF HealthInv
<1>8. CASE Rests
  <2>1. UNCHANGED <<call, healthGen, outdated>>
    BY <1>8 DEF Rests
  <2>2. \A e \in outdated.callers : call[e].gen < healthGen
    BY DEF HealthInv
  <2>3. \A e \in Callers : call[e].gen <= healthGen
    BY DEF HealthInv
  <2> QED BY <2>1, <2>2, <2>3
<1>9. CASE \E c \in Callers : Succeed(c) \/ Refused(c)
  <2>1. \A e \in Callers : call'[e].gen \in Nat
    BY CallsTyped DEF CallRecord
  <2>2. \A e \in Callers : call'[e].gen < healthGen'
    BY <1>7, <1>9
  <2>3. healthGen' \in Nat /\ outdated'.callers \subseteq Callers
    BY <1>1, <1>7, <1>9
  <2> QED BY <1>7, <1>9, <2>1, <2>2, <2>3
<1>10. \/ \E c \in Callers : \/ Start(c) \/ Moves(c) \/ Leaves(c) \/ Bypasses(c)
                             \/ Succeed(c) \/ Refused(c)
       \/ Rests
  <2>1. ASSUME NEW c \in Callers, CallStep(c)
        PROVE  \/ Moves(c) \/ Leaves(c) \/ Bypasses(c)
               \/ Succeed(c) \/ Refused(c)
    <3>1. CASE Resets(c)
      <4>1. healthGen' = healthGen + 1
        BY <3>1 DEF Resets, ResetCircuit
      <4>2. healthGen' # healthGen
        BY <1>1, <4>1
      <4> QED BY <2>1, <4>2 DEF CallStep, Loop, UseClosed, UseLive, JoinDial, StartDial,
              DialAwaited, WaitFails, ConnectionFailed, StreamOpens, StreamFails,
              Response, After, TlsReturns, Leave, PrimaryFailed, breakerVars
    <3> QED BY <2>1, <3>1, CallClass
  <2>2. ASSUME NEW c \in Callers,
               StartPacket(c) \/ CallerCancels(c) \/ BudgetExpires(c)
        PROVE  Moves(c) \/ Leaves(c) \/ Bypasses(c)
    <3>1. healthGen' = healthGen
      BY <2>2 DEF StartPacket, CallerCancels, BudgetExpires, breakerVars
    <3>2. ~Resets(c)
      BY <1>1, <3>1 DEF Resets, ResetCircuit
    <3> QED BY <2>2, <3>2, CallClass
  <2> QED BY <2>1, <2>2, OtherClass DEF Next
<1> QED BY <1>4, <1>5, <1>6, <1>8, <1>9, <1>10, <1>3

\* What the steps of a dial leave of its record.
Becomes(d, r) ==
  /\ UpdateDial(d, r) /\ r.gen = dial[d].gen
  /\ \A e \in Dials : dial'[e] = IF e = d THEN r ELSE dial[e]

LEMMA Redialed ==
  ASSUME TypeInv, NEW d \in Dials, NEW r, UpdateDial(d, r), r.gen = dial[d].gen
  PROVE  Becomes(d, r)
BY DEF TypeInv, TypeOK, DialTypes, UpdateDial, Becomes

LEMMA ReturnsRecord ==
  ASSUME TypeInv, NEW d \in Dials, DialReturns(d)
  PROVE  \E r : Becomes(d, r) /\ r.phase = "returned"
<1>1. dial[d] \in DialRecord
  BY DEF TypeInv, TypeOK, DialTypes
<1>2. PICK result \in {"error", "connected", "no pacer"} :
        UpdateDial(d, [dial[d] EXCEPT
             !.phase = "returned", !.err = result # "connected",
             !.link = IF result = "error" THEN "none" ELSE "live"])
  BY DEF DialReturns
<1> DEFINE r == [dial[d] EXCEPT
                   !.phase = "returned", !.err = result # "connected",
                   !.link = IF result = "error" THEN "none" ELSE "live"]
<1>3. r.gen = dial[d].gen /\ r.phase = "returned"
  BY <1>1 DEF DialRecord
<1>4. UpdateDial(d, r)
  BY <1>2
<1> HIDE DEF r
<1> QED BY <1>3, <1>4, Redialed

LEMMA SettleRecord ==
  ASSUME TypeInv, NEW d \in Dials, SettleDial(d)
  PROVE  \E r : /\ Becomes(d, r) /\ r.link = dial[d].link
               /\ r.phase = IF Accepted(d) \/ dial[d].link = "none"
                            THEN "publishing" ELSE "rejecting"
<1>1. dial[d] \in DialRecord
  BY DEF TypeInv, TypeOK, DialTypes
<1> DEFINE p == IF Accepted(d) \/ dial[d].link = "none" THEN "publishing" ELSE "rejecting"
           r == [dial[d] EXCEPT !.phase = p]
<1>2. UpdateDial(d, r)
  BY DEF SettleDial
<1>3. r.gen = dial[d].gen /\ r.link = dial[d].link /\ r.phase = p
  BY <1>1 DEF DialRecord
<1> HIDE DEF r
<1> QED BY <1>2, <1>3, Redialed

LEMMA RejectRecord ==
  ASSUME TypeInv, NEW d \in Dials, CloseRejected(d)
  PROVE  \E r : Becomes(d, r) /\ r.phase = "publishing" /\ r.link = "closed"
<1>1. dial[d] \in DialRecord
  BY DEF TypeInv, TypeOK, DialTypes
<1> DEFINE r == [dial[d] EXCEPT !.phase = "publishing", !.link = "closed"]
<1>2. UpdateDial(d, r)
  BY DEF CloseRejected
<1>3. r.gen = dial[d].gen /\ r.link = "closed" /\ r.phase = "publishing"
  BY <1>1 DEF DialRecord
<1> HIDE DEF r
<1> QED BY <1>2, <1>3, Redialed

LEMMA PublishRecord ==
  ASSUME TypeInv, NEW d \in Dials, PublishDial(d)
  PROVE  \E r : Becomes(d, r) /\ r.phase = "done" /\ r.link = dial[d].link
<1>1. dial[d] \in DialRecord
  BY DEF TypeInv, TypeOK, DialTypes
<1> DEFINE r == [dial[d] EXCEPT !.phase = "done"]
<1>2. UpdateDial(d, r)
  BY DEF PublishDial
<1>3. r.gen = dial[d].gen /\ r.link = dial[d].link /\ r.phase = "done"
  BY <1>1 DEF DialRecord
<1> HIDE DEF r
<1> QED BY <1>2, <1>3, Redialed

LEMMA DeathRecord ==
  ASSUME TypeInv, NEW d \in Dials, ConnectionDies(d)
  PROVE  \E r : Becomes(d, r) /\ r.phase = dial[d].phase /\ r.link = "dead"
<1>1. dial[d] \in DialRecord
  BY DEF TypeInv, TypeOK, DialTypes
<1> DEFINE r == [dial[d] EXCEPT !.link = "dead"]
<1>2. UpdateDial(d, r)
  BY DEF ConnectionDies
<1>3. r.gen = dial[d].gen /\ r.link = "dead" /\ r.phase = dial[d].phase
  BY <1>1 DEF DialRecord
<1> HIDE DEF r
<1> QED BY <1>2, <1>3, Redialed

LEMMA DropRecord ==
  ASSUME TypeInv, NEW c \in Callers, Drops(c)
  PROVE  /\ call[c].held \in Dials /\ dial[call[c].held].link # "live"
         /\ \E r : /\ Becomes(call[c].held, r) /\ r.link = "closed"
                  /\ r.phase = dial[call[c].held].phase
<1>1. call[c].held \in Dials
  BY DEF Drops, TypeInv, CallShape
<1> DEFINE d == call[c].held
           r == [dial[d] EXCEPT !.link = "closed"]
<1>2. dial[d] \in DialRecord
  BY <1>1 DEF TypeInv, TypeOK, DialTypes
<1>3. UpdateDial(d, r) /\ dial[d].link # "live"
  BY DEF Drops, Invalidate, Spares
<1>4. r.gen = dial[d].gen /\ r.link = "closed" /\ r.phase = dial[d].phase
  BY <1>2 DEF DialRecord
<1> HIDE DEF r
<1> QED BY <1>1, <1>3, <1>4, Redialed

\* A new dial carries the current generation and is not outdated.
LEMMA DialGenerations ==
  ASSUME TypeInv, HealthInv, Next, healthGen' = healthGen
  PROVE  \A d \in Dials : \/ dial'[d].gen \in {0, dial[d].gen}
                          \/ dial'[d].gen = healthGen /\ d \notin outdated'.dials
<1>1. /\ dial \in [Dials -> DialRecord]
      /\ outdated \in [callers : SUBSET Callers, dials : SUBSET Dials]
  BY DEF TypeInv, TypeOK, BreakerTypes, DialTypes
<1>2. ASSUME NEW d \in Dials, NEW r, UpdateDial(d, r), r.gen = dial[d].gen
      PROVE  \A e \in Dials : dial'[e].gen = dial[e].gen
  BY <1>1, <1>2 DEF UpdateDial
<1>3. ASSUME NEW c \in Callers, StartDial(c)
      PROVE  \A d \in Dials : \/ dial'[d].gen \in {0, dial[d].gen}
                              \/ dial'[d].gen = healthGen /\ d \notin outdated'.dials
  <2>1. PICK d \in Dials :
          /\ outdated' = [outdated EXCEPT !.dials = @ \ {d}]
          /\ dial' = [e \in Dials |->
                        IF e = d THEN [NewDial EXCEPT !.phase = "dialing",
                                                      !.gen = healthGen]
                        ELSE IF Unused(e) THEN NewDial ELSE dial[e]]
    BY <1>3 DEF StartDial
  <2>2. NewDial.gen = 0
        /\ LET s == [NewDial EXCEPT !.phase = "dialing", !.gen = healthGen]
           IN  s.gen = healthGen
    BY DEF NewDial
  <2>3. outdated'.dials = outdated.dials \ {d}
    BY <1>1, <2>1
  <2> QED BY <2>1, <2>2, <2>3
<1>4. ASSUME NEW c \in Callers, Drops(c)
      PROVE  \A d \in Dials : dial'[d].gen = dial[d].gen
  <2>1. call[c].held \in Dials
    BY <1>4 DEF Drops, TypeInv, CallShape
  <2>2. \E r : UpdateDial(call[c].held, r) /\ r.gen = dial[call[c].held].gen
    BY <1>4, DropRecord DEF Becomes
  <2> QED BY <1>2, <2>1, <2>2
<1>5. ASSUME NEW d \in Dials, DialWorker(d) \/ ConnectionDies(d)
      PROVE  \A e \in Dials : dial'[e].gen = dial[e].gen
  <2>1. \E r : UpdateDial(d, r) /\ r.gen = dial[d].gen
    BY <1>5, ReturnsRecord, SettleRecord, RejectRecord, PublishRecord, DeathRecord
       DEF DialWorker, Becomes
  <2> QED BY <1>2, <2>1
<1>6. ASSUME NEW k \in Closers, Close(k) \/ CloseStep(k)
      PROVE  \A d \in Dials : dial'[d].gen = dial[d].gen
  BY <1>1, <1>6 DEF Close, CloseStep, CloseCancels, CloseJoins, CloseAwaits,
       sharedVars, DialRecord
<1>7. CASE UNCHANGED sharedVars
  BY <1>7 DEF sharedVars
<1> QED BY <1>3, <1>4, <1>5, <1>6, <1>7, DialClass

LEMMA HealthKept ==
  ASSUME TypeInv, HealthInv, Next
  PROVE  HealthInv'
<1>1. /\ healthGen \in Nat
      /\ \A d \in Dials : dial[d].gen \in Nat
      /\ outdated' \in [callers : SUBSET Callers, dials : SUBSET Dials]
      /\ outdated \in [callers : SUBSET Callers, dials : SUBSET Dials]
  BY TypeKept DEF TypeInv, TypeOK, BreakerTypes, DialTypes, DialRecord
<1>2. /\ \A d \in Dials : dial[d].gen <= healthGen
      /\ \A d \in outdated.dials : dial[d].gen < healthGen
  BY DEF HealthInv
<1>3. \/ healthGen' = healthGen /\ outdated'.dials \subseteq outdated.dials
      \/ healthGen' = healthGen + 1 /\ UNCHANGED dial
  BY CallerGenerations
<1>4. CASE healthGen' = healthGen /\ outdated'.dials \subseteq outdated.dials
  <2>1. \A d \in Dials : \/ dial'[d].gen \in {0, dial[d].gen}
                         \/ dial'[d].gen = healthGen /\ d \notin outdated'.dials
    BY <1>4, DialGenerations
  <2>2. \A d \in Dials : dial'[d].gen <= healthGen'
    BY <1>1, <1>2, <1>4, <2>1
  <2>3. \A d \in outdated'.dials : dial'[d].gen < healthGen'
    BY <1>1, <1>2, <1>4, <2>1
  <2> QED BY <2>2, <2>3, CallerGenerations DEF HealthInv
<1>5. CASE healthGen' = healthGen + 1 /\ UNCHANGED dial
  <2>1. \A d \in Dials : dial'[d].gen < healthGen' /\ dial'[d].gen <= healthGen'
    BY <1>1, <1>2, <1>5
  <2> QED BY <1>1, <2>1, CallerGenerations DEF HealthInv
<1> QED BY <1>3, <1>4, <1>5
-----------------------------------------------------------------------------
(* The dial in flight, its connection, and Close. *)

LEMMA StartDialKeeps ==
  ASSUME TypeInv, DialInv, CloseInv, NEW c \in Callers, StartDial(c), UNCHANGED closeVars
  PROVE  DialInv' /\ CloseInv'
<1>1. PICK d \in Dials :
        /\ Unused(d) /\ dialing' = d
        /\ dial' = [e \in Dials |->
                      IF e = d THEN [NewDial EXCEPT !.phase = "dialing",
                                                    !.gen = healthGen]
                      ELSE IF Unused(e) THEN NewDial ELSE dial[e]]
  BY DEF StartDial
<1>2. /\ NewDial.phase = "none" /\ NewDial.link = "none"
      /\ LET s == [NewDial EXCEPT !.phase = "dialing", !.gen = healthGen]
         IN  s.phase = "dialing" /\ s.link = "none"
  BY DEF NewDial
<1>3. /\ dial'[d].phase = "dialing" /\ dial'[d].link = "none"
      /\ \A e \in Dials \ {d} : \/ dial'[e] = dial[e]
                                \/ /\ dial'[e].phase = "none" /\ dial'[e].link = "none"
                                   /\ Unused(e)
  BY <1>1, <1>2
<1>4. /\ ~closed /\ ~Usable(conn) /\ dialing = NoDial /\ conn' = conn
      /\ UNCHANGED <<closed, canceled, closeDone, closer, closing>>
  BY DEF StartDial, NoDialInFlight, closeVars
<1>5. NoDial \notin Dials /\ \A e \in Dials : ~Working(e)
  BY <1>4, ClientAssumption DEF DialInv, InFlight
<1>6. d # conn /\ d # closing
  BY <1>1 DEF Unused
<1>7. InFlight'
  BY <1>1, <1>3, <1>5 DEF InFlight, Working
<1>8. Unsettled'
  BY <1>3, <1>4, <1>5, <1>6 DEF Unsettled, Working, Usable
<1>9. Owned'
  <2>1. Owned
    BY DEF DialInv
  <2> QED BY <1>3, <1>4, <1>6, <2>1 DEF Owned
<1>10. CloseInv'
  BY <1>4 DEF CloseInv
<1> QED BY <1>7, <1>8, <1>9, <1>10 DEF DialInv

LEMMA DropKeeps ==
  ASSUME TypeInv, DialInv, CloseInv, NEW c \in Callers, Drops(c),
         UNCHANGED <<dialing, closeVars>>
  PROVE  DialInv' /\ CloseInv'
<1> DEFINE d == call[c].held
<1>1. PICK r : Becomes(d, r) /\ r.link = "closed" /\ r.phase = dial[d].phase
  BY DropRecord
<1>2. d \in Dials /\ dial[d].link # "live"
  BY DropRecord
<1>3. conn' = IF conn = d THEN NoDial ELSE conn
  BY DEF Drops, Invalidate
<1>4. dialing' = dialing /\ UNCHANGED <<closed, canceled, closeDone, closer, closing>>
  BY DEF closeVars
<1> HIDE DEF d
<1>5. \A e \in Dials : /\ dial'[e].phase = dial[e].phase
                       /\ dial'[e].link = dial[e].link \/ (e = d /\ dial'[e].link = "closed")
  BY <1>1 DEF Becomes
<1>6. InFlight'
  BY <1>4, <1>5 DEF DialInv, InFlight, Working
<1>7. Unsettled'
  <2>1. Unsettled /\ NoDial \notin Dials
    BY ClientAssumption DEF DialInv
  <2> QED BY <1>3, <1>4, <1>5, <2>1 DEF Unsettled, Usable
<1>8. Owned'
  <2>1. Owned
    BY DEF DialInv
  <2> QED BY <1>2, <1>3, <1>4, <1>5, <2>1 DEF Owned
<1>9. CloseInv'
  BY <1>3, <1>4, <1>5 DEF CloseInv, Working
<1> QED BY <1>6, <1>7, <1>8, <1>9 DEF DialInv

LEMMA DialStepKeeps ==
  ASSUME TypeInv, DialInv, CloseInv, NEW d \in Dials,
         DialWorker(d) \/ ConnectionDies(d), UNCHANGED closeVars
  PROVE  DialInv' /\ CloseInv'
<1> USE DEF Becomes
<1>1. UNCHANGED <<closed, canceled, closeDone, closer, closing>>
  BY DEF closeVars
<1>2. InFlight /\ Unsettled /\ Owned /\ NoDial \notin Dials
  BY ClientAssumption DEF DialInv
<1>3. CASE DialReturns(d)
  <2>1. PICK r : Becomes(d, r) /\ r.phase = "returned"
    BY <1>3, ReturnsRecord
  <2>2. conn' = conn /\ dialing' = dialing /\ dial[d].phase = "dialing"
    BY <1>3 DEF DialReturns
  <2>3. InFlight'
    BY <1>2, <2>1, <2>2 DEF InFlight, Working
  <2>4. Unsettled'
    BY <1>1, <1>2, <2>1, <2>2 DEF Unsettled, Usable
  <2>5. Owned'
    BY <1>1, <1>2, <2>1, <2>2 DEF Owned
  <2>6. CloseInv'
    BY <1>1, <2>1, <2>2 DEF CloseInv, Working
  <2> QED BY <2>3, <2>4, <2>5, <2>6 DEF DialInv
<1>4. CASE SettleDial(d)
  <2>1. PICK r : /\ Becomes(d, r) /\ r.link = dial[d].link
                 /\ r.phase = IF Accepted(d) \/ dial[d].link = "none"
                              THEN "publishing" ELSE "rejecting"
    BY <1>4, SettleRecord
  <2>2. /\ conn' = IF Accepted(d) THEN d ELSE conn
        /\ dialing' = dialing /\ dial[d].phase = "returned"
    BY <1>4 DEF SettleDial
  <2>3. InFlight'
    BY <1>2, <2>1, <2>2 DEF InFlight, Working
  <2>4. \A e \in Dials \ {d} : dial[e].phase \notin {"dialing", "returned", "rejecting"}
    BY <1>2, <2>2 DEF InFlight, Working
  <2>5. Unsettled'
    BY <1>1, <1>2, <2>1, <2>2, <2>4 DEF Unsettled, Usable
  <2>6. \A e \in Dials \ {d} : dial[e].link = "live" => closing = e /\ ~canceled
    BY <1>2, <2>2, <2>4 DEF Owned, Unsettled, Usable
  <2>7. Owned'
    BY <1>1, <2>1, <2>2, <2>6 DEF Owned
  <2>8. CloseInv'
    BY <1>1, <2>1, <2>2 DEF CloseInv, Working, Accepted
  <2> QED BY <2>3, <2>5, <2>7, <2>8 DEF DialInv
<1>5. CASE CloseRejected(d)
  <2>1. PICK r : Becomes(d, r) /\ r.phase = "publishing" /\ r.link = "closed"
    BY <1>5, RejectRecord
  <2>2. conn' = conn /\ dialing' = dialing /\ dial[d].phase = "rejecting"
    BY <1>5 DEF CloseRejected
  <2>3. InFlight'
    BY <1>2, <2>1, <2>2 DEF InFlight, Working
  <2>4. Unsettled'
    BY <1>1, <1>2, <2>1, <2>2 DEF Unsettled, Usable
  <2>5. Owned'
    BY <1>1, <1>2, <2>1, <2>2 DEF Owned
  <2>6. CloseInv'
    BY <1>1, <2>1, <2>2 DEF CloseInv, Working
  <2> QED BY <2>3, <2>4, <2>5, <2>6 DEF DialInv
<1>6. CASE PublishDial(d)
  <2>1. PICK r : Becomes(d, r) /\ r.phase = "done" /\ r.link = dial[d].link
    BY <1>6, PublishRecord
  <2>2. /\ conn' = conn /\ dial[d].phase = "publishing"
        /\ dialing' = IF dialing = d THEN NoDial ELSE dialing
    BY <1>6 DEF PublishDial, ClearDial
  <2>3. dialing = d /\ dialing' = NoDial
    BY <1>2, <2>2 DEF InFlight, Working
  <2>4. InFlight'
    BY <1>2, <2>1, <2>3 DEF InFlight, Working
  <2>5. Unsettled'
    BY <1>1, <1>2, <2>1, <2>2 DEF Unsettled, Usable
  <2>6. Owned'
    BY <1>1, <1>2, <2>1, <2>2 DEF Owned
  <2>7. CloseInv'
    BY <1>1, <2>1, <2>2 DEF CloseInv, Working
  <2> QED BY <2>4, <2>5, <2>6, <2>7 DEF DialInv
<1>7. CASE ConnectionDies(d)
  <2>1. PICK r : Becomes(d, r) /\ r.phase = dial[d].phase /\ r.link = "dead"
    BY <1>7, DeathRecord
  <2>2. conn' = conn /\ dialing' = dialing
    BY <1>7 DEF ConnectionDies
  <2>3. InFlight'
    BY <1>2, <2>1, <2>2 DEF InFlight, Working
  <2>4. Unsettled'
    BY <1>1, <1>2, <2>1, <2>2 DEF Unsettled, Usable
  <2>5. Owned'
    BY <1>1, <1>2, <2>1, <2>2 DEF Owned
  <2>6. CloseInv'
    BY <1>1, <2>1, <2>2 DEF CloseInv, Working
  <2> QED BY <2>3, <2>4, <2>5, <2>6 DEF DialInv
<1> QED BY <1>3, <1>4, <1>5, <1>6, <1>7 DEF DialWorker

LEMMA CloseKeeps ==
  ASSUME TypeInv, DialInv, CloseInv, NEW k \in Closers, Close(k) \/ CloseStep(k)
  PROVE  DialInv' /\ CloseInv'
<1>1. /\ InFlight /\ Unsettled /\ Owned /\ NoDial \notin Dials
      /\ dial \in [Dials -> DialRecord] /\ conn \in Names /\ closing \in Names
      /\ closer \in [Closers -> {"idle", "cancel", "join", "barrier", "returned"}]
  BY ClientAssumption DEF DialInv, TypeInv, TypeOK, DialTypes, CloseTypes
<1>2. CASE Close(k) /\ closed
  <2>1. /\ UNCHANGED <<closed, closing, conn, dialing, dial, canceled, closeDone>>
        /\ \A j \in Closers : closer'[j] = IF j = k THEN "barrier" ELSE closer[j]
    BY <1>1, <1>2 DEF Close
  <2>2. DialInv'
    BY <1>1, <2>1 DEF DialInv, InFlight, Unsettled, Owned, Working, Usable
  <2>3. CloseInv'
    BY <1>2, <2>1 DEF CloseInv, Working
  <2> QED BY <2>2, <2>3
<1>3. CASE Close(k) /\ ~closed
  <2>1. /\ closed' = TRUE /\ closing' = conn /\ conn' = NoDial
        /\ UNCHANGED <<dialing, dial, canceled, closeDone>>
        /\ \A j \in Closers : closer'[j] = IF j = k THEN "cancel" ELSE closer[j]
    BY <1>1, <1>3 DEF Close
  <2>2. ~canceled /\ ~closeDone /\ closing = NoDial
        /\ \A j \in Closers : closer[j] = "idle"
    BY <1>3 DEF CloseInv
  <2>3. InFlight'
    BY <1>1, <2>1 DEF InFlight, Working
  <2>4. Unsettled'
    BY <1>1, <2>1 DEF Unsettled, Usable
  <2>5. Owned'
    BY <1>1, <2>1, <2>2 DEF Owned
  <2>6. CloseInv'
    BY <2>1, <2>2 DEF CloseInv
  <2> QED BY <2>3, <2>4, <2>5, <2>6 DEF DialInv
<1>4. CASE CloseCancels(k)
  <2>1. /\ canceled' = TRUE /\ UNCHANGED <<conn, dialing, closed, closeDone, closing>>
        /\ \A j \in Closers : closer'[j] = IF j = k THEN "join" ELSE closer[j]
    BY <1>1, <1>4 DEF CloseCancels
  <2>2. closed /\ conn = NoDial
    BY <1>4 DEF CloseCancels, CloseInv
  <2>3. \A d \in Dials : /\ dial'[d].phase = dial[d].phase
                         /\ dial'[d].link = IF d = closing THEN "closed" ELSE dial[d].link
    BY <1>1, <1>4 DEF CloseCancels, DialRecord
  <2>4. InFlight'
    BY <1>1, <2>1, <2>3 DEF InFlight, Working
  <2>5. Unsettled'
    BY <1>1, <2>1, <2>2, <2>3 DEF Unsettled, Usable
  <2>6. Owned'
    BY <1>1, <2>1, <2>2, <2>3 DEF Owned
  <2>7. CloseInv'
    BY <2>1, <2>2, <2>3 DEF CloseInv, Working
  <2> QED BY <2>4, <2>5, <2>6, <2>7 DEF DialInv
<1>5. CASE CloseJoins(k)
  <2>1. /\ closeDone' = TRUE
        /\ UNCHANGED <<conn, dialing, dial, closed, canceled, closing>>
        /\ \A j \in Closers : closer'[j] = IF j = k THEN "returned" ELSE closer[j]
    BY <1>1, <1>5 DEF CloseJoins, sharedVars
  <2>2. canceled /\ \A d \in Dials : ~Working(d)
    BY <1>5 DEF CloseJoins, WorkersGone, CloseInv, Working
  <2>3. DialInv'
    BY <1>1, <2>1 DEF DialInv, InFlight, Unsettled, Owned, Working, Usable
  <2>4. CloseInv'
    BY <2>1, <2>2 DEF CloseInv, Working
  <2> QED BY <2>3, <2>4
<1>6. CASE CloseAwaits(k)
  <2>1. /\ closeDone /\ UNCHANGED <<conn, dialing, dial, closed, canceled, closeDone, closing>>
        /\ \A j \in Closers : closer'[j] = IF j = k THEN "returned" ELSE closer[j]
    BY <1>1, <1>6 DEF CloseAwaits, BarrierOpen, sharedVars
  <2>2. DialInv'
    BY <1>1, <2>1 DEF DialInv, InFlight, Unsettled, Owned, Working, Usable
  <2>3. CloseInv'
    BY <2>1 DEF CloseInv, Working
  <2> QED BY <2>2, <2>3
<1> QED BY <1>2, <1>3, <1>4, <1>5, <1>6 DEF CloseStep

LEMMA DialsKept ==
  ASSUME TypeInv, DialInv, CloseInv, Next
  PROVE  DialInv' /\ CloseInv'
<1>1. CASE UNCHANGED <<sharedVars, closeVars>>
  BY <1>1 DEF DialInv, InFlight, Unsettled, Owned, Working, Usable, CloseInv,
              sharedVars, closeVars
<1> QED BY <1>1, DialClass, StartDialKeeps, DropKeeps, DialStepKeeps, CloseKeeps
-----------------------------------------------------------------------------
(* The theorems. *)

LEMMA Initially ==
  ASSUME Init
  PROVE  IInv
<1> USE DEF Init
<1>1. Idle \in CallRecord /\ Idle.pc = "idle" /\ Idle.id = 0 /\ Idle.gen = 0
  BY IdleShaped DEF WellShaped, Idle
<1>2. NewDial \in DialRecord /\ NewDial.phase = "none" /\ NewDial.link = "none"
      /\ NewDial.gen = 0
  BY DEF NewDial, DialRecord, Phases, Links
<1>3. TypeInv
  BY <1>1, <1>2 DEF TypeInv, TypeOK, BreakerTypes, DialTypes, CloseTypes, CallTypes,
                    CallShape, Names
<1>4. BreakerInv
  BY <1>1 DEF BreakerInv, NumbersInv, OwnersInv, ProbeOwned, InPrimary, DialsStream
<1>5. HealthInv
  BY <1>1, <1>2 DEF HealthInv
<1>6. DialInv
  BY <1>2, ClientAssumption DEF DialInv, InFlight, Unsettled, Owned, Working
<1>7. CloseInv
  BY DEF CloseInv
<1> QED BY <1>3, <1>4, <1>5, <1>6, <1>7 DEF IInv

LEMMA StepKeeps ==
  ASSUME IInv, [Next]_vars
  PROVE  IInv'
<1>1. CASE Next
  BY <1>1, TypeKept, ProbeKept, HealthKept, DialsKept DEF IInv
<1>2. CASE UNCHANGED vars
  BY <1>2 DEF vars, breakerVars, sharedVars, closeVars, countVars, IInv, TypeInv,
     TypeOK, BreakerTypes, DialTypes, CloseTypes, CallTypes, CallShape, BreakerInv,
     NumbersInv, OwnersInv, ProbeOwned, InPrimary, DialsStream, HealthInv, DialInv,
     InFlight, Unsettled, Owned, Working, Usable, CloseInv
<1> QED BY <1>1, <1>2

\* The strengthening is an invariant of the client, for any number of callers,
\* Close calls and dials.
THEOREM Invariance == Safety => []IInv
<1> QED BY Initially, StepKeeps, PTL DEF Safety

\* The types, and that a call runs the retry loop at most twice.
THEOREM Typed == Safety => []TypeOK
<1>1. IInv => TypeOK
  BY DEF IInv, TypeInv
<1> QED BY <1>1, Invariance, PTL

\* From the end of the cooldown until QUIC is healthy again there is one probe
\* and one caller that will release it (shouldTryPrimary, primaryProbeFinished).
THEOREM OneProbe == Safety => []ProbeExact
<1>1. IInv => ProbeExact
  <2>1. SUFFICES ASSUME IInv PROVE SingleProbe /\ ProbeOwned
    BY DEF ProbeExact
  <2>2. SingleProbe
    BY <2>1 DEF IInv, TypeInv, TypeOK, BreakerTypes, BreakerInv, NumbersInv, OwnersInv,
                SingleProbe
  <2> QED BY <2>1, <2>2 DEF IInv, BreakerInv
<1> QED BY <1>1, Invariance, PTL

\* One physical dial at a time, and every live connection has somebody who will
\* close it (connection, runQUICDial, Close).
THEOREM OneDial == Safety => []OneConnection
<1>1. IInv => OneConnection
  BY DEF IInv, DialInv, InFlight, Owned, OneConnection
<1> QED BY <1>1, Invariance, PTL

\* When any Close call has returned, the dial workers are gone and no
\* connection of the client lives (Close, closeDone).
THEOREM CloseIsBarrier == Safety => []CloseBarrier
<1>1. IInv => CloseBarrier
  <2>1. SUFFICES ASSUME IInv, NEW k \in Closers, closer[k] = "returned"
                 PROVE  /\ conn = NoDial
                        /\ \A d \in Dials : ~Working(d) /\ dial[d].link # "live"
    BY DEF CloseBarrier
  <2>2. conn = NoDial /\ canceled /\ NoDial \notin Dials /\ \A d \in Dials : ~Working(d)
    BY <2>1, ClientAssumption DEF IInv, CloseInv
  <2> QED BY <2>1, <2>2 DEF IInv, DialInv, Owned, Working
<1> QED BY <1>1, Invariance, PTL

\* Only After turns a call behind its loop to TLS.
LEMMA OnlyAfterTurns ==
  ASSUME TypeInv, Next, NEW c \in Callers, call[c].pc = "after", call'[c].pc = "tls"
  PROVE  After(c)
<1>1. call[c] \in CallRecord
  BY DEF TypeInv, TypeOK, CallTypes
<1>2. ~Rests
  BY DEF Rests
<1>3. ASSUME NEW e \in Callers, NEW r, Update(e, r)
      PROVE  e = c /\ r.pc = "tls"
  BY <1>3, UpdatedCall
<1>4. ASSUME NEW e \in Callers, Start(e)
      PROVE  FALSE
  <2>1. e = c
    BY <1>3, <1>4 DEF Start, TurnToTLS
  <2> QED BY <1>4, <2>1 DEF Start
<1>5. ASSUME NEW e \in Callers,
             CallStep(e) \/ StartPacket(e) \/ CallerCancels(e) \/ BudgetExpires(e)
      PROVE  e = c
  BY <1>3, <1>5, CallClass DEF Moves, Leaves, Resets, Bypasses, Return, TurnToTLS
<1>6. ~StartPacket(c)
  BY DEF StartPacket
<1>7. ~CallerCancels(c) /\ ~BudgetExpires(c)
  <2>1. ASSUME NEW x, Update(c, [call[c] EXCEPT !.ctx = x])
        PROVE  FALSE
    <3>1. LET r == [call[c] EXCEPT !.ctx = x] IN r.pc = "after"
      BY <1>1 DEF CallRecord
    <3> QED BY <1>3, <2>1, <3>1
  <2> QED BY <2>1 DEF CallerCancels, BudgetExpires
<1>8. CallStep(c) => After(c)
  BY DEF CallStep, Loop, UseClosed, UseLive, JoinDial, StartDial, DialAwaited, WaitFails,
         StreamOpens, StreamFails, Response, Succeed, Refused, TlsReturns
<1> QED BY <1>2, <1>4, <1>5, <1>6, <1>7, <1>8, OtherClass DEF Next

\* Only PublishDial finishes a dial whose result was settled.
LEMMA OnlyPublishFinishes ==
  ASSUME TypeInv, Next, NEW d \in Dials,
         dial[d].phase = "publishing", dial'[d].phase = "done"
  PROVE  PublishDial(d)
<1>1. CASE UNCHANGED sharedVars
  BY <1>1 DEF sharedVars
<1>2. ASSUME NEW c \in Callers, StartDial(c)
      PROVE  FALSE
  <2>1. LET s == [NewDial EXCEPT !.phase = "dialing", !.gen = healthGen]
        IN  s.phase = "dialing" /\ NewDial.phase = "none"
    BY DEF NewDial
  <2>2. dial'[d] \in {[NewDial EXCEPT !.phase = "dialing", !.gen = healthGen],
                      NewDial, dial[d]}
    BY <1>2 DEF StartDial
  <2> QED BY <2>1, <2>2
<1>3. ASSUME NEW c \in Callers, Drops(c)
      PROVE  FALSE
  BY <1>3, DropRecord DEF Becomes
<1>4. ASSUME NEW e \in Dials, DialWorker(e) \/ ConnectionDies(e)
      PROVE  PublishDial(d)
  <2>1. e = d
    BY <1>4, ReturnsRecord, SettleRecord, RejectRecord, PublishRecord, DeathRecord
       DEF DialWorker, Becomes
  <2>2. ~ConnectionDies(d)
    BY DeathRecord DEF Becomes
  <2>3. ~DialReturns(d) /\ ~SettleDial(d) /\ ~CloseRejected(d)
    BY DEF DialReturns, SettleDial, CloseRejected
  <2> QED BY <1>4, <2>1, <2>2, <2>3 DEF DialWorker
<1>5. ASSUME NEW k \in Closers, Close(k) \/ CloseStep(k)
      PROVE  FALSE
  <2>1. dial[d] \in DialRecord /\ dial \in [Dials -> DialRecord]
    BY DEF TypeInv, TypeOK, DialTypes
  <2>2. dial'[d].phase = dial[d].phase
    BY <1>5, <2>1 DEF Close, CloseStep, CloseCancels, CloseJoins, CloseAwaits, sharedVars,
                      DialRecord
  <2> QED BY <2>2
<1> QED BY <1>1, <1>2, <1>3, <1>4, <1>5, DialClass

\* A failure that began before the last authenticated answer leaves the circuit
\* as it is, whether it comes from a call or from a dial (primaryFailed and
\* runQUICDial compare generations).
THEOREM StaleFailuresIgnored == Safety => HealthSupersedes
<1> DEFINE A == /\ \A c \in outdated.callers :
                     call[c].pc = "after" /\ call'[c].pc = "tls" => circuit' = circuit
                /\ \A d \in outdated.dials :
                     dial[d].phase = "publishing" /\ dial'[d].phase = "done"
                       => circuit' = circuit
<1>1. ASSUME IInv, Next PROVE A
  <2>1. /\ TypeInv /\ HealthInv /\ healthGen \in Nat
        /\ outdated.callers \subseteq Callers /\ outdated.dials \subseteq Dials
        /\ \A c \in Callers : call[c].gen \in Nat
        /\ \A d \in Dials : dial[d].gen \in Nat
    BY <1>1 DEF IInv, TypeInv, TypeOK, BreakerTypes, CallTypes, CallRecord, DialTypes,
                DialRecord
  <2>2. ASSUME NEW c \in outdated.callers, call[c].pc = "after", call'[c].pc = "tls"
        PROVE  circuit' = circuit
    <3>1. c \in Callers /\ call[c].gen # healthGen
      BY <2>1 DEF HealthInv
    <3>2. After(c)
      BY <1>1, <2>1, <2>2, <3>1, OnlyAfterTurns
    <3> QED BY <3>1, <3>2 DEF After, Leave, PrimaryFailed, OpenCircuit
  <2>3. ASSUME NEW d \in outdated.dials,
               dial[d].phase = "publishing", dial'[d].phase = "done"
        PROVE  circuit' = circuit
    <3>1. d \in Dials /\ dial[d].gen # healthGen
      BY <2>1 DEF HealthInv
    <3>2. PublishDial(d)
      BY <1>1, <2>1, <2>3, <3>1, OnlyPublishFinishes
    <3> QED BY <3>1, <3>2 DEF PublishDial, DialOpensCircuit
  <2> QED BY <2>2, <2>3
<1>2. IInv /\ [Next]_vars => [A]_vars
  BY <1>1
<1> QED BY <1>2, Invariance, PTL DEF Safety, HealthSupersedes

\* A live connection that calls may be using is closed by Close alone: no
\* caller, failure or late dial takes it from the others (StreamFails drops
\* only dead connections, runQUICDial closes only those it never handed out).
THEOREM OthersFlowsSurvive == Safety => FlowsSurvive
<1> DEFINE A == \A d \in Dials : dial[d].link = "live" /\ dial'[d].link = "closed"
                                  => closed \/ dial[d].phase = "rejecting"
<1>1. ASSUME IInv, Next PROVE A
  <2>1. SUFFICES ASSUME NEW d \in Dials, dial[d].link = "live", dial'[d].link = "closed"
                 PROVE  closed \/ dial[d].phase = "rejecting"
    OBVIOUS
  <2>2. /\ TypeInv /\ CloseInv /\ dial \in [Dials -> DialRecord]
        /\ dial[d].phase # "dialing"
    BY <1>1, <2>1 DEF IInv, TypeInv, TypeOK, DialTypes, DialInv, Owned, Unsettled
  <2>3. CASE UNCHANGED sharedVars
    BY <2>1, <2>3 DEF sharedVars
  <2>4. ASSUME NEW c \in Callers, StartDial(c)
        PROVE  FALSE
    <3>1. LET s == [NewDial EXCEPT !.phase = "dialing", !.gen = healthGen]
          IN  s.link = "none" /\ NewDial.link = "none"
      BY DEF NewDial
    <3>2. dial'[d] \in {[NewDial EXCEPT !.phase = "dialing", !.gen = healthGen],
                        NewDial, dial[d]}
      BY <2>4 DEF StartDial
    <3> QED BY <2>1, <3>1, <3>2
  <2>5. ASSUME NEW c \in Callers, Drops(c)
        PROVE  FALSE
    BY <2>1, <2>2, <2>5, DropRecord DEF Becomes
  <2>6. ASSUME NEW e \in Dials, DialWorker(e) \/ ConnectionDies(e)
        PROVE  dial[d].phase = "rejecting"
    <3>1. e = d
      BY <2>1, <2>2, <2>6, ReturnsRecord, SettleRecord, RejectRecord, PublishRecord,
         DeathRecord DEF DialWorker, Becomes
    <3>2. ~DialReturns(d)
      BY <2>2 DEF DialReturns
    <3>3. ~SettleDial(d) /\ ~PublishDial(d) /\ ~ConnectionDies(d)
      BY <2>1, <2>2, SettleRecord, PublishRecord, DeathRecord DEF Becomes
    <3> QED BY <2>6, <3>1, <3>2, <3>3 DEF DialWorker, CloseRejected
  <2>7. ASSUME NEW k \in Closers, Close(k) \/ CloseStep(k)
        PROVE  closed
    <3>1. CASE CloseCancels(k)
      BY <2>2, <3>1 DEF CloseCancels, CloseInv
    <3>2. CASE Close(k) \/ CloseJoins(k) \/ CloseAwaits(k)
      BY <2>1, <3>2 DEF Close, CloseJoins, CloseAwaits, sharedVars
    <3> QED BY <2>7, <3>1, <3>2 DEF CloseStep
  <2> QED BY <1>1, <2>3, <2>4, <2>5, <2>6, <2>7, DialClass
<1>2. IInv /\ [Next]_vars => [A]_vars
  BY <1>1
<1> QED BY <1>2, Invariance, PTL DEF Safety, FlowsSurvive
=============================================================================
