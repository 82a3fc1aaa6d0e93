----------------------------- MODULE WebUDPProofs ------------------------------
(***************************************************************************)
(* Proofs about WebUDP, for any callers, any targets and any limits: every *)
(* opening and session has an owner while it lasts, none outlives Close,   *)
(* and what fails one target only does not end the sends to all.           *)
(***************************************************************************)
EXTENDS WebUDP, FiniteSetTheorems, WellFoundedInduction, TLAPS

\* There is a target to send to, connections are numbered, the bound on openings
\* and the limits are numbers.
WebUDPAssumption ==
  /\ Targets # {} /\ Wires \subseteq Nat
  /\ MaxOpenings \in Nat /\ Slots \in Nat /\ Queue \in Nat /\ Leases \in Nat

Pcs == {"idle", "look", "have", "await", "reserve", "connect", "answer", "settle", "late"}
Errors == {"closed", "limit", "unavailable", "rejected", "failed"}
Terminal == {"closed", "rejected", "failed"}
CallStates ==
  [pc : Pcs, target : Targets, n : {0} \cup Openings, sends : Nat,
   result : Errors \cup {"none", "session"}, told : BOOLEAN]
Terms == {"none", "abandoned", "no", "canceled", "removed", "done"}
SessionStates ==
  [term : Terms, out : Nat,
   sender : {"none", "idle", "sending", "failed", "joined"}, wire : {0} \cup Wires]
ServerStates ==
  [pc : {"none", "request", "refused", "rejected", "resolving", "running", "ending", "over"},
   sender : {"none", "idle", "sending", "done"}]

TypeInv ==
  /\ call \in [Callers -> CallStates]
  /\ pdone \in BOOLEAN
  /\ shutdown \in {"idle", "sessions", "pending", "workers", "done"}
  /\ snapshot \in [sessions : SUBSET Openings, pending : SUBSET Openings]
  /\ sessions \in [Targets -> {0} \cup Openings]
  /\ pending \in [Targets -> {0} \cup Openings]
  /\ opening \in [Openings -> Errors \cup {"none", "open", "session"}]
  /\ session \in [Openings -> SessionStates]
  /\ server \in [Openings -> ServerStates]

\* An opening under way belongs to one caller, which is the one its target's
\* entry in p.pending will be published by.
Opening(c) == call[c].pc \in {"reserve", "connect", "answer", "settle", "late"}
OpenerInv ==
  /\ \A c \in Callers : call[c].pc \in {"have", "await"} \/ Opening(c) => call[c].n \in Openings
  /\ \A c \in Callers : Opening(c) =>
       opening[call[c].n] = "open" /\ pending[call[c].target] = call[c].n
  /\ \A c, d \in Callers : Opening(c) /\ Opening(d) /\ call[c].n = call[d].n => c = d
  /\ \A t \in Targets : pending[t] # 0 =>
       \E c \in Callers : Opening(c) /\ call[c].target = t /\ call[c].n = pending[t]
  /\ \A n \in Openings : opening[n] = "open" => \E c \in Callers : Opening(c) /\ call[c].n = n

\* How far a session is, as its opening and its opener tell.
StageOf(c, n) ==
  /\ session[n].sender = "none"
  /\ call[c].pc \in {"reserve", "connect", "answer"} => session[n].term = "none"
  /\ call[c].pc = "settle" =>
       /\ call[c].result # "none"
       /\ call[c].result = "session" => session[n].term = "no"
       /\ call[c].result # "session" => session[n].term \in {"none", "abandoned"}
  /\ call[c].pc = "late" => session[n].term \in {"no", "canceled", "removed", "done"}
StageInv ==
  /\ \A c \in Callers : Opening(c) => StageOf(c, call[c].n)
  /\ \A n \in Openings :
       /\ opening[n] = "none" => session[n].term = "none" /\ session[n].sender = "none"
       /\ opening[n] \in Errors =>
            session[n].term \in {"none", "abandoned", "done"} /\ session[n].sender = "none"
       /\ opening[n] = "session" =>
            /\ session[n].term \in {"no", "canceled", "removed", "done"}
            /\ session[n].sender # "none"
            /\ session[n].sender = "joined" => session[n].term = "done"

\* p.sessions lists the sessions that are not yet removed, beside no opening.
ListedInv ==
  /\ \A t \in Targets : sessions[t] # 0 =>
       opening[sessions[t]] = "session" /\ session[sessions[t]].term \in {"no", "canceled"}
  /\ \A t \in Targets : sessions[t] = 0 \/ pending[t] = 0
  /\ \A n \in Openings : opening[n] = "session" /\ session[n].term = "no" =>
       \E t \in Targets : sessions[t] = n

\* Shutdown: what is still owned is what it has listed and not yet joined.
CloseInv ==
  /\ Closed => pdone
  /\ shutdown = "sessions" =>
       \A t \in Targets : sessions[t] # 0 => sessions[t] \in snapshot.sessions
  /\ shutdown \in {"sessions", "pending"} =>
       \A t \in Targets : pending[t] # 0 => pending[t] \in snapshot.pending
  /\ shutdown \in {"pending", "workers", "done"} => \A t \in Targets : sessions[t] = 0
  /\ shutdown \in {"workers", "done"} => \A t \in Targets : pending[t] = 0
  /\ shutdown = "done" => \A n \in Openings : IsJoined(n)

\* "closed" is published only once the packet connection is over.
VerdictInv ==
  /\ \A c \in Callers : call[c].pc = "late" => Closed
  /\ \A c \in Callers : call[c].pc = "settle" /\ call[c].result = "closed" => pdone
  /\ \A n \in Openings : opening[n] = "closed" => pdone

\* The counters, as what they count.
Holders == {n \in Openings : Holds(n)}
Served == {n \in Openings : server[n].pc \in {"resolving", "running", "ending"}}
SlotsInv == slots = Cardinality(Holders) /\ slots <= Slots
LeasesInv ==
  /\ leases = Cardinality(Served)
  /\ \A n \in Openings : opening[n] = "none" => server[n].pc = "none"
  /\ \A c \in Callers : call[c].pc \in {"reserve", "connect"} => server[call[c].n].pc = "none"

IInv ==
  /\ TypeInv /\ OpenerInv /\ StageInv /\ ListedInv
  /\ CloseInv /\ VerdictInv /\ SlotsInv /\ LeasesInv
-----------------------------------------------------------------------------
(* What the steps do to one call and one session. *)

\* Go moves one caller and keeps what it knows.
LEMMA GoMoves ==
  ASSUME call \in [Callers -> CallStates], NEW c \in Callers, NEW pc \in Pcs, Go(c, pc)
  PROVE  /\ call' \in [Callers -> CallStates]
         /\ call'[c].pc = pc /\ call'[c].n = call[c].n /\ call'[c].target = call[c].target
         /\ call'[c].result = call[c].result /\ call'[c].told = call[c].told
         /\ \A d \in Callers : d # c => call'[d] = call[d]
<1>1. call' = [call EXCEPT ![c] = [call[c] EXCEPT !.pc = pc]]
  BY DEF Go
<1>2. call[c] \in CallStates /\ [call[c] EXCEPT !.pc = pc] \in CallStates
  BY DEF CallStates
<1>3. call'[c] = [call[c] EXCEPT !.pc = pc]
  BY <1>1
<1>4. /\ call'[c].pc = pc /\ call'[c].n = call[c].n /\ call'[c].target = call[c].target
      /\ call'[c].result = call[c].result /\ call'[c].told = call[c].told
  BY <1>2, <1>3 DEF CallStates
<1> QED
  BY <1>1, <1>2, <1>4

\* Settling also notes what the caller is to publish.
LEMMA SettlingMoves ==
  ASSUME call \in [Callers -> CallStates], NEW c \in Callers,
         NEW r \in Errors \cup {"session"}, Settling(c, r)
  PROVE  /\ call' \in [Callers -> CallStates]
         /\ call'[c].pc = "settle" /\ call'[c].result = r
         /\ call'[c].n = call[c].n /\ call'[c].target = call[c].target
         /\ call'[c].told = call[c].told
         /\ \A d \in Callers : d # c => call'[d] = call[d]
<1>1. call' = [call EXCEPT ![c] = [call[c] EXCEPT !.pc = "settle", !.result = r]]
  BY DEF Settling
<1>2. /\ call[c] \in CallStates
      /\ [call[c] EXCEPT !.pc = "settle", !.result = r] \in CallStates
  BY DEF CallStates, Pcs
<1>3. call'[c] = [call[c] EXCEPT !.pc = "settle", !.result = r]
  BY <1>1
<1>4. /\ call'[c].pc = "settle" /\ call'[c].result = r
      /\ call'[c].n = call[c].n /\ call'[c].target = call[c].target
      /\ call'[c].told = call[c].told
  BY <1>2, <1>3 DEF CallStates
<1> QED
  BY <1>1, <1>2, <1>4

\* Return ends a Send, and tells every error that is not one datagram's.
LEMMA ReturnMoves ==
  ASSUME WebUDPAssumption, call \in [Callers -> CallStates], NEW c \in Callers, NEW r,
         Return(c, r)
  PROVE  /\ call' \in [Callers -> CallStates]
         /\ call'[c].pc = "idle" /\ (call'[c].told <=> r \notin GoesOn)
         /\ \A d \in Callers : d # c => call'[d] = call[d]
<1> DEFINE new == [call[c] EXCEPT !.pc = "idle", !.target = AnyTarget, !.n = 0,
                                  !.result = "none", !.told = (r \notin GoesOn)]
<1>1. AnyTarget \in Targets
  BY DEF AnyTarget, WebUDPAssumption
<1>2. call[c] \in CallStates
  OBVIOUS
<1>3. new \in CallStates /\ new.pc = "idle" /\ (new.told <=> r \notin GoesOn)
  BY <1>1, <1>2 DEF CallStates, Pcs
<1>4. call' = [call EXCEPT ![c] = new]
  BY DEF Return
<1> HIDE DEF new
<1> QED
  BY <1>3, <1>4

\* TermTo moves one session through terminate.
LEMMA TermMoves ==
  ASSUME session \in [Openings -> SessionStates], NEW n \in Openings, NEW step \in Terms,
         TermTo(n, step)
  PROVE  /\ session' \in [Openings -> SessionStates]
         /\ session'[n].term = step /\ session'[n].sender = session[n].sender
         /\ \A m \in Openings : m # n => session'[m] = session[m]
<1>1. session' = [session EXCEPT ![n] = [session[n] EXCEPT !.term = step]]
  BY DEF TermTo
<1>2. session[n] \in SessionStates /\ [session[n] EXCEPT !.term = step] \in SessionStates
  BY DEF SessionStates
<1>3. session'[n] = [session[n] EXCEPT !.term = step]
  BY <1>1
<1>4. session'[n].term = step /\ session'[n].sender = session[n].sender
  BY <1>2, <1>3 DEF SessionStates
<1> QED
  BY <1>1, <1>2, <1>4

\* Sender moves one session's sender.
LEMMA SenderMoves ==
  ASSUME session \in [Openings -> SessionStates], NEW n \in Openings,
         NEW to \in {"idle", "sending", "failed", "joined"}, Sender(n, to)
  PROVE  /\ session' \in [Openings -> SessionStates]
         /\ session'[n].sender = to /\ session'[n].term = session[n].term
         /\ \A m \in Openings : m # n => session'[m] = session[m]
<1>1. session' = [session EXCEPT ![n] = [session[n] EXCEPT !.sender = to]]
  BY DEF Sender
<1>2. session[n] \in SessionStates /\ [session[n] EXCEPT !.sender = to] \in SessionStates
  BY DEF SessionStates
<1>3. session'[n] = [session[n] EXCEPT !.sender = to]
  BY <1>1
<1>4. session'[n].sender = to /\ session'[n].term = session[n].term
  BY <1>2, <1>3 DEF SessionStates
<1> QED
  BY <1>1, <1>2, <1>4

\* The connection a request is sent on is one of the pool's.
LEMMA WireChosen ==
  ASSUME WebUDPAssumption, Live # {}
  PROVE  (CHOOSE w \in Live : \A v \in Live : w <= v) \in Wires
<1>1. Live \subseteq Nat /\ Live \subseteq Wires
  BY DEF Live, WebUDPAssumption
<1>2. \E w \in Live : \A v \in Live : <<v, w>> \notin OpToRel(<, Nat)
  BY <1>1, NatLessThanWellFounded, WFMin
<1>3. PICK w \in Live : \A v \in Live : <<v, w>> \notin OpToRel(<, Nat)
  BY <1>2
<1>4. \A v \in Live : w <= v
  <2> SUFFICES ASSUME NEW v \in Live PROVE w <= v
    OBVIOUS
  <2>1. <<v, w>> \notin OpToRel(<, Nat) /\ v \in Nat /\ w \in Nat
    BY <1>1, <1>3
  <2> QED
    BY <2>1 DEF OpToRel
<1> QED
  BY <1>1, <1>4

-----------------------------------------------------------------------------
(* The steps, by what they do. *)

\* A session is at the same step, only its queue or connection may differ.
Same(n) ==
  session'[n].term = session[n].term /\ session'[n].sender = session[n].sender
SameSessions == session' \in [Openings -> SessionStates] /\ \A n \in Openings : Same(n)
OthersSame(c) == \A d \in Callers : d # c => call'[d] = call[d]

\* A step of a Send that opens nothing.
Quiet(c) ==
  /\ call' \in [Callers -> CallStates] /\ OthersSame(c)
  /\ ~Opening(c) /\ ~Opening(c)'
  /\ call'[c].pc \in {"have", "await"} => call'[c].n \in Openings
  /\ SameSessions
  /\ UNCHANGED <<packetVars, opening, slots, dead, serverVars>>

\* session: a new opening, which this caller is to publish.
StartsOpening(c, n) ==
  LET t == call[c].target IN
  /\ call' \in [Callers -> CallStates] /\ OthersSame(c)
  /\ ~Opening(c) /\ call'[c].pc = "reserve" /\ call'[c].n = n /\ call'[c].target = t
  /\ ~Closed /\ sessions[t] = 0 /\ pending[t] = 0 /\ opening[n] = "none"
  /\ pending' = [pending EXCEPT ![t] = n] /\ opening' = [opening EXCEPT ![n] = "open"]
  /\ UNCHANGED <<pdone, shutdown, snapshot, sessions, session, slots, dead, serverVars>>

\* openSession goes on with the opening.
Continues(c) ==
  /\ call' \in [Callers -> CallStates] /\ OthersSame(c)
  /\ Opening(c) /\ Opening(c)'
  /\ call'[c].n = call[c].n /\ call'[c].target = call[c].target
  /\ UNCHANGED <<packetVars, opening, dead>>
\* Its session gets to a step of terminate's.
Gets(c, term) ==
  /\ session' \in [Openings -> SessionStates]
  /\ session'[call[c].n].term = term
  /\ session'[call[c].n].sender = session[call[c].n].sender
  /\ \A m \in Openings : m # call[c].n => Same(m)

\* The opening is over, and r is its result.
Publishes(c, r) ==
  /\ call' \in [Callers -> CallStates] /\ OthersSame(c)
  /\ call[c].pc \in {"settle", "late"}
  /\ call'[c].pc \in {"have", "idle"} /\ (call'[c].pc = "have" => call'[c].n = call[c].n)
  /\ pending' = [pending EXCEPT ![call[c].target] = 0]
  /\ opening' = [opening EXCEPT ![call[c].n] = r]
  /\ UNCHANGED <<pdone, shutdown, snapshot, slots, dead, serverVars>>

\* The sender of a session that has been published, at some step of its own.
SenderGoesOn(n) ==
  /\ session' \in [Openings -> SessionStates]
  /\ session[n].sender # "none" /\ session'[n].sender # "none"
  /\ session'[n].sender = "joined" => session[n].term = "done"
  /\ session[n].sender # "joined"
  /\ session'[n].term = session[n].term
  /\ \A m \in Openings : m # n => session'[m] = session[m]
  /\ UNCHANGED <<call, packetVars, opening, slots, dead, serverVars>>

\* Send is quiet.
LEMMA SendStep ==
  ASSUME TypeInv, NEW c \in Callers, NEW t \in Targets, Send(c, t)
  PROVE  Quiet(c) /\ ~call'[c].told
<1> DEFINE new == [call[c] EXCEPT !.pc = "look", !.target = t,
                                  !.sends = call[c].sends + 1]
<1>0. call \in [Callers -> CallStates] /\ session \in [Openings -> SessionStates]
  BY DEF TypeInv
<1>1. call[c] \in CallStates /\ ~call[c].told
  BY <1>0 DEF Send
<1>2. new \in CallStates /\ new.pc = "look" /\ ~new.told
  <2>1. call[c].sends + 1 \in Nat
    BY <1>1 DEF CallStates
  <2> QED
    BY <1>1, <2>1 DEF CallStates, Pcs
<1>3. call' = [call EXCEPT ![c] = new]
  BY DEF Send
<1>4. call[c].pc = "idle" /\ UNCHANGED <<packetVars, opening, session, slots, dead, serverVars>>
  BY DEF Send
<1> HIDE DEF new
<1>5. call' \in [Callers -> CallStates] /\ call'[c] = new /\ OthersSame(c)
  BY <1>0, <1>2, <1>3 DEF OthersSame
<1> QED
  BY <1>0, <1>2, <1>4, <1>5 DEF Quiet, SameSessions, Same, Opening

\* Look ends the Send, joins what there is for the target, or opens.
LEMMA LookStep ==
  ASSUME WebUDPAssumption, TypeInv, NEW c \in Callers, Look(c)
  PROVE  /\ \/ Quiet(c) /\ (call'[c].told => call[c].told \/ Closed)
            \/ \E n \in Openings : StartsOpening(c, n) /\ call'[c].told = call[c].told
<1> DEFINE t == call[c].target
<1>0. /\ call \in [Callers -> CallStates] /\ session \in [Openings -> SessionStates]
      /\ call[c] \in CallStates /\ t \in Targets /\ call[c].pc = "look"
      /\ sessions[t] \in {0} \cup Openings /\ pending[t] \in {0} \cup Openings
  BY DEF TypeInv, Look, CallStates
<1>u. UNCHANGED <<pdone, shutdown, snapshot, sessions, session, slots, dead, serverVars>>
  BY DEF Look
<1>q. ASSUME UNCHANGED <<pending, opening>>, call' \in [Callers -> CallStates],
             OthersSame(c), ~Opening(c)',
             call'[c].pc \in {"have", "await"} => call'[c].n \in Openings
      PROVE  Quiet(c)
  BY <1>0, <1>u, <1>q DEF Quiet, SameSessions, Same, Opening, packetVars
<1>1. CASE Closed /\ Return(c, "closed") /\ UNCHANGED <<pending, opening>>
  <2>1. /\ call' \in [Callers -> CallStates] /\ OthersSame(c) /\ call'[c].pc = "idle"
    BY <1>0, <1>1, ReturnMoves DEF OthersSame
  <2> QED
    BY <1>q, <1>1, <2>1 DEF Opening
<1>2. ASSUME NEW m \in Openings, NEW pc \in {"have", "await"},
             call' = [call EXCEPT ![c].pc = pc, ![c].n = m], UNCHANGED <<pending, opening>>
      PROVE  Quiet(c) /\ call'[c].told = call[c].told
  <2>1. call' = [call EXCEPT ![c] = [call[c] EXCEPT !.pc = pc, !.n = m]]
    BY <1>2
  <2>2. [call[c] EXCEPT !.pc = pc, !.n = m] \in CallStates
    BY <1>0, <1>2 DEF CallStates, Pcs
  <2>3. /\ call' \in [Callers -> CallStates] /\ OthersSame(c)
        /\ call'[c] = [call[c] EXCEPT !.pc = pc, !.n = m]
    BY <1>0, <2>1, <2>2 DEF OthersSame
  <2>4. call'[c].pc = pc /\ call'[c].n = m /\ call'[c].told = call[c].told
    BY <1>0, <2>3 DEF CallStates
  <2> QED
    BY <1>q, <1>2, <2>3, <2>4 DEF Opening
<1>3. CASE /\ ~Closed /\ sessions[t] # 0
           /\ call' = [call EXCEPT ![c].pc = "have", ![c].n = sessions[t]]
           /\ UNCHANGED <<pending, opening>>
  BY <1>0, <1>2, <1>3
<1>4. CASE /\ ~Closed /\ sessions[t] = 0 /\ Pending(t) # 0
           /\ call' = [call EXCEPT ![c].pc = "await", ![c].n = pending[t]]
           /\ UNCHANGED <<pending, opening>>
  BY <1>0, <1>2, <1>4 DEF Pending
<1>5. CASE Return(c, TargetSendError("limit")) /\ UNCHANGED <<pending, opening>>
  <2>1. /\ call' \in [Callers -> CallStates] /\ OthersSame(c) /\ call'[c].pc = "idle"
        /\ ~call'[c].told
    BY <1>0, <1>5, ReturnMoves DEF OthersSame, TargetSendError, GoesOn
  <2> QED
    BY <1>q, <1>5, <2>1 DEF Opening
<1>6. ASSUME ~Closed, sessions[t] = 0, Pending(t) = 0, NEW n \in Unused,
             pending' = [pending EXCEPT ![t] = n],
             opening' = [opening EXCEPT ![n] = "open"],
             call' = [call EXCEPT ![c].pc = "reserve", ![c].n = n]
      PROVE  n \in Openings /\ StartsOpening(c, n) /\ call'[c].told = call[c].told
  <2>0. n \in Openings /\ opening[n] = "none" /\ pending[t] = 0
    BY <1>6 DEF Unused, Pending
  <2>1. call' = [call EXCEPT ![c] = [call[c] EXCEPT !.pc = "reserve", !.n = n]]
    BY <1>6
  <2>2. [call[c] EXCEPT !.pc = "reserve", !.n = n] \in CallStates
    BY <1>0, <2>0 DEF CallStates, Pcs
  <2>3. /\ call' \in [Callers -> CallStates] /\ OthersSame(c)
        /\ call'[c] = [call[c] EXCEPT !.pc = "reserve", !.n = n]
    BY <1>0, <2>1, <2>2 DEF OthersSame
  <2>4. /\ call'[c].pc = "reserve" /\ call'[c].n = n /\ call'[c].target = t
        /\ call'[c].told = call[c].told
    BY <1>0, <2>3 DEF CallStates
  <2> QED
    BY <1>0, <1>6, <1>u, <2>0, <2>3, <2>4 DEF StartsOpening, Opening
<1> QED
  BY <1>1, <1>3, <1>4, <1>5, <1>6 DEF Look

\* Await and Enqueue are quiet; an error that ends the association they tell if
\* the opening published one, or the packet connection or the QUIC connection of
\* the session is over.
LEMMA AwaitEnqueueStep ==
  ASSUME WebUDPAssumption, TypeInv, OpenerInv, NEW c \in Callers, Await(c) \/ Enqueue(c)
  PROVE  /\ Quiet(c)
         /\ call'[c].told =>
              \/ call[c].told \/ Closed \/ pdone
              \/ call[c].pc = "have" /\ session[call[c].n].wire \in dead
              \/ call[c].pc = "await" /\ opening'[call[c].n] \in Terminal
<1> DEFINE n == call[c].n
<1>0. /\ call \in [Callers -> CallStates] /\ session \in [Openings -> SessionStates]
      /\ call[c].pc \in {"await", "have"} /\ n \in Openings
  BY DEF TypeInv, OpenerInv, Await, Enqueue
<1>q. ASSUME UNCHANGED <<packetVars, opening, slots, dead, serverVars>>, SameSessions,
             call' \in [Callers -> CallStates], OthersSame(c), ~Opening(c)',
             call'[c].pc \in {"have", "await"} => call'[c].n \in Openings
      PROVE  Quiet(c)
  BY <1>0, <1>q DEF Quiet, Opening
<1>r. ASSUME NEW r, Return(c, r)
      PROVE  /\ call' \in [Callers -> CallStates] /\ OthersSame(c) /\ ~Opening(c)'
             /\ call'[c].pc = "idle" /\ (call'[c].told <=> r \notin GoesOn)
  BY <1>0, <1>r, ReturnMoves DEF OthersSame, Opening
<1>1. CASE Await(c)
  <2>1. UNCHANGED <<packetVars, opening, slots, dead, serverVars>> /\ SameSessions
    BY <1>0, <1>1 DEF Await, SameSessions, Same
  <2>2. CASE Go(c, "have")
    <3>1. /\ call' \in [Callers -> CallStates] /\ OthersSame(c) /\ ~Opening(c)'
          /\ call'[c].n = n /\ call'[c].told = call[c].told
      BY <1>0, <2>2, GoMoves DEF OthersSame, Opening, Pcs
    <3> QED
      BY <1>0, <1>q, <2>1, <3>1
  <2>3. CASE opening[n] \notin {"none", "open", "session"} /\ Return(c, TargetSendError(opening[n]))
    <3>1. call[c].pc = "await" /\ opening'[n] = opening[n] /\ opening[n] \in Errors
      BY <1>0, <1>1, <2>1, <2>3 DEF Await, TypeInv
    <3>2. call'[c].told => opening[n] \in Terminal
      BY <1>r, <2>3, <3>1 DEF TargetSendError, GoesOn, Errors, Terminal
    <3> QED
      BY <1>0, <1>q, <1>r, <2>1, <2>3, <3>1, <3>2
  <2>4. CASE Closed /\ Return(c, "closed")
    BY <1>q, <1>r, <2>1, <2>4
  <2> QED
    BY <1>1, <2>2, <2>3, <2>4 DEF Await
<1>2. CASE Enqueue(c)
  <2>1. UNCHANGED <<packetVars, opening, slots, dead, serverVars>>
    BY <1>2 DEF Enqueue
  <2>2. SameSessions
    <3>1. CASE UNCHANGED session
      BY <1>0, <3>1 DEF SameSessions, Same
    <3>2. CASE session' = [session EXCEPT ![n] = [session[n] EXCEPT !.out = session[n].out + 1]]
      <4>1. session[n] \in SessionStates
        BY <1>0
      <4>2. /\ [session[n] EXCEPT !.out = session[n].out + 1] \in SessionStates
            /\ [session[n] EXCEPT !.out = session[n].out + 1].term = session[n].term
            /\ [session[n] EXCEPT !.out = session[n].out + 1].sender = session[n].sender
        BY <4>1 DEF SessionStates
      <4> QED
        BY <1>0, <3>2, <4>2 DEF SameSessions, Same
    <3> QED
      BY <1>2, <3>1, <3>2 DEF Enqueue
  <2>3. CASE Return(c, ClosedSendError(n))
    <3>1. call[c].pc = "have"
      BY <1>2 DEF Enqueue
    <3>2. call'[c].told => pdone \/ session[n].wire \in dead
      BY <1>r, <2>3 DEF ClosedSendError, GoesOn
    <3> QED
      BY <1>q, <1>r, <2>1, <2>2, <2>3, <3>1, <3>2
  <2>4. CASE Return(c, "ok") \/ Return(c, "full")
    <3>1. ~call'[c].told
      BY <1>r, <2>4 DEF GoesOn
    <3> QED
      BY <1>q, <1>r, <2>1, <2>2, <2>4, <3>1
  <2> QED
    BY <1>2, <2>3, <2>4 DEF Enqueue
<1> QED
  BY <1>1, <1>2

\* Reserve takes a slot, or has an error to publish.
LEMMA ReserveStep ==
  ASSUME TypeInv, NEW c \in Callers, Reserve(c)
  PROVE  /\ Continues(c) /\ SameSessions /\ UNCHANGED <<session, serverVars>>
         /\ call'[c].told = call[c].told /\ call[c].pc = "reserve"
         /\ \/ call'[c].pc = "connect" /\ slots < Slots /\ slots' = slots + 1
            \/ /\ call'[c].pc = "settle" /\ slots' = slots
               /\ call'[c].result \in {"closed", "limit"}
               /\ call'[c].result = "closed" => pdone
<1>0. /\ call \in [Callers -> CallStates] /\ session \in [Openings -> SessionStates]
      /\ call[c].pc = "reserve"
      /\ UNCHANGED <<packetVars, opening, session, dead, serverVars>>
  BY DEF TypeInv, Reserve, openOnly
<1>1. ASSUME NEW r \in {"closed", "limit"}, Settling(c, r), UNCHANGED slots,
             r = "closed" => pdone
      PROVE  /\ Continues(c) /\ SameSessions /\ call'[c].told = call[c].told
             /\ call'[c].pc = "settle" /\ slots' = slots /\ call'[c].result = r
  <2>1. /\ call' \in [Callers -> CallStates] /\ OthersSame(c)
        /\ call'[c].pc = "settle" /\ call'[c].result = r /\ call'[c].n = call[c].n
        /\ call'[c].target = call[c].target /\ call'[c].told = call[c].told
    BY <1>0, <1>1, SettlingMoves DEF OthersSame, Errors
  <2> QED
    BY <1>0, <1>1, <2>1 DEF Continues, Opening, SameSessions, Same
<1>2. CASE pdone /\ Settling(c, "closed") /\ UNCHANGED slots
  BY <1>0, <1>1, <1>2
<1>3. CASE Settling(c, "limit") /\ UNCHANGED slots
  BY <1>0, <1>1, <1>3
<1>4. CASE Go(c, "connect") /\ slots < Slots /\ slots' = slots + 1
  <2>1. /\ call' \in [Callers -> CallStates] /\ OthersSame(c)
        /\ call'[c].pc = "connect" /\ call'[c].n = call[c].n
        /\ call'[c].target = call[c].target /\ call'[c].told = call[c].told
    BY <1>0, <1>4, GoMoves DEF OthersSame, Pcs
  <2>2. Continues(c) /\ SameSessions
    BY <1>0, <2>1 DEF Continues, Opening, SameSessions, Same
  <2> QED
    BY <1>0, <1>4, <2>1, <2>2
<1> QED
  BY <1>2, <1>3, <1>4 DEF Reserve

\* Request: the stream's handler starts.
LEMMA RequestStep ==
  ASSUME WebUDPAssumption, TypeInv, OpenerInv, NEW c \in Callers, Request(c)
  PROVE  /\ Continues(c) /\ SameSessions /\ call'[c].told = call[c].told
         /\ call[c].pc = "connect" /\ call'[c].pc = "answer"
         /\ UNCHANGED <<slots, leases>>
         /\ server' = [server EXCEPT ![call[c].n].pc = "request"]
<1> DEFINE n == call[c].n
           w == CHOOSE w \in Live : \A v \in Live : w <= v
<1>0. /\ call \in [Callers -> CallStates] /\ session \in [Openings -> SessionStates]
      /\ call[c].pc = "connect" /\ Opening(c) /\ n \in Openings
      /\ UNCHANGED <<packetVars, opening, slots, dead, leases>>
      /\ server' = [server EXCEPT ![n].pc = "request"]
  BY DEF TypeInv, OpenerInv, Opening, Request, openOnly
<1>1. w \in Wires
  BY WireChosen DEF Request
<1>2. session' = [session EXCEPT ![n].wire = w] /\ Go(c, "answer")
  BY DEF Request
<1>3. SameSessions
  <2> HIDE DEF w
  <2>1. session[n] \in SessionStates
    BY <1>0
  <2>2. /\ [session[n] EXCEPT !.wire = w] \in SessionStates
        /\ [session[n] EXCEPT !.wire = w].term = session[n].term
        /\ [session[n] EXCEPT !.wire = w].sender = session[n].sender
    BY <1>1, <2>1 DEF SessionStates
  <2>3. session' = [session EXCEPT ![n] = [session[n] EXCEPT !.wire = w]]
    BY <1>2
  <2> QED
    BY <1>0, <2>2, <2>3 DEF SameSessions, Same
<1>4. /\ call' \in [Callers -> CallStates] /\ OthersSame(c)
      /\ call'[c].pc = "answer" /\ call'[c].n = n
      /\ call'[c].target = call[c].target /\ call'[c].told = call[c].told
  BY <1>0, <1>2, GoMoves DEF OthersSame, Pcs
<1> QED
  BY <1>0, <1>3, <1>4 DEF Continues, Opening

\* A session's EXCEPT by hand, for the steps that say it in place.
LEMMA TermAt ==
  ASSUME session \in [Openings -> SessionStates], NEW n \in Openings, NEW step \in Terms,
         session' = [session EXCEPT ![n].term = step]
  PROVE  /\ session' \in [Openings -> SessionStates]
         /\ session'[n].term = step /\ session'[n].sender = session[n].sender
         /\ \A m \in Openings : m # n => session'[m] = session[m]
BY TermMoves DEF TermTo

\* An opening that fails gives its slot back and has an error to publish.
LEMMA OpenFailsStep ==
  ASSUME TypeInv, OpenerInv, NEW c \in Callers, OpenFails(c)
  PROVE  /\ Continues(c) /\ Gets(c, "abandoned") /\ UNCHANGED serverVars
         /\ call'[c].told = call[c].told
         /\ call[c].pc \in {"connect", "answer"} /\ call'[c].pc = "settle"
         /\ call'[c].result \in Errors /\ (call'[c].result = "closed" => pdone)
         /\ slots' = slots - 1
<1> DEFINE n == call[c].n
<1>0. /\ call \in [Callers -> CallStates] /\ session \in [Openings -> SessionStates]
      /\ call[c].pc \in {"connect", "answer"} /\ Opening(c) /\ n \in Openings
      /\ UNCHANGED <<packetVars, opening, dead, serverVars>> /\ slots' = slots - 1
  BY DEF TypeInv, OpenerInv, Opening, OpenFails, openOnly, GivesBack
<1>1. Gets(c, "abandoned")
  <2>1. session' = [session EXCEPT ![n].term = "abandoned"]
    BY DEF OpenFails
  <2> QED
    BY <1>0, <2>1, TermAt DEF Gets, Same, Terms
<1>2. PICK r \in Errors : Settling(c, r) /\ (r = "closed" => pdone)
  BY DEF OpenFails, Errors
<1>3. /\ call' \in [Callers -> CallStates] /\ OthersSame(c)
      /\ call'[c].pc = "settle" /\ call'[c].result = r /\ call'[c].n = n
      /\ call'[c].target = call[c].target /\ call'[c].told = call[c].told
  BY <1>0, <1>2, SettlingMoves DEF OthersSame
<1> QED
  BY <1>0, <1>1, <1>2, <1>3 DEF Continues, Opening

\* An opening that succeeds has its session to publish.
LEMMA OpenedStep ==
  ASSUME TypeInv, OpenerInv, NEW c \in Callers, Opened(c)
  PROVE  /\ Continues(c) /\ Gets(c, "no") /\ UNCHANGED <<slots, serverVars>>
         /\ call'[c].told = call[c].told
         /\ call[c].pc = "answer" /\ call'[c].pc = "settle" /\ call'[c].result = "session"
<1> DEFINE n == call[c].n
<1>0. /\ call \in [Callers -> CallStates] /\ session \in [Openings -> SessionStates]
      /\ call[c].pc = "answer" /\ Opening(c) /\ n \in Openings
      /\ UNCHANGED <<packetVars, opening, slots, dead, serverVars>>
  BY DEF TypeInv, OpenerInv, Opening, Opened, openOnly
<1>1. Gets(c, "no")
  <2>1. session' = [session EXCEPT ![n].term = "no"]
    BY DEF Opened
  <2> QED
    BY <1>0, <2>1, TermAt DEF Gets, Same, Terms
<1>2. /\ call' \in [Callers -> CallStates] /\ OthersSame(c)
      /\ call'[c].pc = "settle" /\ call'[c].result = "session" /\ call'[c].n = n
      /\ call'[c].target = call[c].target /\ call'[c].told = call[c].told
  BY <1>0, SettlingMoves DEF OthersSame, Opened
<1> QED
  BY <1>0, <1>1, <1>2 DEF Continues, Opening

\* A success that comes after shutdown is to be terminated first; any other
\* result is published at once.
LEMMA SettleStep ==
  ASSUME WebUDPAssumption, TypeInv, OpenerInv, StageInv, NEW c \in Callers, Settle(c)
  PROVE  /\ call[c].pc = "settle"
         /\ \/ /\ Continues(c) /\ SameSessions /\ UNCHANGED <<session, slots, serverVars>>
               /\ call'[c].told = call[c].told
               /\ Closed /\ call[c].result = "session" /\ call'[c].pc = "late"
            \/ /\ Publishes(c, "session")
               /\ call'[c].told = call[c].told
               /\ ~Closed /\ call[c].result = "session" /\ call'[c].pc = "have"
               /\ sessions' = [sessions EXCEPT ![call[c].target] = call[c].n]
               /\ Sender(call[c].n, "idle")
            \/ \E r \in Errors :
               /\ Publishes(c, r) /\ r = call[c].result /\ call'[c].pc = "idle"
               /\ call'[c].told <=> r \in Terminal
               /\ UNCHANGED <<sessions, session>>
<1> DEFINE n == call[c].n
           t == call[c].target
           r == call[c].result
<1>0. /\ call \in [Callers -> CallStates] /\ session \in [Openings -> SessionStates]
      /\ call[c].pc = "settle" /\ Opening(c) /\ n \in Openings
      /\ call[c] \in CallStates /\ r # "none"
  BY DEF TypeInv, OpenerInv, StageInv, StageOf, Opening, Settle
<1>u. UNCHANGED <<pdone, shutdown, snapshot, slots, dead, serverVars>>
  BY DEF Settle
<1>1. CASE r = "session" /\ Closed
  <2>1. Go(c, "late") /\ UNCHANGED <<sessions, pending, opening, session>>
    BY <1>1 DEF Settle
  <2>2. /\ call' \in [Callers -> CallStates] /\ OthersSame(c)
        /\ call'[c].pc = "late" /\ call'[c].n = n /\ call'[c].target = t
        /\ call'[c].told = call[c].told
    BY <1>0, <2>1, GoMoves DEF OthersSame, Pcs
  <2>3. Continues(c) /\ SameSessions
    BY <1>0, <1>u, <2>1, <2>2 DEF Continues, Opening, SameSessions, Same, packetVars
  <2> QED
    BY <1>0, <1>1, <1>u, <2>1, <2>2, <2>3
<1>2. CASE r = "session" /\ ~Closed
  <2>1. /\ pending' = [pending EXCEPT ![t] = 0] /\ opening' = [opening EXCEPT ![n] = r]
        /\ sessions' = [sessions EXCEPT ![t] = n] /\ Sender(n, "idle")
        /\ call' = [call EXCEPT ![c].pc = "have", ![c].result = "none"]
    BY <1>2 DEF Settle, Sender
  <2>2. call' = [call EXCEPT ![c] = [call[c] EXCEPT !.pc = "have", !.result = "none"]]
    BY <2>1
  <2>3. [call[c] EXCEPT !.pc = "have", !.result = "none"] \in CallStates
    BY <1>0 DEF CallStates, Pcs
  <2>4. /\ call' \in [Callers -> CallStates] /\ OthersSame(c)
        /\ call'[c] = [call[c] EXCEPT !.pc = "have", !.result = "none"]
    BY <1>0, <2>2, <2>3 DEF OthersSame
  <2>5. call'[c].pc = "have" /\ call'[c].n = n /\ call'[c].told = call[c].told
    BY <1>0, <2>4 DEF CallStates
  <2>6. Publishes(c, "session")
    BY <1>0, <1>2, <1>u, <2>1, <2>4, <2>5 DEF Publishes
  <2> QED
    BY <1>0, <1>2, <2>1, <2>5, <2>6
<1>3. CASE r # "session"
  <2>1. r \in Errors
    BY <1>0, <1>3 DEF CallStates
  <2>2. /\ pending' = [pending EXCEPT ![t] = 0] /\ opening' = [opening EXCEPT ![n] = r]
        /\ Return(c, TargetSendError(r)) /\ UNCHANGED <<sessions, session>>
    BY <1>3 DEF Settle
  <2>3. /\ call' \in [Callers -> CallStates] /\ OthersSame(c)
        /\ call'[c].pc = "idle" /\ (call'[c].told <=> TargetSendError(r) \notin GoesOn)
    BY <1>0, <2>2, ReturnMoves DEF OthersSame
  <2>5. call'[c].told <=> r \in Terminal
    BY <2>1, <2>3 DEF TargetSendError, GoesOn, Errors, Terminal
  <2>4. Publishes(c, r)
    BY <1>0, <1>u, <2>2, <2>3 DEF Publishes
  <2> QED
    BY <1>0, <2>1, <2>2, <2>3, <2>4, <2>5
<1> QED
  BY <1>1, <1>2, <1>3

\* The late session has been terminated: its opening is over.
LEMMA LateStep ==
  ASSUME WebUDPAssumption, TypeInv, OpenerInv, NEW c \in Callers, Late(c)
  PROVE  /\ Publishes(c, "closed") /\ call'[c].pc = "idle"
         /\ call[c].pc = "late" /\ session[call[c].n].term = "done"
         /\ UNCHANGED <<sessions, session>>
<1>0. /\ call \in [Callers -> CallStates] /\ call[c].pc = "late"
      /\ session[call[c].n].term = "done"
      /\ pending' = [pending EXCEPT ![call[c].target] = 0]
      /\ opening' = [opening EXCEPT ![call[c].n] = "closed"] /\ Return(c, "closed")
      /\ UNCHANGED <<pdone, shutdown, snapshot, sessions, session, slots, dead, serverVars>>
  BY DEF TypeInv, Late
<1>1. call' \in [Callers -> CallStates] /\ OthersSame(c) /\ call'[c].pc = "idle"
  BY <1>0, ReturnMoves DEF OthersSame
<1> QED
  BY <1>0, <1>1 DEF Publishes

\* terminate begins, of a published session or of a late one.
LEMMA TerminateStep ==
  ASSUME TypeInv, NEW n \in Openings, Terminate(n)
  PROVE  /\ session[n].term = "no" /\ TermTo(n, "canceled")
         /\ \/ session[n].sender # "none"
            \/ \E c \in Callers : call[c].pc = "late" /\ call[c].n = n
         /\ UNCHANGED <<call, packetVars, opening, slots, dead, serverVars>>
BY DEF Terminate, Started

\* Terminated empties the queue and gives the slot back.
LEMMA TerminatedStep ==
  ASSUME TypeInv, NEW n \in Openings, Terminated(n)
  PROVE  /\ session[n].term = "removed" /\ slots' = slots - 1
         /\ session' \in [Openings -> SessionStates]
         /\ session'[n].term = "done" /\ session'[n].sender = session[n].sender
         /\ \A m \in Openings : m # n => session'[m] = session[m]
         /\ UNCHANGED <<call, packetVars, opening, dead, serverVars>>
<1>0. session[n] \in SessionStates /\ session \in [Openings -> SessionStates]
  BY DEF TypeInv
<1>1. session' = [session EXCEPT ![n] = [session[n] EXCEPT !.term = "done", !.out = 0]]
  BY DEF Terminated
<1>2. [session[n] EXCEPT !.term = "done", !.out = 0] \in SessionStates
  BY <1>0 DEF SessionStates, Terms
<1>3. /\ session' \in [Openings -> SessionStates]
      /\ session'[n] = [session[n] EXCEPT !.term = "done", !.out = 0]
      /\ \A m \in Openings : m # n => session'[m] = session[m]
  BY <1>0, <1>1, <1>2
<1>4. session'[n].term = "done" /\ session'[n].sender = session[n].sender
  BY <1>0, <1>3 DEF SessionStates
<1> QED
  BY <1>3, <1>4 DEF Terminated, GivesBack

\* The steps of a sender.
LEMMA SenderStep ==
  ASSUME TypeInv, NEW n \in Openings,
         Takes(n) \/ Sent(n) \/ SendFails(n) \/ SenderDone(n)
  PROVE  SenderGoesOn(n)
<1>0. session[n] \in SessionStates /\ session \in [Openings -> SessionStates]
  BY DEF TypeInv
<1>1. CASE Takes(n)
  <2> DEFINE new == [session[n] EXCEPT !.sender = "sending", !.out = session[n].out - 1]
  <2>1. session' = [session EXCEPT ![n] = new]
    BY <1>1 DEF Takes
  <2>2. session[n].out - 1 \in Nat
    BY <1>0, <1>1 DEF Takes, SessionStates
  <2>3. new \in SessionStates
    BY <1>0, <2>2 DEF SessionStates
  <2>4. new.sender = "sending" /\ new.term = session[n].term
    BY <1>0 DEF SessionStates
  <2> HIDE DEF new
  <2>5. /\ session' \in [Openings -> SessionStates] /\ session'[n] = new
        /\ \A m \in Openings : m # n => session'[m] = session[m]
    BY <1>0, <2>1, <2>3
  <2>6. session[n].sender = "idle" /\ UNCHANGED <<call, packetVars, opening, slots, dead, serverVars>>
    BY <1>1 DEF Takes, sessionOnly
  <2> QED
    BY <2>4, <2>5, <2>6 DEF SenderGoesOn
<1>2. CASE Sent(n) \/ SendFails(n) \/ SenderDone(n)
  <2>1. PICK to \in {"idle", "failed", "joined"} : Sender(n, to)
          /\ (to = "joined" => session[n].term = "done")
    BY <1>2 DEF Sent, SendFails, SenderDone
  <2>2. session[n].sender \in {"idle", "sending", "failed"}
        /\ UNCHANGED <<call, packetVars, opening, slots, dead, serverVars>>
    BY <1>2 DEF Sent, SendFails, SenderDone, sessionOnly
  <2>3. /\ session' \in [Openings -> SessionStates]
        /\ session'[n].sender = to /\ session'[n].term = session[n].term
        /\ \A m \in Openings : m # n => session'[m] = session[m]
    BY <1>0, <2>1, SenderMoves
  <2> QED
    BY <2>1, <2>2, <2>3 DEF SenderGoesOn
<1> QED
  BY <1>1, <1>2

\* One handler's pc.
LEMMA HandlerMoves ==
  ASSUME server \in [Openings -> ServerStates], NEW n \in Openings,
         NEW pc \in {"request", "refused", "rejected", "resolving", "ending", "over"},
         server' = [server EXCEPT ![n].pc = pc]
  PROVE  /\ server' \in [Openings -> ServerStates]
         /\ server'[n].pc = pc /\ \A m \in Openings : m # n => server'[m] = server[m]
<1>1. server' = [server EXCEPT ![n] = [server[n] EXCEPT !.pc = pc]]
  OBVIOUS
<1>2. server[n] \in ServerStates /\ [server[n] EXCEPT !.pc = pc] \in ServerStates
  BY DEF ServerStates
<1>3. server'[n] = [server[n] EXCEPT !.pc = pc]
  BY <1>1
<1>4. server'[n].pc = pc
  BY <1>2, <1>3 DEF ServerStates
<1> QED
  BY <1>1, <1>2, <1>4

\* The steps of a handler: a lease is taken on admission and given back by a
\* refusal or on leaving.
ServerMoves(n) ==
  \/ Admits(n) \/ Refuses(n) \/ Answers(n) \/ Responds(n) \/ Responded(n) \/ Ends(n)
  \/ SenderEnds(n) \/ Leaves(n)
IsServed(n) == server[n].pc \in {"resolving", "running", "ending"}
LEMMA ServerStep ==
  ASSUME TypeInv, NEW n \in Openings, ServerMoves(n)
  PROVE  /\ server' \in [Openings -> ServerStates]
         /\ server[n].pc # "none" \/ server'[n].pc = "none"
         /\ \A m \in Openings : m # n => server'[m] = server[m]
         /\ \/ leases' = leases /\ (IsServed(n)' <=> IsServed(n))
            \/ leases' = leases + 1 /\ ~IsServed(n) /\ IsServed(n)'
            \/ leases' = leases - 1 /\ IsServed(n) /\ ~IsServed(n)'
         /\ UNCHANGED <<call, packetVars, opening, session, slots, dead>>
<1>0. server \in [Openings -> ServerStates] /\ server[n] \in ServerStates
  BY DEF TypeInv
<1>u. UNCHANGED <<call, packetVars, opening, session, slots, dead>>
  BY DEF ServerMoves, Admits, Refuses, Answers, Responds, Responded, Ends, SenderEnds,
         Leaves, clientVars
<1>1. CASE Admits(n) \/ Refuses(n) \/ Ends(n) \/ Leaves(n)
  <2>1. PICK pc \in {"refused", "rejected", "resolving", "ending", "over"} :
          /\ server' = [server EXCEPT ![n].pc = pc]
          /\ \/ pc \in {"refused", "rejected"} /\ server[n].pc = "request" /\ leases' = leases
             \/ pc = "resolving" /\ server[n].pc = "request" /\ leases' = leases + 1
             \/ pc = "refused" /\ server[n].pc = "resolving" /\ leases' = leases - 1
             \/ pc = "ending" /\ server[n].pc = "running" /\ leases' = leases
             \/ pc = "over" /\ server[n].pc = "ending" /\ leases' = leases - 1
    BY <1>1 DEF Admits, Refuses, Ends, Leaves, Handler
  <2>2. /\ server' \in [Openings -> ServerStates] /\ server'[n].pc = pc
        /\ \A m \in Openings : m # n => server'[m] = server[m]
    BY <1>0, <2>1, HandlerMoves
  <2> QED
    BY <1>u, <2>1, <2>2 DEF IsServed
<1>2. CASE Answers(n)
  <2>1. /\ server' = [server EXCEPT ![n] = [pc |-> "running", sender |-> "idle"]]
        /\ server[n].pc = "resolving" /\ leases' = leases
    BY <1>2 DEF Answers
  <2> QED
    BY <1>0, <1>u, <2>1 DEF ServerStates, IsServed
<1>3. CASE Responds(n) \/ Responded(n) \/ SenderEnds(n)
  <2>1. PICK to \in {"idle", "sending", "done"} :
          server' = [server EXCEPT ![n] = [server[n] EXCEPT !.sender = to]]
    BY <1>3 DEF Responds, Responded, SenderEnds
  <2>2. /\ [server[n] EXCEPT !.sender = to] \in ServerStates
        /\ [server[n] EXCEPT !.sender = to].pc = server[n].pc
    BY <1>0 DEF ServerStates
  <2>3. /\ server' \in [Openings -> ServerStates] /\ server'[n].pc = server[n].pc
        /\ \A m \in Openings : m # n => server'[m] = server[m]
    BY <1>0, <2>1, <2>2
  <2>4. leases' = leases
    BY <1>3 DEF Responds, Responded, SenderEnds
  <2> QED
    BY <1>u, <2>3, <2>4 DEF IsServed
<1> QED
  BY <1>1, <1>2, <1>3 DEF ServerMoves

\* The end of a connection, by either end's watcher or the network.
Dies == UNCHANGED <<call, packetVars, opening, session, slots, serverVars>>

\* The steps by kind.
LEMMA StepKinds ==
  ASSUME WebUDPAssumption, TypeInv, OpenerInv, [Next]_vars
  PROVE  \/ \E c \in Callers : Quiet(c)
         \/ \E c \in Callers, n \in Openings : StartsOpening(c, n)
         \/ \E c \in Callers : \/ Reserve(c) \/ Request(c) \/ OpenFails(c) \/ Opened(c)
                               \/ Settle(c) \/ Late(c)
         \/ \E n \in Openings : \/ Terminate(n) \/ Remove(n) \/ Terminated(n)
                                \/ SenderGoesOn(n)
         \/ \E n \in Openings : ServerMoves(n)
         \/ Dies
         \/ ClientCloses \/ CloseBegins \/ CloseGoesOn
<1>1. ASSUME NEW c \in Callers, Calls(c)
      PROVE  \/ Quiet(c) \/ \E n \in Openings : StartsOpening(c, n)
             \/ Reserve(c) \/ Request(c) \/ OpenFails(c) \/ Opened(c) \/ Settle(c) \/ Late(c)
  <2>1. Look(c) => Quiet(c) \/ \E n \in Openings : StartsOpening(c, n)
    BY LookStep
  <2>2. Await(c) \/ Enqueue(c) => Quiet(c)
    BY AwaitEnqueueStep
  <2> QED
    BY <1>1, <2>1, <2>2 DEF Calls
<1>2. ASSUME NEW c \in Callers, NEW t \in Targets, Send(c, t) PROVE Quiet(c)
  BY <1>2, SendStep
<1>3. ASSUME NEW n \in Openings, Kill(n) \/ ServerKills(n) PROVE Dies
  BY <1>3 DEF Kill, ServerKills, Dies, sessionOnly, clientVars
<1>4. ASSUME NEW n \in Openings, Works(n) \/ Sent(n)
      PROVE  Terminate(n) \/ Remove(n) \/ Terminated(n) \/ SenderGoesOn(n) \/ Dies
  BY <1>3, <1>4, SenderStep DEF Works
<1>5. ASSUME NEW n \in Openings, Serves(n) \/ Responds(n) \/ Responded(n) \/ Ends(n)
      PROVE  ServerMoves(n) \/ Dies
  BY <1>3, <1>5 DEF Serves, ServerMoves, RequestEnds
<1>6. ASSUME NEW w \in Wires, WireDies(w) PROVE Dies
  BY <1>6 DEF WireDies, Dies, clientVars
<1>7. UNCHANGED vars => Dies
  BY DEF vars, Dies
<1> QED
  BY <1>1, <1>2, <1>4, <1>5, <1>6, <1>7 DEF Next

-----------------------------------------------------------------------------
(* Every step keeps every part of IInv. *)

\* The types.
LEMMA KeepsTypes ==
  ASSUME WebUDPAssumption, IInv, [Next]_vars
  PROVE  TypeInv'
<1>0. TypeInv /\ OpenerInv /\ StageInv
  BY DEF IInv
<1> USE DEF packetVars, serverVars
<1>u. ASSUME call' \in [Callers -> CallStates], session' \in [Openings -> SessionStates],
             server' \in [Openings -> ServerStates], UNCHANGED <<packetVars, opening>>
      PROVE  TypeInv'
  BY <1>0, <1>u DEF TypeInv
<1>p. ASSUME NEW c \in Callers, NEW r \in Errors \cup {"session"}, Publishes(c, r),
             session' \in [Openings -> SessionStates],
             sessions' \in [Targets -> {0} \cup Openings]
      PROVE  TypeInv'
  BY <1>0, <1>p DEF TypeInv, Publishes
<1>1. ASSUME NEW c \in Callers, Quiet(c) PROVE TypeInv'
  BY <1>0, <1>1, <1>u DEF Quiet, SameSessions, TypeInv
<1>2. ASSUME NEW c \in Callers, NEW n \in Openings, StartsOpening(c, n) PROVE TypeInv'
  BY <1>0, <1>2 DEF StartsOpening, TypeInv
<1>3. ASSUME NEW c \in Callers,
             Reserve(c) \/ Request(c) \/ OpenFails(c) \/ Opened(c) \/ Settle(c) \/ Late(c)
      PROVE  TypeInv'
  <2>0. /\ session \in [Openings -> SessionStates]
        /\ server \in [Openings -> ServerStates]
        /\ call[c].pc \in {"settle", "connect"} => call[c].n \in Openings
        /\ sessions \in [Targets -> {0} \cup Openings]
    BY <1>0 DEF TypeInv, OpenerInv, Opening
  <2>1. CASE Reserve(c) \/ OpenFails(c) \/ Opened(c)
    <3>1. /\ call' \in [Callers -> CallStates] /\ session' \in [Openings -> SessionStates]
          /\ UNCHANGED <<packetVars, opening, server>>
      BY <1>0, <2>1, ReserveStep, OpenFailsStep, OpenedStep
      DEF Continues, SameSessions, Gets
    <3> QED
      BY <1>u, <2>0, <3>1
  <2>2. CASE Request(c)
    <3>1. /\ call' \in [Callers -> CallStates] /\ session' \in [Openings -> SessionStates]
          /\ UNCHANGED <<packetVars, opening>> /\ call[c].pc = "connect"
          /\ server' = [server EXCEPT ![call[c].n].pc = "request"]
      BY <1>0, <2>2, RequestStep DEF Continues, SameSessions
    <3>2. server' \in [Openings -> ServerStates]
      BY <2>0, <3>1, HandlerMoves
    <3> QED
      BY <1>u, <3>1, <3>2
  <2>3. CASE Settle(c)
    <3>1. CASE Continues(c) /\ SameSessions /\ UNCHANGED <<session, slots, serverVars>>
      BY <1>u, <2>0, <3>1 DEF Continues, SameSessions
    <3>2. CASE /\ Publishes(c, "session") /\ Sender(call[c].n, "idle")
               /\ sessions' = [sessions EXCEPT ![call[c].target] = call[c].n]
      <4>1. call[c].n \in Openings
        BY <2>0, <2>3 DEF Settle
      <4>2. session' \in [Openings -> SessionStates]
        BY <2>0, <3>2, <4>1, SenderMoves
      <4>3. sessions' \in [Targets -> {0} \cup Openings]
        BY <2>0, <3>2, <4>1
      <4> QED
        BY <1>p, <3>2, <4>2, <4>3
    <3>3. ASSUME NEW r \in Errors, Publishes(c, r), UNCHANGED <<sessions, session>>
          PROVE  TypeInv'
      BY <1>p, <2>0, <3>3
    <3> QED
      BY <1>0, <2>3, <3>1, <3>2, <3>3, SettleStep
  <2>4. CASE Late(c)
    BY <1>0, <1>p, <2>0, <2>4, LateStep DEF Errors
  <2> QED
    BY <1>3, <2>1, <2>2, <2>3, <2>4
<1>4. ASSUME NEW n \in Openings, Terminate(n) \/ Terminated(n) \/ SenderGoesOn(n) \/ Remove(n)
      PROVE  TypeInv'
  <2>1. CASE Terminate(n)
    BY <1>0, <1>u, <2>1, TerminateStep, TermMoves DEF Terms, TypeInv
  <2>2. CASE Terminated(n)
    BY <1>0, <1>u, <2>2, TerminatedStep DEF TypeInv
  <2>3. CASE SenderGoesOn(n)
    BY <1>0, <1>u, <2>3 DEF SenderGoesOn, TypeInv
  <2>4. CASE Remove(n)
    <3>1. session' \in [Openings -> SessionStates]
      BY <1>0, <2>4, TermMoves DEF Remove, Terms, TypeInv
    <3>2. sessions' \in [Targets -> {0} \cup Openings]
      BY <1>0, <2>4 DEF Remove, TypeInv
    <3> QED
      BY <1>0, <2>4, <3>1, <3>2 DEF Remove, TypeInv
  <2> QED
    BY <1>4, <2>1, <2>2, <2>3, <2>4
<1>5. ASSUME NEW n \in Openings, ServerMoves(n) PROVE TypeInv'
  BY <1>0, <1>u, <1>5, ServerStep DEF TypeInv
<1>6. CASE Dies
  BY <1>0, <1>u, <1>6 DEF Dies, TypeInv
<1>7. CASE ClientCloses \/ CloseBegins \/ CloseGoesOn
  <2>1. UNCHANGED <<call, sessions, pending, opening, session, server>>
    BY <1>7 DEF ClientCloses, CloseBegins, CloseGoesOn
  <2>2. OwnedOpenings \subseteq Openings /\ {sessions[t] : t \in Targets} \ {0} \subseteq Openings
    BY <1>0 DEF OwnedOpenings, TypeInv
  <2>3. /\ pdone' \in BOOLEAN
        /\ shutdown' \in {"idle", "sessions", "pending", "workers", "done"}
        /\ snapshot' \in [sessions : SUBSET Openings, pending : SUBSET Openings]
    <3>1. CASE ClientCloses
      BY <1>0, <3>1 DEF ClientCloses, TypeInv
    <3>2. CASE CloseBegins
      BY <1>0, <2>2, <3>2 DEF CloseBegins, TypeInv
    <3>3. CASE CloseGoesOn
      BY <1>0, <3>3 DEF CloseGoesOn, TypeInv
    <3> QED
      BY <1>7, <3>1, <3>2, <3>3
  <2> QED
    BY <1>0, <2>1, <2>3 DEF TypeInv
<1> QED
  BY <1>0, <1>1, <1>2, <1>3, <1>4, <1>5, <1>6, <1>7, StepKinds

\* The steps of an opening that do not publish it, and those that do.
LEMMA OpenerSteps ==
  ASSUME WebUDPAssumption, TypeInv, OpenerInv, StageInv, NEW c \in Callers,
         Reserve(c) \/ Request(c) \/ OpenFails(c) \/ Opened(c) \/ Settle(c) \/ Late(c)
  PROVE  Continues(c) \/ \E r \in Errors \cup {"session"} : Publishes(c, r)
<1>1. CASE Reserve(c) \/ Request(c) \/ OpenFails(c) \/ Opened(c)
  BY <1>1, ReserveStep, RequestStep, OpenFailsStep, OpenedStep
<1>2. CASE Settle(c)
  BY <1>2, SettleStep
<1>3. CASE Late(c)
  BY <1>3, LateStep DEF Errors
<1> QED
  BY <1>1, <1>2, <1>3

\* Who opens what.
LEMMA KeepsOpeners ==
  ASSUME WebUDPAssumption, IInv, [Next]_vars
  PROVE  OpenerInv'
<1>0. TypeInv /\ OpenerInv /\ StageInv
  BY DEF IInv
<1>t. /\ call \in [Callers -> CallStates]
      /\ pending \in [Targets -> {0} \cup Openings]
      /\ opening \in [Openings -> Errors \cup {"none", "open", "session"}]
      /\ \A c \in Callers : call[c].target \in Targets
  BY <1>0 DEF TypeInv, CallStates
<1>1. ASSUME NEW c \in Callers, Quiet(c) PROVE OpenerInv'
  <2>1. /\ ~Opening(c) /\ ~Opening(c)' /\ UNCHANGED <<pending, opening>>
        /\ call'[c].pc \in {"have", "await"} => call'[c].n \in Openings
        /\ \A d \in Callers : d # c => call'[d] = call[d]
    BY <1>1 DEF Quiet, OthersSame, packetVars
  <2>2. \A d \in Callers : (Opening(d)' <=> Opening(d)) /\ (Opening(d) => call'[d] = call[d])
    BY <2>1 DEF Opening
  <2> QED
    BY <1>0, <2>1, <2>2 DEF OpenerInv
<1>2. ASSUME NEW c \in Callers, NEW n \in Openings, StartsOpening(c, n) PROVE OpenerInv'
  <2> DEFINE t == call[c].target
  <2>1. /\ \A d \in Callers : d # c => call'[d] = call[d]
        /\ ~Opening(c) /\ Opening(c)' /\ call'[c].n = n /\ call'[c].target = t
        /\ opening[n] = "none" /\ pending[t] = 0 /\ t \in Targets
        /\ call'[c].pc \notin {"have", "await"}
    BY <1>t, <1>2 DEF StartsOpening, OthersSame, Opening
  <2>2. /\ pending'[t] = n /\ \A u \in Targets : u # t => pending'[u] = pending[u]
        /\ opening'[n] = "open" /\ \A m \in Openings : m # n => opening'[m] = opening[m]
    BY <1>t, <1>2 DEF StartsOpening
  <2>3. \A d \in Callers : d # c => (Opening(d)' <=> Opening(d))
    BY <2>1 DEF Opening
  <2>4. \A d \in Callers : Opening(d) => call[d].n # n /\ call[d].target # t
    <3>1. 0 \notin Openings
      BY DEF Openings, WebUDPAssumption
    <3>2. \A d \in Callers : Opening(d) =>
            /\ call[d].n \in Openings /\ opening[call[d].n] = "open"
            /\ pending[call[d].target] = call[d].n
      BY <1>0 DEF OpenerInv
    <3> QED
      BY <2>1, <3>1, <3>2
  <2> HIDE DEF t
  <2>5. \A d \in Callers : (call[d].pc \in {"have", "await"} \/ Opening(d))' => call'[d].n \in Openings
    BY <1>0, <2>1, <2>3 DEF OpenerInv
  <2>6. \A d \in Callers : Opening(d)' =>
          opening'[call'[d].n] = "open" /\ pending'[call'[d].target] = call'[d].n
    BY <1>0, <1>t, <2>1, <2>2, <2>3, <2>4 DEF OpenerInv
  <2>7. \A d, e \in Callers : Opening(d)' /\ Opening(e)' /\ call'[d].n = call'[e].n => d = e
    BY <1>0, <2>1, <2>3, <2>4 DEF OpenerInv
  <2>8. \A u \in Targets : pending'[u] # 0 =>
          \E d \in Callers : Opening(d)' /\ call'[d].target = u /\ call'[d].n = pending'[u]
    BY <1>0, <2>1, <2>2, <2>3 DEF OpenerInv
  <2>9. \A m \in Openings : opening'[m] = "open" =>
          \E d \in Callers : Opening(d)' /\ call'[d].n = m
    BY <1>0, <2>1, <2>2, <2>3 DEF OpenerInv
  <2> QED
    BY <2>5, <2>6, <2>7, <2>8, <2>9 DEF OpenerInv
<1>3. ASSUME NEW c \in Callers, Continues(c) PROVE OpenerInv'
  <2>1. /\ Opening(c) /\ Opening(c)' /\ UNCHANGED <<pending, opening>>
        /\ call'[c].n = call[c].n /\ call'[c].target = call[c].target
        /\ \A d \in Callers : d # c => call'[d] = call[d]
    BY <1>3 DEF Continues, OthersSame, packetVars
  <2>2. \A d \in Callers : Opening(d)' <=> Opening(d)
    BY <2>1 DEF Opening
  <2>3. \A d \in Callers : call'[d].n = call[d].n /\ call'[d].target = call[d].target
    BY <2>1
  <2>4. \A d \in Callers : (call[d].pc \in {"have", "await"} \/ Opening(d))' => call'[d].n \in Openings
    BY <1>0, <2>1, <2>2 DEF OpenerInv
  <2> QED
    BY <1>0, <2>1, <2>2, <2>3, <2>4 DEF OpenerInv
<1>4. ASSUME NEW c \in Callers, NEW r \in Errors \cup {"session"}, Publishes(c, r)
      PROVE  OpenerInv'
  <2> DEFINE t == call[c].target
             n == call[c].n
  <2>1. /\ \A d \in Callers : d # c => call'[d] = call[d]
        /\ Opening(c) /\ ~Opening(c)' /\ t \in Targets /\ n \in Openings
        /\ call'[c].pc \in {"have", "await"} => call'[c].n \in Openings
    BY <1>0, <1>t, <1>4 DEF Publishes, OthersSame, Opening, OpenerInv
  <2>2. /\ pending'[t] = 0 /\ \A u \in Targets : u # t => pending'[u] = pending[u]
        /\ opening'[n] # "open" /\ \A m \in Openings : m # n => opening'[m] = opening[m]
    BY <1>t, <1>4, <2>1 DEF Publishes, Errors
  <2>3. \A d \in Callers : d # c => (Opening(d)' <=> Opening(d))
    BY <2>1 DEF Opening
  <2>4. \A d \in Callers : d # c /\ Opening(d) => call[d].n # n /\ call[d].target # t
    BY <1>0, <2>1 DEF OpenerInv
  <2>5. pending[t] = n
    BY <1>0, <2>1 DEF OpenerInv
  <2> HIDE DEF t, n
  <2>6. \A d \in Callers : (call[d].pc \in {"have", "await"} \/ Opening(d))' => call'[d].n \in Openings
    BY <1>0, <2>1, <2>3 DEF OpenerInv
  <2>7. \A d \in Callers : Opening(d)' =>
          opening'[call'[d].n] = "open" /\ pending'[call'[d].target] = call'[d].n
    BY <1>0, <1>t, <2>1, <2>2, <2>3, <2>4 DEF OpenerInv
  <2>8. \A d, e \in Callers : Opening(d)' /\ Opening(e)' /\ call'[d].n = call'[e].n => d = e
    BY <1>0, <2>1, <2>3 DEF OpenerInv
  <2>9. \A u \in Targets : pending'[u] # 0 =>
          \E d \in Callers : Opening(d)' /\ call'[d].target = u /\ call'[d].n = pending'[u]
    <3> SUFFICES ASSUME NEW u \in Targets, pending'[u] # 0
                 PROVE  \E d \in Callers : Opening(d)' /\ call'[d].target = u /\ call'[d].n = pending'[u]
      OBVIOUS
    <3>1. u # t /\ pending'[u] = pending[u]
      BY <2>2
    <3>2. PICK d \in Callers : Opening(d) /\ call[d].target = u /\ call[d].n = pending[u]
      BY <1>0, <3>1 DEF OpenerInv
    <3>3. d # c
      BY <3>1, <3>2 DEF t
    <3> QED
      BY <2>1, <2>3, <3>1, <3>2, <3>3
  <2>10. \A m \in Openings : opening'[m] = "open" =>
           \E d \in Callers : Opening(d)' /\ call'[d].n = m
    <3> SUFFICES ASSUME NEW m \in Openings, opening'[m] = "open"
                 PROVE  \E d \in Callers : Opening(d)' /\ call'[d].n = m
      OBVIOUS
    <3>1. m # n /\ opening[m] = "open"
      BY <2>2
    <3>2. PICK d \in Callers : Opening(d) /\ call[d].n = m
      BY <1>0, <3>1 DEF OpenerInv
    <3>3. d # c
      BY <3>1, <3>2 DEF n
    <3> QED
      BY <2>1, <2>3, <3>2, <3>3
  <2> QED
    BY <2>6, <2>7, <2>8, <2>9, <2>10 DEF OpenerInv
<1>5. ASSUME UNCHANGED <<call, pending, opening>> PROVE OpenerInv'
  BY <1>0, <1>5 DEF OpenerInv, Opening
<1>6. ASSUME NEW n \in Openings,
             Terminate(n) \/ Terminated(n) \/ SenderGoesOn(n) \/ Remove(n) \/ ServerMoves(n)
      PROVE  OpenerInv'
  BY <1>0, <1>5, <1>6, TerminateStep, TerminatedStep, ServerStep
  DEF Remove, SenderGoesOn, packetVars
<1>7. CASE Dies \/ ClientCloses \/ CloseBegins \/ CloseGoesOn
  BY <1>5, <1>7 DEF Dies, ClientCloses, CloseBegins, CloseGoesOn, packetVars
<1> QED
  BY <1>0, <1>1, <1>2, <1>3, <1>4, <1>6, <1>7, StepKinds, OpenerSteps

\* How far each session is.
LEMMA KeepsStages ==
  ASSUME WebUDPAssumption, IInv, [Next]_vars
  PROVE  StageInv'
<1>0. TypeInv /\ OpenerInv /\ StageInv
  BY DEF IInv
<1>t. /\ call \in [Callers -> CallStates]
      /\ opening \in [Openings -> Errors \cup {"none", "open", "session"}]
      /\ session \in [Openings -> SessionStates]
      /\ \A c \in Callers : Opening(c) => call[c].n \in Openings /\ opening[call[c].n] = "open"
      /\ \A c, d \in Callers : Opening(c) /\ Opening(d) /\ call[c].n = call[d].n => c = d
  BY <1>0 DEF TypeInv, OpenerInv
\* The sessions that are not at work keep their stage.
<1>u. ASSUME UNCHANGED opening, SameSessions,
             \A d \in Callers : (Opening(d)' => Opening(d)) /\ (Opening(d)' => call'[d] = call[d])
      PROVE  StageInv'
  BY <1>0, <1>t, <1>u DEF StageInv, StageOf, SameSessions, Same
<1>1. ASSUME NEW c \in Callers, Quiet(c) PROVE StageInv'
  <2>1. \A d \in Callers : (Opening(d)' => Opening(d)) /\ (Opening(d)' => call'[d] = call[d])
    BY <1>1 DEF Quiet, OthersSame, Opening
  <2> QED
    BY <1>1, <1>u, <2>1 DEF Quiet
<1>2. ASSUME NEW c \in Callers, NEW n \in Openings, StartsOpening(c, n) PROVE StageInv'
  <2>1. /\ \A d \in Callers : d # c => call'[d] = call[d]
        /\ call'[c].pc = "reserve" /\ call'[c].n = n
        /\ opening[n] = "none" /\ UNCHANGED session
    BY <1>2 DEF StartsOpening, OthersSame
  <2>2. opening'[n] = "open" /\ \A m \in Openings : m # n => opening'[m] = opening[m]
    BY <1>t, <1>2 DEF StartsOpening
  <2>3. session[n].term = "none" /\ session[n].sender = "none"
    BY <1>0, <2>1 DEF StageInv
  <2>4. \A d \in Callers : d # c => (Opening(d)' <=> Opening(d))
    BY <2>1 DEF Opening
  <2>5. \A d \in Callers : Opening(d)' => StageOf(d, call[d].n)'
    <3>1. StageOf(c, call[c].n)'
      BY <2>1, <2>3 DEF StageOf
    <3> QED
      BY <1>0, <2>1, <2>4, <3>1 DEF StageInv, StageOf
  <2> QED
    BY <1>0, <2>1, <2>2, <2>5 DEF StageInv, Errors
\* A step of an opening that is not over.
<1>3. ASSUME NEW c \in Callers, Continues(c), StageOf(c, call[c].n)',
             \A m \in Openings : m # call[c].n => Same(m)
      PROVE  StageInv'
  <2> DEFINE n == call[c].n
  <2>1. /\ Opening(c) /\ UNCHANGED opening /\ n \in Openings /\ opening[n] = "open"
        /\ \A d \in Callers : d # c => call'[d] = call[d]
    BY <1>t, <1>3 DEF Continues, OthersSame
  <2>2. \A d \in Callers : d # c => (Opening(d)' <=> Opening(d))
    BY <2>1 DEF Opening
  <2>3. \A d \in Callers : d # c /\ Opening(d) => call[d].n # n
    BY <1>t, <2>1
  <2>4. \A m \in Openings : m # n =>
          session'[m].term = session[m].term /\ session'[m].sender = session[m].sender
    BY <1>3 DEF Same
  <2> HIDE DEF n
  <2>5. \A d \in Callers : Opening(d)' => StageOf(d, call[d].n)'
    <3> SUFFICES ASSUME NEW d \in Callers, d # c, Opening(d)' PROVE StageOf(d, call[d].n)'
      BY <1>3
    <3>1. call'[d] = call[d] /\ call[d].n \in Openings /\ call[d].n # n /\ Opening(d)
      BY <1>t, <2>1, <2>2, <2>3
    <3>2. StageOf(d, call[d].n)
      BY <1>0, <3>1 DEF StageInv
    <3> QED
      BY <2>4, <3>1, <3>2 DEF StageOf
  <2>6. \A m \in Openings : opening'[m] # "open" => m # n /\ opening'[m] = opening[m]
    BY <2>1
  <2> QED
    BY <1>0, <1>t, <2>4, <2>5, <2>6 DEF StageInv, Errors
<1>4. ASSUME NEW c \in Callers, Reserve(c) \/ Request(c) \/ OpenFails(c) \/ Opened(c)
      PROVE  StageInv'
  <2>0. /\ Opening(c) /\ session[call[c].n].sender = "none"
        /\ call[c].pc \in {"reserve", "connect", "answer"} => session[call[c].n].term = "none"
        /\ call[c].n \in Openings
    <3>1. Opening(c)
      BY <1>4 DEF Reserve, Request, OpenFails, Opened, Opening
    <3>2. StageOf(c, call[c].n)
      BY <1>0, <3>1 DEF StageInv
    <3> QED
      BY <1>t, <3>1, <3>2 DEF StageOf
  <2>1. CASE Reserve(c) \/ Request(c)
    <3>1. /\ Continues(c) /\ SameSessions
          /\ call[c].pc \in {"reserve", "connect"}
          /\ \/ call'[c].pc \in {"connect", "answer"}
             \/ call'[c].pc = "settle" /\ call'[c].result \in {"closed", "limit"}
      BY <1>0, <2>1, ReserveStep, RequestStep
    <3>2. /\ call'[c].n = call[c].n /\ \A m \in Openings : Same(m)
          /\ session'[call[c].n].sender = "none" /\ session'[call[c].n].term = "none"
      BY <2>0, <3>1 DEF Continues, SameSessions, Same
    <3>3. StageOf(c, call[c].n)'
      BY <3>1, <3>2 DEF StageOf
    <3> QED
      BY <1>3, <3>1, <3>2, <3>3
  <2>2. CASE OpenFails(c) \/ Opened(c)
    <3>1. /\ Continues(c) /\ call'[c].pc = "settle"
          /\ \/ Gets(c, "abandoned") /\ call'[c].result \in Errors
             \/ Gets(c, "no") /\ call'[c].result = "session"
      BY <1>0, <2>2, OpenFailsStep, OpenedStep
    <3>2. /\ call'[c].n = call[c].n /\ \A m \in Openings : m # call[c].n => Same(m)
          /\ session'[call[c].n].sender = "none"
          /\ \/ session'[call[c].n].term = "abandoned" /\ call'[c].result \in Errors
             \/ session'[call[c].n].term = "no" /\ call'[c].result = "session"
      BY <2>0, <3>1 DEF Continues, Gets
    <3>3. StageOf(c, call[c].n)'
      BY <3>1, <3>2 DEF StageOf, Errors
    <3> QED
      BY <1>3, <3>1, <3>2, <3>3
  <2> QED
    BY <1>4, <2>1, <2>2
\* What an opening's result says of its session.
<1>5. ASSUME NEW c \in Callers, NEW r \in Errors \cup {"session"}, Publishes(c, r),
             \A m \in Openings : m # call[c].n => session'[m] = session[m],
             r \in Errors => /\ session'[call[c].n].term \in {"none", "abandoned", "done"}
                             /\ session'[call[c].n].sender = "none",
             r = "session" => /\ session'[call[c].n].term = "no"
                              /\ session'[call[c].n].sender = "idle"
      PROVE  StageInv'
  <2> DEFINE n == call[c].n
  <2>1. /\ \A d \in Callers : d # c => call'[d] = call[d]
        /\ Opening(c) /\ ~Opening(c)' /\ n \in Openings
    BY <1>t, <1>5 DEF Publishes, OthersSame, Opening
  <2>2. opening'[n] = r /\ \A m \in Openings : m # n => opening'[m] = opening[m]
    BY <1>t, <1>5, <2>1 DEF Publishes
  <2> HIDE DEF n
  <2>3. \A d \in Callers : Opening(d)' => StageOf(d, call[d].n)'
    <3> SUFFICES ASSUME NEW d \in Callers, Opening(d)' PROVE StageOf(d, call[d].n)'
      OBVIOUS
    <3>1. d # c /\ call'[d] = call[d] /\ Opening(d)
      BY <2>1 DEF Opening
    <3>2. call[d].n \in Openings /\ call[d].n # n
      BY <1>t, <2>1, <3>1 DEF n
    <3>3. session'[call[d].n] = session[call[d].n]
      BY <1>5, <3>2 DEF n
    <3> QED
      BY <1>0, <3>1, <3>3 DEF StageInv, StageOf
  <2>4. \A m \in Openings : m # n => session'[m] = session[m]
    BY <1>5 DEF n
  <2>5. /\ r \in Errors => /\ session'[n].term \in {"none", "abandoned", "done"}
                           /\ session'[n].sender = "none"
        /\ r = "session" => session'[n].term = "no" /\ session'[n].sender = "idle"
    BY <1>5 DEF n
  <2>6. \A m \in Openings :
          /\ opening'[m] = "none" => session'[m].term = "none" /\ session'[m].sender = "none"
          /\ opening'[m] \in Errors =>
               session'[m].term \in {"none", "abandoned", "done"} /\ session'[m].sender = "none"
          /\ opening'[m] = "session" =>
               /\ session'[m].term \in {"no", "canceled", "removed", "done"}
               /\ session'[m].sender # "none"
               /\ session'[m].sender = "joined" => session'[m].term = "done"
    <3> SUFFICES ASSUME NEW m \in Openings
                 PROVE  /\ opening'[m] = "none" => session'[m].term = "none" /\ session'[m].sender = "none"
                        /\ opening'[m] \in Errors =>
                             session'[m].term \in {"none", "abandoned", "done"} /\ session'[m].sender = "none"
                        /\ opening'[m] = "session" =>
                             /\ session'[m].term \in {"no", "canceled", "removed", "done"}
                             /\ session'[m].sender # "none"
                             /\ session'[m].sender = "joined" => session'[m].term = "done"
      OBVIOUS
    <3>1. CASE m = n
      BY <2>2, <2>5, <3>1 DEF Errors
    <3>2. CASE m # n
      BY <1>0, <2>2, <2>4, <3>2 DEF StageInv
    <3> QED
      BY <3>1, <3>2
  <2> QED
    BY <2>3, <2>6 DEF StageInv
<1>6. ASSUME NEW c \in Callers, Settle(c) \/ Late(c) PROVE StageInv'
  <2>0. /\ Opening(c) /\ call[c].n \in Openings /\ StageOf(c, call[c].n)
    BY <1>0, <1>t, <1>6 DEF Settle, Late, Opening, StageInv
  <2>1. CASE /\ Continues(c) /\ SameSessions /\ call[c].pc = "settle"
             /\ call[c].result = "session" /\ call'[c].pc = "late"
    <3>1. /\ call'[c].n = call[c].n /\ \A m \in Openings : Same(m)
          /\ session'[call[c].n].sender = "none" /\ session'[call[c].n].term = "no"
      BY <2>0, <2>1 DEF Continues, SameSessions, Same, StageOf
    <3>2. StageOf(c, call[c].n)'
      BY <2>1, <3>1 DEF StageOf
    <3> QED
      BY <1>3, <2>1, <3>1, <3>2
  <2>2. CASE /\ Publishes(c, "session") /\ call[c].pc = "settle"
             /\ call[c].result = "session" /\ Sender(call[c].n, "idle")
    <3>1. /\ session'[call[c].n].sender = "idle"
          /\ session'[call[c].n].term = session[call[c].n].term
          /\ \A m \in Openings : m # call[c].n => session'[m] = session[m]
      BY <1>t, <2>0, <2>2, SenderMoves
    <3>2. session[call[c].n].term = "no"
      BY <2>0, <2>2 DEF StageOf
    <3> QED
      BY <1>5, <2>2, <3>1, <3>2 DEF Errors
  <2>3. ASSUME NEW r \in Errors, Publishes(c, r), UNCHANGED session,
               call[c].pc = "settle", r = call[c].result
        PROVE  StageInv'
    <3>1. session[call[c].n].term \in {"none", "abandoned"} /\ session[call[c].n].sender = "none"
      BY <2>0, <2>3 DEF StageOf, Errors
    <3>2. r # "session"
      BY DEF Errors
    <3> QED
      BY <1>5, <2>3, <3>1, <3>2
  <2>4. CASE Late(c)
    <3>1. /\ Publishes(c, "closed") /\ UNCHANGED session /\ session[call[c].n].term = "done"
      BY <1>0, <2>4, LateStep
    <3>2. session[call[c].n].sender = "none"
      BY <2>0 DEF StageOf
    <3> QED
      BY <1>5, <3>1, <3>2 DEF Errors
  <2>5. CASE Settle(c)
    BY <1>0, <2>1, <2>2, <2>3, <2>5, SettleStep
  <2> QED
    BY <1>6, <2>4, <2>5

\* terminate's own steps.
<1>7. ASSUME NEW n \in Openings, UNCHANGED <<call, opening>>,
             \A m \in Openings : m # n => session'[m] = session[m],
             session'[n].sender = session[n].sender,
             session[n].term \in {"no", "canceled", "removed"},
             session'[n].term \in {"canceled", "removed", "done"},
             \A c \in Callers : Opening(c) /\ call[c].n = n => call[c].pc = "late"
      PROVE  StageInv'
  <2>1. \A d \in Callers : Opening(d)' => StageOf(d, call[d].n)'
    <3> SUFFICES ASSUME NEW d \in Callers, Opening(d)' PROVE StageOf(d, call[d].n)'
      OBVIOUS
    <3>1. Opening(d) /\ call'[d] = call[d] /\ StageOf(d, call[d].n) /\ call[d].n \in Openings
      BY <1>0, <1>t, <1>7 DEF Opening, StageInv
    <3>2. CASE call[d].n = n
      BY <1>7, <3>1, <3>2 DEF StageOf
    <3>3. CASE call[d].n # n
      BY <1>7, <3>1, <3>3 DEF StageOf
    <3> QED
      BY <3>2, <3>3
  <2>2. opening[n] \notin Errors \cup {"none"}
    BY <1>0, <1>7 DEF StageInv
  <2>3. session[n].sender # "joined" \/ opening[n] # "session"
    BY <1>0, <1>7 DEF StageInv
  <2> QED
    BY <1>0, <1>7, <2>1, <2>2, <2>3 DEF StageInv
<1>8. ASSUME NEW n \in Openings, Terminate(n) \/ Remove(n) \/ Terminated(n) PROVE StageInv'
  <2>1. /\ UNCHANGED <<call, opening>>
        /\ \A m \in Openings : m # n => session'[m] = session[m]
        /\ session'[n].sender = session[n].sender
        /\ session[n].term \in {"no", "canceled", "removed"}
        /\ session'[n].term \in {"canceled", "removed", "done"}
        /\ session[n].term = "no" => \/ session[n].sender # "none"
                                     \/ \E c \in Callers : call[c].pc = "late" /\ call[c].n = n
    <3>1. CASE Terminate(n)
      BY <1>0, <1>t, <3>1, TerminateStep, TermMoves DEF Terms
    <3>2. CASE Remove(n)
      BY <1>t, <3>2, TermMoves DEF Remove, Terms
    <3>3. CASE Terminated(n)
      BY <1>0, <3>3, TerminatedStep
    <3> QED
      BY <1>8, <3>1, <3>2, <3>3
  <2>2. ASSUME NEW c \in Callers, Opening(c), call[c].n = n PROVE call[c].pc = "late"
    <3>1. StageOf(c, n)
      BY <1>0, <2>2 DEF StageInv
    <3>2. CASE session[n].term = "no"
      <4>1. PICK d \in Callers : call[d].pc = "late" /\ call[d].n = n
        BY <2>1, <3>1, <3>2 DEF StageOf
      <4>2. d = c
        BY <1>t, <2>2, <4>1 DEF Opening
      <4> QED
        BY <4>1, <4>2
    <3>3. CASE session[n].term # "no"
      BY <2>1, <2>2, <3>1, <3>3 DEF StageOf, Opening
    <3> QED
      BY <3>2, <3>3
  <2> QED
    BY <1>7, <2>1, <2>2
<1>9. ASSUME NEW n \in Openings, SenderGoesOn(n) PROVE StageInv'
  <2>1. \A d \in Callers : Opening(d) => call[d].n # n
    BY <1>0, <1>9 DEF SenderGoesOn, StageInv, StageOf
  <2>2. /\ UNCHANGED <<call, opening>>
        /\ \A m \in Openings : m # n => session'[m] = session[m]
        /\ session[n].sender # "none" /\ session'[n].sender # "none"
        /\ session'[n].sender = "joined" => session[n].term = "done"
        /\ session'[n].term = session[n].term
    BY <1>9 DEF SenderGoesOn
  <2>3. \A d \in Callers : Opening(d)' => StageOf(d, call[d].n)'
    BY <1>0, <1>t, <2>1, <2>2 DEF StageInv, StageOf, Opening
  <2> QED
    BY <1>0, <2>2, <2>3 DEF StageInv
<1>10. ASSUME UNCHANGED <<call, opening, session>> PROVE StageInv'
  BY <1>0, <1>10 DEF StageInv, StageOf, Opening
<1>11. ASSUME NEW n \in Openings, ServerMoves(n) PROVE StageInv'
  BY <1>0, <1>10, <1>11, ServerStep
<1>12. CASE Dies \/ ClientCloses \/ CloseBegins \/ CloseGoesOn
  BY <1>10, <1>12 DEF Dies, ClientCloses, CloseBegins, CloseGoesOn
<1> QED
  BY <1>0, <1>1, <1>2, <1>4, <1>6, <1>8, <1>9, <1>11, <1>12, StepKinds

\* What p.sessions lists.
LEMMA KeepsListed ==
  ASSUME WebUDPAssumption, IInv, [Next]_vars
  PROVE  ListedInv'
<1>0. TypeInv /\ OpenerInv /\ StageInv /\ ListedInv
  BY DEF IInv
<1>t. /\ pending \in [Targets -> {0} \cup Openings] /\ sessions \in [Targets -> {0} \cup Openings]
      /\ opening \in [Openings -> Errors \cup {"none", "open", "session"}]
      /\ session \in [Openings -> SessionStates]
      /\ 0 \notin Openings
      /\ \A c \in Callers : call[c].target \in Targets
      /\ \A c \in Callers : Opening(c) =>
           /\ call[c].n \in Openings /\ opening[call[c].n] = "open"
           /\ pending[call[c].target] = call[c].n
  BY <1>0 DEF TypeInv, OpenerInv, CallStates, Openings, WebUDPAssumption
\* The sessions that are published go at most from listed to canceled, or from
\* removed to done.
<1>u. ASSUME UNCHANGED <<sessions, pending, opening>>,
             \A m \in Openings :
               \/ session'[m].term = session[m].term
               \/ session[m].term = "no" /\ session'[m].term = "canceled"
               \/ session[m].term = "removed" /\ session'[m].term = "done"
               \/ opening[m] # "session"
      PROVE  ListedInv'
  <2>1. ASSUME NEW t \in Targets, sessions[t] # 0
        PROVE  opening[sessions[t]] = "session" /\ session'[sessions[t]].term \in {"no", "canceled"}
    <3>1. /\ opening[sessions[t]] = "session" /\ session[sessions[t]].term \in {"no", "canceled"}
          /\ sessions[t] \in Openings
      BY <1>0, <1>t, <2>1 DEF ListedInv
    <3> QED
      BY <1>u, <3>1
  <2>2. ASSUME NEW m \in Openings, opening[m] = "session", session'[m].term = "no"
        PROVE  \E t \in Targets : sessions[t] = m
    <3>1. session[m].term = "no"
      BY <1>u, <2>2
    <3> QED
      BY <1>0, <2>2, <3>1 DEF ListedInv
  <2>3. \A t \in Targets : sessions[t] = 0 \/ pending[t] = 0
    BY <1>0 DEF ListedInv
  <2> QED
    BY <1>u, <2>1, <2>2, <2>3 DEF ListedInv
<1>1. ASSUME NEW c \in Callers, Quiet(c) PROVE ListedInv'
  BY <1>1, <1>u DEF Quiet, SameSessions, Same, packetVars
<1>2. ASSUME NEW c \in Callers, NEW n \in Openings, StartsOpening(c, n) PROVE ListedInv'
  <2> DEFINE t == call[c].target
  <2>1. t \in Targets /\ opening[n] = "none" /\ sessions[t] = 0 /\ UNCHANGED <<sessions, session>>
    BY <1>t, <1>2 DEF StartsOpening
  <2>2. /\ \A u \in Targets : u # t => pending'[u] = pending[u]
        /\ opening'[n] = "open" /\ \A m \in Openings : m # n => opening'[m] = opening[m]
    BY <1>t, <1>2 DEF StartsOpening
  <2> HIDE DEF t
  <2>3. \A u \in Targets : sessions'[u] # 0 => sessions[u] # n /\ sessions[u] \in Openings
    BY <1>0, <1>t, <2>1 DEF ListedInv
  <2> QED
    BY <1>0, <2>1, <2>2, <2>3 DEF ListedInv
<1>3. ASSUME NEW c \in Callers, Reserve(c) \/ Request(c) \/ OpenFails(c) \/ Opened(c)
      PROVE  ListedInv'
  <2>1. /\ Continues(c)
        /\ \A m \in Openings : m # call[c].n => Same(m)
    BY <1>0, <1>3, ReserveStep, RequestStep, OpenFailsStep, OpenedStep DEF SameSessions, Gets
  <2>2. opening[call[c].n] # "session"
    BY <1>t, <2>1 DEF Continues
  <2>3. \A m \in Openings : session'[m].term = session[m].term \/ opening[m] # "session"
    BY <2>1, <2>2 DEF Same
  <2> QED
    BY <1>u, <2>1, <2>3 DEF Continues, packetVars
\* An opening that is over without a session.
<1>4. ASSUME NEW c \in Callers, NEW r \in Errors, Publishes(c, r), UNCHANGED <<sessions, session>>
      PROVE  ListedInv'
  <2> DEFINE t == call[c].target
             n == call[c].n
  <2>1. Opening(c) /\ t \in Targets /\ n \in Openings /\ opening[n] = "open" /\ r # "session"
    BY <1>t, <1>4 DEF Publishes, Opening, Errors
  <2>2. /\ pending'[t] = 0 /\ \A u \in Targets : u # t => pending'[u] = pending[u]
        /\ opening'[n] = r /\ \A m \in Openings : m # n => opening'[m] = opening[m]
    BY <1>t, <1>4, <2>1 DEF Publishes
  <2> HIDE DEF t, n
  <2>3. \A u \in Targets : sessions'[u] # 0 => sessions[u] # n /\ sessions[u] \in Openings
    BY <1>0, <1>4, <1>t, <2>1 DEF ListedInv
  <2> QED
    BY <1>0, <1>4, <2>1, <2>2, <2>3 DEF ListedInv
\* A session is listed where its opening was.
<1>5. ASSUME NEW c \in Callers, Publishes(c, "session"), Sender(call[c].n, "idle"),
             call[c].pc = "settle", call[c].result = "session",
             sessions' = [sessions EXCEPT ![call[c].target] = call[c].n]
      PROVE  ListedInv'
  <2> DEFINE t == call[c].target
             n == call[c].n
  <2>1. Opening(c) /\ t \in Targets /\ n \in Openings /\ opening[n] = "open" /\ pending[t] = n
    BY <1>t, <1>5 DEF Opening
  <2>2. /\ pending'[t] = 0 /\ \A u \in Targets : u # t => pending'[u] = pending[u]
        /\ opening'[n] = "session" /\ \A m \in Openings : m # n => opening'[m] = opening[m]
        /\ sessions'[t] = n /\ \A u \in Targets : u # t => sessions'[u] = sessions[u]
    BY <1>t, <1>5, <2>1 DEF Publishes
  <2>3. session[n].term = "no"
    BY <1>0, <1>5, <2>1 DEF StageInv, StageOf
  <2>4. session'[n].term = "no" /\ \A m \in Openings : m # n => session'[m] = session[m]
    BY <1>t, <1>5, <2>1, <2>3, SenderMoves
  <2>5. sessions[t] = 0
    BY <1>0, <1>t, <2>1 DEF ListedInv
  <2> HIDE DEF t, n
  <2>6. \A u \in Targets : sessions[u] # 0 => sessions[u] # n /\ sessions[u] \in Openings /\ u # t
    BY <1>0, <1>t, <2>1, <2>5 DEF ListedInv
  <2>7. ASSUME NEW m \in Openings, opening'[m] = "session", session'[m].term = "no"
        PROVE  \E u \in Targets : sessions'[u] = m
    <3>1. CASE m = n
      BY <2>1, <2>2, <3>1
    <3>2. CASE m # n
      <4>1. PICK u \in Targets : sessions[u] = m
        BY <1>0, <2>2, <2>4, <2>7, <3>2 DEF ListedInv
      <4> QED
        BY <1>t, <2>2, <2>6, <4>1
    <3> QED
      BY <3>1, <3>2
  <2>8. \A u \in Targets : sessions'[u] # 0 =>
          opening'[sessions'[u]] = "session" /\ session'[sessions'[u]].term \in {"no", "canceled"}
    BY <1>0, <2>2, <2>4, <2>6 DEF ListedInv
  <2>9. \A u \in Targets : sessions'[u] = 0 \/ pending'[u] = 0
    BY <1>0, <2>2 DEF ListedInv
  <2> QED
    BY <2>7, <2>8, <2>9 DEF ListedInv
<1>6. ASSUME NEW c \in Callers, Settle(c) \/ Late(c) PROVE ListedInv'
  <2>1. CASE Continues(c) /\ UNCHANGED session
    BY <1>u, <2>1 DEF Continues, packetVars
  <2>2. CASE Late(c)
    BY <1>0, <1>4, <2>2, LateStep DEF Errors
  <2> QED
    BY <1>0, <1>4, <1>5, <1>6, <2>1, <2>2, SettleStep
<1>7. ASSUME NEW n \in Openings, Remove(n) PROVE ListedInv'
  <2>1. /\ session[n].term = "canceled" /\ TermTo(n, "removed") /\ UNCHANGED <<pending, opening>>
        /\ sessions' = [t \in Targets |-> IF sessions[t] = n THEN 0 ELSE sessions[t]]
    BY <1>7 DEF Remove
  <2>2. session'[n].term = "removed" /\ \A m \in Openings : m # n => session'[m] = session[m]
    BY <1>t, <2>1, TermMoves DEF Terms
  <2>3. \A t \in Targets : /\ sessions'[t] # n
                           /\ sessions[t] # n => sessions'[t] = sessions[t]
                           /\ sessions'[t] # 0 => sessions'[t] = sessions[t]
                           /\ sessions[t] \in {0} \cup Openings
    BY <1>t, <2>1
  <2>4. ASSUME NEW m \in Openings, opening'[m] = "session", session'[m].term = "no"
        PROVE  \E t \in Targets : sessions'[t] = m
    <3>1. m # n
      BY <2>2, <2>4
    <3>2. PICK t \in Targets : sessions[t] = m
      BY <1>0, <2>1, <2>2, <2>4, <3>1 DEF ListedInv
    <3> QED
      BY <2>3, <3>1, <3>2
  <2>5. \A t \in Targets : sessions'[t] # 0 =>
          opening'[sessions'[t]] = "session" /\ session'[sessions'[t]].term \in {"no", "canceled"}
    BY <1>0, <2>1, <2>2, <2>3 DEF ListedInv
  <2>6. \A t \in Targets : sessions'[t] = 0 \/ pending'[t] = 0
    BY <1>0, <2>1, <2>3 DEF ListedInv
  <2> QED
    BY <2>4, <2>5, <2>6 DEF ListedInv
<1>8. ASSUME NEW n \in Openings, Terminate(n) \/ Terminated(n) PROVE ListedInv'
  <2>1. CASE Terminate(n)
    BY <1>0, <1>t, <1>u, <2>1, TerminateStep, TermMoves DEF Terms, packetVars
  <2>2. CASE Terminated(n)
    BY <1>0, <1>t, <1>u, <2>2, TerminatedStep DEF packetVars
  <2> QED
    BY <1>8, <2>1, <2>2
<1>9. ASSUME NEW n \in Openings, SenderGoesOn(n) PROVE ListedInv'
  BY <1>u, <1>9 DEF SenderGoesOn, packetVars
<1>10. ASSUME UNCHANGED <<sessions, pending, opening, session>> PROVE ListedInv'
  BY <1>u, <1>10
<1>11. ASSUME NEW n \in Openings, ServerMoves(n) PROVE ListedInv'
  BY <1>0, <1>10, <1>11, ServerStep DEF packetVars
<1>12. CASE Dies \/ ClientCloses \/ CloseBegins \/ CloseGoesOn
  BY <1>10, <1>12 DEF Dies, ClientCloses, CloseBegins, CloseGoesOn, packetVars
<1> QED
  BY <1>0, <1>1, <1>2, <1>3, <1>6, <1>7, <1>8, <1>9, <1>11, <1>12, StepKinds

\* What shutdown has still to join.
LEMMA KeepsClose ==
  ASSUME WebUDPAssumption, IInv, [Next]_vars
  PROVE  CloseInv'
<1>0. TypeInv /\ OpenerInv /\ StageInv /\ ListedInv /\ CloseInv
  BY DEF IInv
<1>t. /\ pending \in [Targets -> {0} \cup Openings] /\ sessions \in [Targets -> {0} \cup Openings]
      /\ session \in [Openings -> SessionStates]
      /\ 0 \notin Openings
      /\ \A c \in Callers : call[c].target \in Targets
      /\ \A c \in Callers : Opening(c) => call[c].n \in Openings
  BY <1>0 DEF TypeInv, OpenerInv, CallStates, Openings, WebUDPAssumption
\* Nothing is added to what is owned, and who has joined stays joined.
<1>u. ASSUME UNCHANGED <<pdone, shutdown, snapshot>>,
             \A t \in Targets : sessions'[t] = sessions[t] \/ sessions'[t] = 0,
             \A t \in Targets : pending'[t] = pending[t] \/ pending'[t] = 0,
             \A m \in Openings : IsJoined(m) => IsJoined(m)'
      PROVE  CloseInv'
  BY <1>0, <1>u DEF CloseInv, Closed
<1>v. ASSUME UNCHANGED <<pdone, shutdown, snapshot>>, ~Closed PROVE CloseInv'
  BY <1>0, <1>v DEF CloseInv, Closed
<1>1. ASSUME NEW c \in Callers, Quiet(c) PROVE CloseInv'
  BY <1>1, <1>u DEF Quiet, SameSessions, Same, packetVars, IsJoined
<1>2. ASSUME NEW c \in Callers, NEW n \in Openings, StartsOpening(c, n) PROVE CloseInv'
  BY <1>2, <1>v DEF StartsOpening
<1>3. ASSUME NEW c \in Callers, Reserve(c) \/ Request(c) \/ OpenFails(c) \/ Opened(c)
      PROVE  CloseInv'
  <2>1. Continues(c) /\ \A m \in Openings : session'[m].sender = session[m].sender
    <3>1. CASE Reserve(c) \/ Request(c)
      BY <1>0, <3>1, ReserveStep, RequestStep DEF SameSessions, Same
    <3>2. CASE OpenFails(c) \/ Opened(c)
      BY <1>0, <3>2, OpenFailsStep, OpenedStep DEF Gets, Same
    <3> QED
      BY <1>3, <3>1, <3>2
  <2> QED
    BY <1>u, <2>1 DEF Continues, packetVars, IsJoined
<1>4. ASSUME NEW c \in Callers, NEW r \in Errors, Publishes(c, r), UNCHANGED <<sessions, session>>
      PROVE  CloseInv'
  <2>1. \A t \in Targets : pending'[t] = pending[t] \/ pending'[t] = 0
    BY <1>t, <1>4 DEF Publishes
  <2> QED
    BY <1>4, <1>u, <2>1 DEF Publishes, IsJoined
<1>5. ASSUME NEW c \in Callers, Settle(c) \/ Late(c) PROVE CloseInv'
  <2>1. CASE Continues(c) /\ UNCHANGED session
    BY <1>u, <2>1 DEF Continues, packetVars, IsJoined
  <2>2. CASE Publishes(c, "session") /\ ~Closed
    BY <1>v, <2>2 DEF Publishes
  <2>3. CASE Late(c)
    BY <1>0, <1>4, <2>3, LateStep DEF Errors
  <2> QED
    BY <1>0, <1>4, <1>5, <2>1, <2>2, <2>3, SettleStep
<1>6. ASSUME NEW n \in Openings, Terminate(n) \/ Remove(n) \/ Terminated(n) PROVE CloseInv'
  <2>1. \A m \in Openings : session'[m].sender = session[m].sender
    <3>1. CASE Terminate(n)
      BY <1>0, <1>t, <3>1, TerminateStep, TermMoves DEF Terms
    <3>2. CASE Remove(n)
      BY <1>t, <3>2, TermMoves DEF Remove, Terms
    <3>3. CASE Terminated(n)
      BY <1>0, <3>3, TerminatedStep
    <3> QED
      BY <1>6, <3>1, <3>2, <3>3
  <2>2. /\ UNCHANGED <<pdone, shutdown, snapshot, pending>>
        /\ \A t \in Targets : sessions'[t] = sessions[t] \/ sessions'[t] = 0
    <3>1. CASE Remove(n)
      BY <3>1 DEF Remove
    <3>2. CASE Terminate(n) \/ Terminated(n)
      BY <3>2 DEF Terminate, Terminated, packetVars
    <3> QED
      BY <1>6, <3>1, <3>2
  <2> QED
    BY <1>u, <2>1, <2>2 DEF IsJoined
<1>7. ASSUME NEW n \in Openings, SenderGoesOn(n) PROVE CloseInv'
  <2>1. ~IsJoined(n) /\ \A m \in Openings : m # n => session'[m] = session[m]
    BY <1>7 DEF SenderGoesOn, IsJoined
  <2>2. \A m \in Openings : IsJoined(m) => IsJoined(m)'
    BY <2>1 DEF IsJoined
  <2> QED
    BY <1>7, <1>u, <2>2 DEF SenderGoesOn, packetVars
<1>8. ASSUME UNCHANGED <<pdone, shutdown, snapshot, sessions, pending, session>> PROVE CloseInv'
  BY <1>8, <1>u DEF IsJoined
<1>9. ASSUME NEW n \in Openings, ServerMoves(n) PROVE CloseInv'
  BY <1>0, <1>8, <1>9, ServerStep DEF packetVars
<1>10. CASE Dies
  BY <1>8, <1>10 DEF Dies, packetVars
<1>11. CASE ClientCloses
  BY <1>0, <1>11 DEF ClientCloses, CloseInv, Closed, IsJoined
<1>12. CASE CloseBegins
  <2>1. /\ \A t \in Targets : sessions[t] # 0 => sessions[t] \in snapshot'.sessions
        /\ \A t \in Targets : pending[t] # 0 => pending[t] \in snapshot'.pending
    BY <1>12 DEF CloseBegins, OwnedOpenings
  <2> QED
    BY <1>12, <2>1 DEF CloseBegins, CloseInv, Closed
<1>13. CASE CloseGoesOn
  <2>0. UNCHANGED <<pdone, sessions, pending, opening, session>> /\ pdone
    BY <1>0, <1>13 DEF CloseGoesOn, CloseInv, Closed
  <2>1. CASE /\ shutdown = "sessions" /\ shutdown' = "pending"
             /\ \A n \in snapshot.sessions : IsJoined(n)
             /\ snapshot' = [snapshot EXCEPT !.sessions = {}]
    <3>1. \A t \in Targets : sessions[t] = 0
      <4> SUFFICES ASSUME NEW t \in Targets, sessions[t] # 0 PROVE FALSE
        OBVIOUS
      <4>1. IsJoined(sessions[t]) /\ sessions[t] \in Openings
        BY <1>0, <1>t, <2>1 DEF CloseInv
      <4>2. opening[sessions[t]] = "session" /\ session[sessions[t]].term \in {"no", "canceled"}
        BY <1>0 DEF ListedInv
      <4> QED
        BY <1>0, <4>1, <4>2 DEF StageInv, IsJoined
    <3>2. snapshot'.pending = snapshot.pending
      BY <1>0, <2>1 DEF TypeInv
    <3> QED
      BY <1>0, <2>0, <2>1, <3>1, <3>2 DEF CloseInv, Closed
  <2>2. CASE /\ shutdown = "pending" /\ shutdown' = "workers"
             /\ \A n \in snapshot.pending : opening[n] # "open"
    <3>1. \A t \in Targets : pending[t] = 0
      <4> SUFFICES ASSUME NEW t \in Targets, pending[t] # 0 PROVE FALSE
        OBVIOUS
      <4>1. opening[pending[t]] # "open"
        BY <1>0, <2>2 DEF CloseInv
      <4> QED
        BY <1>0, <4>1 DEF OpenerInv
    <3> QED
      BY <1>0, <2>0, <2>2, <3>1 DEF CloseInv, Closed
  <2>3. CASE /\ shutdown = "workers" /\ shutdown' = "done"
             /\ \A n \in Openings : IsJoined(n)
    BY <1>0, <2>0, <2>3 DEF CloseInv, Closed, IsJoined
  <2> QED
    BY <1>13, <2>1, <2>2, <2>3 DEF CloseGoesOn
<1> QED
  BY <1>0, <1>1, <1>2, <1>3, <1>5, <1>6, <1>7, <1>9, <1>10, <1>11, <1>12, <1>13, StepKinds

\* What "closed" is published for.
LEMMA KeepsVerdicts ==
  ASSUME WebUDPAssumption, IInv, [Next]_vars
  PROVE  VerdictInv'
<1>0. TypeInv /\ OpenerInv /\ StageInv /\ CloseInv /\ VerdictInv
  BY DEF IInv
<1>t. /\ opening \in [Openings -> Errors \cup {"none", "open", "session"}]
      /\ \A c \in Callers : Opening(c) => call[c].n \in Openings
  BY <1>0 DEF TypeInv, OpenerInv
<1>u. ASSUME pdone => pdone', Closed => Closed',
             \A m \in Openings : opening'[m] = "closed" => pdone' \/ opening[m] = "closed",
             \A d \in Callers :
               \/ call'[d] = call[d]
               \/ /\ call'[d].pc = "late" => Closed
                  /\ call'[d].pc = "settle" /\ call'[d].result = "closed" => pdone
      PROVE  VerdictInv'
  BY <1>0, <1>u DEF VerdictInv
<1>v. UNCHANGED <<pdone, shutdown>> => (pdone => pdone') /\ (Closed => Closed')
  BY DEF Closed
<1>1. ASSUME NEW c \in Callers, Quiet(c) PROVE VerdictInv'
  BY <1>1, <1>u, <1>v DEF Quiet, OthersSame, Opening, packetVars
<1>2. ASSUME NEW c \in Callers, NEW n \in Openings, StartsOpening(c, n) PROVE VerdictInv'
  <2>1. \A m \in Openings : opening'[m] = "closed" => opening[m] = "closed"
    BY <1>t, <1>2 DEF StartsOpening
  <2> QED
    BY <1>2, <1>u, <1>v, <2>1 DEF StartsOpening, OthersSame
<1>3. ASSUME NEW c \in Callers, Continues(c), call'[c].pc = "late" => Closed,
             call'[c].pc = "settle" /\ call'[c].result = "closed" => pdone
      PROVE  VerdictInv'
  BY <1>3, <1>u, <1>v DEF Continues, OthersSame, packetVars
<1>4. ASSUME NEW c \in Callers, Reserve(c) \/ Request(c) \/ OpenFails(c) \/ Opened(c)
      PROVE  VerdictInv'
  BY <1>0, <1>3, <1>4, ReserveStep, RequestStep, OpenFailsStep, OpenedStep
<1>5. ASSUME NEW c \in Callers, NEW r \in Errors \cup {"session"}, Publishes(c, r),
             r = "closed" => pdone
      PROVE  VerdictInv'
  <2>1. \A m \in Openings : opening'[m] = "closed" => pdone' \/ opening[m] = "closed"
    BY <1>t, <1>5 DEF Publishes
  <2> QED
    BY <1>5, <1>u, <1>v, <2>1 DEF Publishes, OthersSame
<1>6. ASSUME NEW c \in Callers, Settle(c) \/ Late(c) PROVE VerdictInv'
  <2>1. CASE Late(c)
    <3>1. Publishes(c, "closed") /\ pdone
      BY <1>0, <2>1, LateStep DEF VerdictInv, CloseInv
    <3> QED
      BY <1>5, <3>1 DEF Errors
  <2>2. CASE Settle(c)
    <3>1. CASE Continues(c) /\ Closed /\ call'[c].pc = "late"
      BY <1>3, <3>1
    <3>2. CASE Publishes(c, "session")
      BY <1>5, <3>2
    <3>3. ASSUME NEW r \in Errors, Publishes(c, r), r = call[c].result PROVE VerdictInv'
      <4>1. r = "closed" => pdone
        BY <1>0, <2>2, <3>3 DEF VerdictInv, Settle
      <4> QED
        BY <1>5, <3>3, <4>1
    <3> QED
      BY <1>0, <2>2, <3>1, <3>2, <3>3, SettleStep
  <2> QED
    BY <1>6, <2>1, <2>2
<1>7. ASSUME UNCHANGED <<call, opening>>, pdone => pdone', Closed => Closed' PROVE VerdictInv'
  BY <1>7, <1>u
<1>8. ASSUME NEW n \in Openings,
             Terminate(n) \/ Terminated(n) \/ SenderGoesOn(n) \/ Remove(n) \/ ServerMoves(n)
      PROVE  VerdictInv'
  <2>1. UNCHANGED <<call, opening, pdone, shutdown>>
    BY <1>0, <1>8, TerminateStep, TerminatedStep, ServerStep DEF Remove, SenderGoesOn, packetVars
  <2> QED
    BY <1>7, <1>v, <2>1
<1>9. CASE Dies \/ ClientCloses \/ CloseBegins \/ CloseGoesOn
  <2>1. UNCHANGED <<call, opening>> /\ (pdone => pdone')
    BY <1>9 DEF Dies, ClientCloses, CloseBegins, CloseGoesOn, packetVars
  <2>2. Closed => Closed'
    BY <1>9 DEF Dies, ClientCloses, CloseBegins, CloseGoesOn, packetVars, Closed
  <2> QED
    BY <1>7, <2>1, <2>2
<1> QED
  BY <1>0, <1>1, <1>2, <1>4, <1>6, <1>8, <1>9, StepKinds

\* There are finitely many openings, and sets of them are counted one by one.
LEMMA OpeningsAreFinite ==
  ASSUME WebUDPAssumption, NEW S \in SUBSET Openings
  PROVE  IsFiniteSet(S) /\ Cardinality(S) \in Nat
<1>1. IsFiniteSet(Openings)
  BY FS_Interval DEF Openings, WebUDPAssumption
<1>2. IsFiniteSet(S)
  BY <1>1, FS_Subset
<1> QED
  BY <1>2, FS_CardinalityType

\* One more.
LEMMA CountUp ==
  ASSUME WebUDPAssumption, NEW S \in SUBSET Openings, NEW n \in Openings, n \notin S,
         NEW T, T = S \cup {n}
  PROVE  Cardinality(T) = Cardinality(S) + 1
BY OpeningsAreFinite, FS_AddElement

\* One less.
LEMMA CountDown ==
  ASSUME WebUDPAssumption, NEW S \in SUBSET Openings, NEW n \in S, NEW T, T = S \ {n}
  PROVE  Cardinality(T) = Cardinality(S) - 1
BY OpeningsAreFinite, FS_RemoveElement

\* Tokens of client.udpSlots.
LEMMA KeepsSlots ==
  ASSUME WebUDPAssumption, IInv, [Next]_vars
  PROVE  SlotsInv'
<1>0. TypeInv /\ OpenerInv /\ StageInv /\ SlotsInv /\ OpenerInv'
  BY KeepsOpeners DEF IInv
<1>t. /\ session \in [Openings -> SessionStates]
      /\ slots \in Nat /\ Slots \in Nat /\ Cardinality(Holders) \in Nat
      /\ Holders \subseteq Openings
      /\ \A c \in Callers : Opening(c) => call[c].n \in Openings
      /\ \A c, d \in Callers : Opening(c) /\ Opening(d) /\ call[c].n = call[d].n => c = d
  <2>1. Holders \subseteq Openings
    BY DEF Holders
  <2> QED
    BY <1>0, <2>1, OpeningsAreFinite DEF TypeInv, OpenerInv, SlotsInv, WebUDPAssumption
<1>same. ASSUME UNCHANGED slots, \A m \in Openings : Holds(m)' <=> Holds(m) PROVE SlotsInv'
  <2>1. Holders' = Holders
    BY <1>same DEF Holders
  <2> QED
    BY <1>0, <1>same, <2>1 DEF SlotsInv
<1>up. ASSUME NEW n \in Openings, slots < Slots, slots' = slots + 1, ~Holds(n), Holds(n)',
              \A m \in Openings : m # n => (Holds(m)' <=> Holds(m))
       PROVE  SlotsInv'
  <2>1. Holders' = Holders \cup {n} /\ n \notin Holders
    BY <1>up DEF Holders
  <2>2. Cardinality(Holders') = Cardinality(Holders) + 1
    BY <1>t, <2>1, CountUp
  <2> QED
    BY <1>0, <1>t, <1>up, <2>2 DEF SlotsInv
<1>down. ASSUME NEW n \in Openings, slots' = slots - 1, Holds(n), ~Holds(n)',
                \A m \in Openings : m # n => (Holds(m)' <=> Holds(m))
         PROVE  SlotsInv'
  <2>1. Holders' = Holders \ {n} /\ n \in Holders
    BY <1>down DEF Holders
  <2>2. Cardinality(Holders') = Cardinality(Holders) - 1
    BY <1>t, <2>1, CountDown
  <2> QED
    BY <1>0, <1>t, <1>down, <2>2 DEF SlotsInv
\* A step of a Send that opens nothing, or has nothing reserved.
<1>1. ASSUME NEW c \in Callers, UNCHANGED slots, OthersSame(c),
             call[c].pc \notin {"connect", "answer"}, call'[c].pc \notin {"connect", "answer"},
             \A m \in Openings : session'[m].term = session[m].term
      PROVE  SlotsInv'
  <2>1. \A m \in Openings : Opens(m)' <=> Opens(m)
    BY <1>1 DEF Opens, OthersSame
  <2> QED
    BY <1>1, <1>same, <2>1 DEF Holds
<1>2. ASSUME NEW c \in Callers, Quiet(c) PROVE SlotsInv'
  BY <1>1, <1>2 DEF Quiet, Opening, SameSessions, Same
<1>3. ASSUME NEW c \in Callers, NEW n \in Openings, StartsOpening(c, n) PROVE SlotsInv'
  BY <1>1, <1>3 DEF StartsOpening, Opening
\* What a step of an opening may change.
<1>4. ASSUME NEW c \in Callers, NEW n \in Openings, n = call[c].n, Continues(c),
             \A m \in Openings : m # n => session'[m].term = session[m].term
      PROVE  /\ Opens(n) <=> call[c].pc \in {"connect", "answer"}
             /\ Opens(n)' <=> call'[c].pc \in {"connect", "answer"}
             /\ \A m \in Openings : m # n => (Holds(m)' <=> Holds(m))
  <2>1. /\ Opening(c) /\ Opening(c)' /\ call[c].n = n /\ call'[c].n = n
        /\ \A d \in Callers : d # c => call'[d] = call[d]
    BY <1>4 DEF Continues, OthersSame
  <2>2. Opens(n) <=> call[c].pc \in {"connect", "answer"}
    BY <1>t, <2>1 DEF Opens, Opening
  <2>3. \A d \in Callers : d # c /\ Opening(d) => call[d].n # n
    BY <1>t, <2>1
  <2>4. Opens(n)' <=> call'[c].pc \in {"connect", "answer"}
    BY <2>1, <2>3 DEF Opens, Opening
  <2>5. \A m \in Openings : m # n => (Opens(m)' <=> Opens(m))
    BY <2>1 DEF Opens
  <2> QED
    BY <1>4, <1>t, <2>1, <2>2, <2>4, <2>5 DEF Holds
<1>5. ASSUME NEW c \in Callers, Reserve(c) PROVE SlotsInv'
  <2>0. PICK n \in Openings : n = call[c].n
    BY <1>t, <1>5 DEF Reserve, Opening
  <2>1. /\ Continues(c) /\ \A m \in Openings : session'[m].term = session[m].term
        /\ call[c].pc = "reserve"
        /\ \/ call'[c].pc = "connect" /\ slots < Slots /\ slots' = slots + 1
           \/ call'[c].pc = "settle" /\ slots' = slots
    BY <1>0, <1>5, <2>0, ReserveStep
  <2>2. session[n].term = "none"
    BY <1>0, <2>0, <2>1 DEF StageInv, StageOf, Opening
  <2>3. ~Holds(n) /\ (Holds(n)' <=> call'[c].pc = "connect")
    BY <1>4, <2>0, <2>1, <2>2 DEF Holds
  <2> QED
    BY <1>4, <1>up, <1>same, <2>0, <2>1, <2>3
<1>6. ASSUME NEW c \in Callers, Request(c) PROVE SlotsInv'
  <2>0. PICK n \in Openings : n = call[c].n
    BY <1>t, <1>6 DEF Request, Opening
  <2>1. /\ Continues(c) /\ \A m \in Openings : session'[m].term = session[m].term
        /\ call[c].pc = "connect" /\ call'[c].pc = "answer" /\ UNCHANGED slots
    BY <1>0, <1>6, <2>0, RequestStep DEF SameSessions, Same
  <2>2. Holds(n) /\ Holds(n)'
    BY <1>4, <2>0, <2>1 DEF Holds
  <2> QED
    BY <1>4, <1>same, <2>0, <2>1, <2>2
<1>7. ASSUME NEW c \in Callers, OpenFails(c) PROVE SlotsInv'
  <2>0. PICK n \in Openings : n = call[c].n
    BY <1>t, <1>7 DEF OpenFails, Opening
  <2>1. /\ Continues(c) /\ slots' = slots - 1
        /\ call[c].pc \in {"connect", "answer"} /\ call'[c].pc = "settle"
        /\ session'[n].term = "abandoned"
        /\ \A m \in Openings : m # n => session'[m].term = session[m].term
    BY <1>0, <1>7, <2>0, OpenFailsStep DEF Gets, Same
  <2>2. Holds(n) /\ ~Holds(n)'
    BY <1>4, <2>0, <2>1 DEF Holds
  <2> QED
    BY <1>4, <1>down, <2>0, <2>1, <2>2
<1>8. ASSUME NEW c \in Callers, Opened(c) PROVE SlotsInv'
  <2>0. PICK n \in Openings : n = call[c].n
    BY <1>t, <1>8 DEF Opened, Opening
  <2>1. /\ Continues(c) /\ UNCHANGED slots /\ call[c].pc = "answer"
        /\ session'[n].term = "no"
        /\ \A m \in Openings : m # n => session'[m].term = session[m].term
    BY <1>0, <1>8, <2>0, OpenedStep DEF Gets, Same
  <2>2. Holds(n) /\ Holds(n)'
    BY <1>4, <2>0, <2>1 DEF Holds
  <2> QED
    BY <1>4, <1>same, <2>0, <2>1, <2>2
<1>9. ASSUME NEW c \in Callers, Settle(c) \/ Late(c) PROVE SlotsInv'
  <2>1. UNCHANGED slots /\ OthersSame(c) /\ call[c].pc \in {"settle", "late"}
        /\ call'[c].pc \in {"late", "have", "idle"}
    <3>1. CASE Settle(c)
      BY <1>0, <3>1, SettleStep DEF Continues, Publishes
    <3>2. CASE Late(c)
      BY <1>0, <3>2, LateStep DEF Publishes
    <3> QED
      BY <1>9, <3>1, <3>2
  <2>2. \A m \in Openings : session'[m].term = session[m].term
    <3>1. CASE Sender(call[c].n, "idle")
      <4>1. call[c].n \in Openings
        BY <1>t, <2>1 DEF Opening
      <4> QED
        BY <1>t, <3>1, <4>1, SenderMoves
    <3>2. CASE Late(c)
      BY <1>0, <3>2, LateStep
    <3> QED
      BY <1>0, <1>9, <3>1, <3>2, SettleStep
  <2> QED
    BY <1>1, <2>1, <2>2
<1>10. ASSUME UNCHANGED <<call, slots>>,
              \A m \in Openings :
                \/ session'[m].term = session[m].term
                \/ {session[m].term, session'[m].term} \subseteq {"no", "canceled", "removed"}
       PROVE  SlotsInv'
  BY <1>10, <1>same DEF Holds, Opens
<1>11. ASSUME NEW n \in Openings, Terminate(n) PROVE SlotsInv'
  BY <1>0, <1>t, <1>10, <1>11, TerminateStep, TermMoves DEF Terms
<1>12. ASSUME NEW n \in Openings, Remove(n) PROVE SlotsInv'
  BY <1>t, <1>10, <1>12, TermMoves DEF Remove, Terms
<1>13. ASSUME NEW n \in Openings, Terminated(n) PROVE SlotsInv'
  <2>1. /\ session[n].term = "removed" /\ session'[n].term = "done" /\ slots' = slots - 1
        /\ \A m \in Openings : m # n => session'[m] = session[m]
        /\ UNCHANGED call
    BY <1>0, <1>13, TerminatedStep
  <2>2. ~Opens(n)
    BY <1>0, <2>1 DEF Opens, Opening, StageInv, StageOf
  <2>3. Holds(n) /\ ~Holds(n)' /\ \A m \in Openings : m # n => (Holds(m)' <=> Holds(m))
    BY <2>1, <2>2 DEF Holds, Opens
  <2> QED
    BY <1>down, <2>1, <2>3
<1>14. ASSUME NEW n \in Openings, SenderGoesOn(n) PROVE SlotsInv'
  BY <1>10, <1>14 DEF SenderGoesOn
<1>15. ASSUME NEW n \in Openings, ServerMoves(n) PROVE SlotsInv'
  BY <1>0, <1>10, <1>15, ServerStep
<1>16. CASE Dies \/ ClientCloses \/ CloseBegins \/ CloseGoesOn
  BY <1>10, <1>16 DEF Dies, ClientCloses, CloseBegins, CloseGoesOn
<1> QED
  BY <1>0, <1>2, <1>3, <1>5, <1>6, <1>7, <1>8, <1>9, <1>11, <1>12, <1>13, <1>14, <1>15, <1>16,
     StepKinds

\* Leases of serverUDPManager.
LEMMA KeepsLeases ==
  ASSUME WebUDPAssumption, IInv, [Next]_vars
  PROVE  LeasesInv'
<1>0. TypeInv /\ OpenerInv /\ StageInv /\ LeasesInv
  BY DEF IInv
<1>t. /\ opening \in [Openings -> Errors \cup {"none", "open", "session"}]
      /\ server \in [Openings -> ServerStates]
      /\ \A c \in Callers : Opening(c) => call[c].n \in Openings /\ opening[call[c].n] = "open"
      /\ \A c, d \in Callers : Opening(c) /\ Opening(d) /\ call[c].n = call[d].n => c = d
      /\ Served \subseteq Openings /\ Cardinality(Served) \in Nat
  <2>1. Served \subseteq Openings
    BY DEF Served
  <2> QED
    BY <1>0, <2>1, OpeningsAreFinite DEF TypeInv, OpenerInv
<1>u. ASSUME UNCHANGED serverVars,
             \A m \in Openings : opening'[m] = "none" => opening[m] = "none",
             \A d \in Callers : call'[d].pc \in {"reserve", "connect"} =>
               call[d].pc \in {"reserve", "connect"} /\ call'[d].n = call[d].n
      PROVE  LeasesInv'
  <2>1. Served' = Served /\ leases' = leases /\ server' = server
    BY <1>u DEF Served, serverVars
  <2> QED
    BY <1>0, <1>u, <2>1 DEF LeasesInv
<1>1. ASSUME NEW c \in Callers, Quiet(c) PROVE LeasesInv'
  BY <1>1, <1>u DEF Quiet, OthersSame, Opening
<1>2. ASSUME NEW c \in Callers, NEW n \in Openings, StartsOpening(c, n) PROVE LeasesInv'
  <2>1. /\ \A d \in Callers : d # c => call'[d] = call[d]
        /\ call'[c].n = n /\ opening[n] = "none" /\ UNCHANGED <<server, leases>>
        /\ \A m \in Openings : opening'[m] = "none" => opening[m] = "none"
    BY <1>t, <1>2 DEF StartsOpening, OthersSame, serverVars
  <2>2. Served' = Served
    BY <2>1 DEF Served
  <2> QED
    BY <1>0, <2>1, <2>2 DEF LeasesInv
<1>3. ASSUME NEW c \in Callers, Reserve(c) \/ OpenFails(c) \/ Opened(c) PROVE LeasesInv'
  <2>1. /\ Continues(c) /\ UNCHANGED serverVars
        /\ call[c].pc = "reserve" \/ call'[c].pc = "settle"
    BY <1>0, <1>3, ReserveStep, OpenFailsStep, OpenedStep
  <2> QED
    BY <1>u, <2>1 DEF Continues, OthersSame, packetVars
\* The request reaches a handler that has not begun.
<1>4. ASSUME NEW c \in Callers, Request(c) PROVE LeasesInv'
  <2>0. PICK n \in Openings : n = call[c].n
    BY <1>t, <1>4 DEF Request, Opening
  <2>1. /\ \A d \in Callers : d # c => call'[d] = call[d]
        /\ Opening(c) /\ call[c].pc = "connect" /\ call'[c].pc = "answer"
        /\ UNCHANGED <<leases, opening>> /\ server' = [server EXCEPT ![n].pc = "request"]
    BY <1>0, <1>4, <2>0, RequestStep DEF Continues, OthersSame
  <2>2. server'[n].pc = "request" /\ \A m \in Openings : m # n => server'[m] = server[m]
    BY <1>t, <2>1, HandlerMoves
  <2>3. server[n].pc = "none" /\ opening[n] = "open"
    BY <1>0, <1>t, <2>0, <2>1 DEF LeasesInv
  <2>4. Served' = Served
    BY <2>2, <2>3 DEF Served
  <2>5. \A d \in Callers : d # c /\ Opening(d) => call[d].n # n /\ call[d].n \in Openings
    BY <1>t, <2>0, <2>1
  <2>6. \A d \in Callers : call'[d].pc \in {"reserve", "connect"} => server'[call'[d].n].pc = "none"
    BY <1>0, <2>1, <2>2, <2>5 DEF LeasesInv, Opening
  <2>7. \A m \in Openings : opening'[m] = "none" => server'[m].pc = "none"
    BY <1>0, <2>1, <2>2, <2>3 DEF LeasesInv
  <2> QED
    BY <1>0, <2>1, <2>4, <2>6, <2>7 DEF LeasesInv
<1>5. ASSUME NEW c \in Callers, Settle(c) \/ Late(c) PROVE LeasesInv'
  <2>1. /\ UNCHANGED serverVars /\ OthersSame(c) /\ call'[c].pc \in {"late", "have", "idle"}
        /\ \/ UNCHANGED opening
           \/ \E r \in Errors \cup {"session"} : opening' = [opening EXCEPT ![call[c].n] = r]
    <3>1. CASE Settle(c)
      BY <1>0, <3>1, SettleStep DEF Continues, Publishes, packetVars
    <3>2. CASE Late(c)
      BY <1>0, <3>2, LateStep DEF Publishes, Errors
    <3> QED
      BY <1>5, <3>1, <3>2
  <2>2. \A m \in Openings : opening'[m] = "none" => opening[m] = "none"
    BY <1>t, <2>1 DEF Errors
  <2> QED
    BY <1>u, <2>1, <2>2 DEF OthersSame
<1>6. ASSUME UNCHANGED <<call, opening, serverVars>> PROVE LeasesInv'
  BY <1>6, <1>u
<1>7. ASSUME NEW n \in Openings, Terminate(n) \/ Terminated(n) \/ SenderGoesOn(n) \/ Remove(n)
      PROVE  LeasesInv'
  <2>1. UNCHANGED <<call, opening, serverVars>>
    BY <1>0, <1>7, TerminateStep, TerminatedStep DEF Remove, SenderGoesOn
  <2> QED
    BY <1>6, <2>1
<1>8. ASSUME NEW n \in Openings, ServerMoves(n) PROVE LeasesInv'
  <2>1. /\ server[n].pc # "none" \/ server'[n].pc = "none"
        /\ \A m \in Openings : m # n => server'[m] = server[m]
        /\ UNCHANGED <<call, opening>>
    BY <1>0, <1>8, ServerStep
  <2>2. leases' = Cardinality(Served')
    <3>1. CASE leases' = leases /\ (IsServed(n)' <=> IsServed(n))
      <4>1. Served' = Served
        BY <2>1, <3>1 DEF Served, IsServed
      <4> QED
        BY <1>0, <3>1, <4>1 DEF LeasesInv
    <3>2. CASE leases' = leases + 1 /\ ~IsServed(n) /\ IsServed(n)'
      <4>1. Served' = Served \cup {n} /\ n \notin Served
        BY <2>1, <3>2 DEF Served, IsServed
      <4>2. Cardinality(Served') = Cardinality(Served) + 1
        BY <1>t, <4>1, CountUp
      <4> QED
        BY <1>0, <3>2, <4>2 DEF LeasesInv
    <3>3. CASE leases' = leases - 1 /\ IsServed(n) /\ ~IsServed(n)'
      <4>1. Served' = Served \ {n} /\ n \in Served
        BY <2>1, <3>3 DEF Served, IsServed
      <4>2. Cardinality(Served') = Cardinality(Served) - 1
        BY <1>t, <4>1, CountDown
      <4> QED
        BY <1>0, <3>3, <4>2 DEF LeasesInv
    <3> QED
      BY <1>0, <1>8, <3>1, <3>2, <3>3, ServerStep
  <2>3. \A m \in Openings : opening'[m] = "none" => server'[m].pc = "none"
    BY <1>0, <2>1 DEF LeasesInv
  <2>4. \A d \in Callers : call'[d].pc \in {"reserve", "connect"} => server'[call'[d].n].pc = "none"
    BY <1>0, <1>t, <2>1 DEF LeasesInv, Opening
  <2> QED
    BY <2>2, <2>3, <2>4 DEF LeasesInv
<1>9. CASE Dies \/ ClientCloses \/ CloseBegins \/ CloseGoesOn
  <2>1. UNCHANGED <<call, opening, serverVars>>
    BY <1>9 DEF Dies, ClientCloses, CloseBegins, CloseGoesOn, serverVars
  <2> QED
    BY <1>6, <2>1
<1> QED
  BY <1>0, <1>1, <1>2, <1>3, <1>4, <1>5, <1>7, <1>8, <1>9, StepKinds

\* The initial states.
LEMMA Initially ==
  ASSUME WebUDPAssumption, Init
  PROVE  IInv
<1>0. AnyTarget \in Targets
  BY DEF AnyTarget, WebUDPAssumption
<1>1. TypeInv
  BY <1>0 DEF Init, TypeInv, CallStates, Pcs, SessionStates, ServerStates, Terms, NewSession
<1>2. OpenerInv /\ StageInv
  BY DEF Init, OpenerInv, StageInv, Opening, Errors, NewSession
<1>3. ListedInv /\ CloseInv /\ VerdictInv
  BY DEF Init, ListedInv, CloseInv, VerdictInv, Closed
<1>4. Holders = {} /\ Served = {}
  BY DEF Init, Holders, Holds, Opens, Served, NewSession
<1>5. Cardinality({}) = 0
  BY FS_EmptySet
<1>6. SlotsInv /\ LeasesInv
  BY <1>4, <1>5 DEF Init, SlotsInv, LeasesInv, WebUDPAssumption
<1> QED
  BY <1>1, <1>2, <1>3, <1>6 DEF IInv

-----------------------------------------------------------------------------
(* Theorems. *)

\* The inductive invariant: types, who opens what, how far each session is, what
\* is listed and what shutdown has still to join, and what the counters count.
THEOREM Invariance == WebUDPAssumption => (Spec => []IInv)
<1> SUFFICES ASSUME WebUDPAssumption PROVE Spec => []IInv
  OBVIOUS
<1>1. Init => IInv
  BY Initially
<1>2. IInv /\ [Next]_vars => IInv'
  <2> SUFFICES ASSUME IInv, [Next]_vars PROVE IInv'
    OBVIOUS
  <2>1. TypeInv' /\ OpenerInv' /\ StageInv' /\ ListedInv'
    BY KeepsTypes, KeepsOpeners, KeepsStages, KeepsListed
  <2>2. CloseInv' /\ VerdictInv' /\ SlotsInv' /\ LeasesInv'
    BY KeepsClose, KeepsVerdicts, KeepsSlots, KeepsLeases
  <2> QED
    BY <2>1, <2>2 DEF IInv
<1> QED
  BY <1>1, <1>2, PTL DEF Spec

\* Whatever opens, fails, dies or is closed late, every slot is held by one
\* opening or session and each lease by one handler, every stream that was opened
\* and not terminated is one that shutdown would find, and when Close returns
\* there is no opening, stream, worker or slot left (webUDPPacketConn.shutdown).
THEOREM OpeningsOwned == WebUDPAssumption => (Spec => []SessionsOwned)
<1> SUFFICES ASSUME WebUDPAssumption PROVE Spec => []SessionsOwned
  OBVIOUS
<1>1. ASSUME IInv PROVE EachOwned
  <2>0. /\ \A c \in Callers : Opening(c) => /\ call[c].n \in Openings
                                            /\ pending[call[c].target] = call[c].n
        /\ \A c \in Callers : call[c].target \in Targets
    BY <1>1 DEF IInv, TypeInv, OpenerInv, CallStates
  <2>1. slots = Cardinality({n \in Openings : Holds(n)}) /\ slots <= Slots
    BY <1>1 DEF IInv, SlotsInv, Holders
  <2>2. leases = Cardinality({n \in Openings : server[n].pc \in {"resolving", "running", "ending"}})
    BY <1>1 DEF IInv, LeasesInv, Served
  <2>3. ASSUME NEW n \in Openings, Opens(n) \/ session[n].term = "no"
        PROVE  \E t \in Targets : n \in {sessions[t], pending[t]}
    <3>1. CASE \E c \in Callers : Opening(c) /\ call[c].n = n
      BY <2>0, <3>1
    <3>2. CASE ~\E c \in Callers : Opening(c) /\ call[c].n = n
      <4>1. session[n].term = "no" /\ opening[n] # "open"
        BY <1>1, <2>3, <3>2 DEF Opens, Opening, IInv, OpenerInv
      <4>2. opening[n] = "session"
        BY <1>1, <4>1 DEF IInv, TypeInv, StageInv
      <4> QED
        BY <1>1, <4>1, <4>2 DEF IInv, ListedInv
    <3> QED
      BY <3>1, <3>2
  <2>4. \A t \in Targets : sessions[t] = 0 \/ pending[t] = 0
    BY <1>1 DEF IInv, ListedInv
  <2> QED
    BY <2>1, <2>2, <2>3, <2>4 DEF EachOwned
<1>2. ASSUME IInv PROVE NoneAfterClose
  <2> SUFFICES ASSUME shutdown = "done"
               PROVE  /\ slots = 0
                      /\ \A n \in Openings : opening[n] # "open" /\ ~Holds(n) /\ IsJoined(n)
                      /\ \A t \in Targets : sessions[t] = 0 /\ pending[t] = 0
    BY DEF NoneAfterClose
  <2>1. /\ \A t \in Targets : sessions[t] = 0 /\ pending[t] = 0
        /\ \A n \in Openings : IsJoined(n)
    BY <1>2 DEF IInv, CloseInv
  <2>2. \A c \in Callers : ~Opening(c)
    BY <1>2, <2>1 DEF IInv, TypeInv, OpenerInv, CallStates, Openings, WebUDPAssumption
  <2>3. \A n \in Openings : opening[n] # "open"
    BY <1>2, <2>2 DEF IInv, OpenerInv
  <2>4. ASSUME NEW n \in Openings PROVE ~Holds(n)
    <3>1. ~Opens(n)
      BY <2>2 DEF Opens, Opening
    <3>2. opening[n] \in Errors \cup {"none", "session"}
      BY <1>2, <2>3 DEF IInv, TypeInv
    <3>3. session[n].term \notin {"no", "canceled", "removed"}
      BY <1>2, <2>1, <3>2 DEF IInv, StageInv, IsJoined
    <3> QED
      BY <3>1, <3>3 DEF Holds
  <2>5. Holders = {}
    BY <2>4 DEF Holders
  <2>6. slots = 0
    BY <1>2, <2>5, FS_EmptySet DEF IInv, SlotsInv
  <2> QED
    BY <2>1, <2>3, <2>4, <2>6
<1>3. IInv => SessionsOwned
  BY <1>1, <1>2 DEF SessionsOwned
<1>4. Spec => []IInv
  BY Invariance
<1> QED
  BY <1>3, <1>4, PTL

\* A Send ends the whole association only if its packet connection is over, if
\* the QUIC connection of its own session is, or if its own opening ended in a
\* signed 400 or a failure that proves nothing: never for a refused target, a
\* limit, the end of a target's stream that was looked up before, or the end of
\* a connection of other sessions (webUDPTargetSendError, closedSendError).
THEOREM FailuresStayLocal == WebUDPAssumption => (Spec => TargetFailuresStayLocal)
<1> SUFFICES ASSUME WebUDPAssumption PROVE Spec => TargetFailuresStayLocal
  OBVIOUS
<1> DEFINE Stays(c) == call'[c].told /\ ~call[c].told => EndOfAll(c)
           Local == \A c \in Callers : Stays(c)
<1>1. ASSUME IInv, [Next]_vars PROVE Local
  <2>0. /\ TypeInv /\ OpenerInv /\ StageInv
        /\ Closed => pdone
        /\ \A c \in Callers : call[c].pc = "late" => pdone
        /\ \A c \in Callers : call[c].pc = "settle" /\ call[c].result = "closed" => pdone
        /\ \A n \in Openings : opening[n] = "closed" => pdone
    BY <1>1 DEF IInv, CloseInv, VerdictInv
  <2>1. ASSUME NEW c \in Callers, OthersSame(c), Stays(c) PROVE Local
    BY <2>1 DEF OthersSame
  <2>2. ASSUME UNCHANGED call PROVE Local
    BY <2>2
  <2>3. ASSUME NEW c \in Callers, NEW t \in Targets, Send(c, t) PROVE Local
    <3>1. OthersSame(c) /\ ~call'[c].told
      BY <2>0, <2>3, SendStep DEF Quiet
    <3> QED
      BY <2>1, <3>1
  <2>4. ASSUME NEW c \in Callers, Look(c) PROVE Local
    <3>1. OthersSame(c)
      BY <1>1, <2>0, <2>4, LookStep DEF Quiet, StartsOpening
    <3>2. Stays(c)
      BY <1>1, <2>0, <2>4, LookStep DEF EndOfAll
    <3> QED
      BY <2>1, <3>1, <3>2
  <2>5. ASSUME NEW c \in Callers, Await(c) \/ Enqueue(c) PROVE Local
    <3>1. OthersSame(c)
      BY <1>1, <2>0, <2>5, AwaitEnqueueStep DEF Quiet
    <3>2. \/ ~call'[c].told \/ call[c].told \/ pdone
          \/ call[c].pc = "have" /\ session[call[c].n].wire \in dead
          \/ call[c].pc = "await" /\ opening'[call[c].n] \in Terminal
      BY <1>1, <2>0, <2>5, AwaitEnqueueStep
    <3>3. call[c].pc = "await" /\ opening'[call[c].n] = "closed" => pdone
      <4>1. ASSUME call[c].pc = "await"
            PROVE  opening'[call[c].n] = opening[call[c].n] /\ call[c].n \in Openings
        BY <2>0, <2>5, <4>1 DEF Await, Enqueue, OpenerInv
      <4> QED
        BY <2>0, <4>1
    <3>4. Stays(c)
      BY <3>2, <3>3 DEF EndOfAll, Terminal
    <3> QED
      BY <2>1, <3>1, <3>4
  <2>6. ASSUME NEW c \in Callers, Reserve(c) \/ Request(c) \/ OpenFails(c) \/ Opened(c)
        PROVE  Local
    <3>1. OthersSame(c) /\ call'[c].told = call[c].told
      BY <1>1, <2>0, <2>6, ReserveStep, RequestStep, OpenFailsStep, OpenedStep DEF Continues
    <3> QED
      BY <2>1, <3>1
  <2>7. ASSUME NEW c \in Callers, Settle(c) PROVE Local
    <3>1. OthersSame(c)
      BY <1>1, <2>0, <2>7, SettleStep DEF Continues, Publishes
    <3>2. ASSUME call'[c].told, ~call[c].told
          PROVE  call[c].pc = "settle" /\ call[c].result \in Terminal /\ Publishes(c, call[c].result)
      BY <1>1, <2>0, <2>7, <3>2, SettleStep
    <3>3. ASSUME call[c].pc = "settle", Publishes(c, call[c].result)
          PROVE  opening'[call[c].n] = call[c].result
      BY <2>0, <3>3 DEF Publishes, TypeInv, OpenerInv, Opening
    <3>4. Stays(c)
      BY <2>0, <3>2, <3>3 DEF EndOfAll, Terminal
    <3> QED
      BY <2>1, <3>1, <3>4
  <2>8. ASSUME NEW c \in Callers, Late(c) PROVE Local
    <3>1. OthersSame(c) /\ call[c].pc = "late"
      BY <1>1, <2>0, <2>8, LateStep DEF Publishes
    <3> QED
      BY <2>0, <2>1, <3>1 DEF EndOfAll
  <2>9. ASSUME NEW n \in Openings,
               Works(n) \/ Sent(n) \/ Serves(n) \/ Responds(n) \/ Responded(n) \/ Ends(n)
        PROVE  UNCHANGED call
    BY <2>9 DEF Works, Terminate, Remove, Terminated, Takes, SendFails, SenderDone, Kill, Sent,
       Serves, Admits, Refuses, Answers, RequestEnds, Ends, SenderEnds, ServerKills, Leaves,
       Responds, Responded, sessionOnly, clientVars
  <2>10. ASSUME NEW w \in Wires, WireDies(w) PROVE UNCHANGED call
    BY <2>10 DEF WireDies, clientVars
  <2>11. CASE ClientCloses \/ CloseBegins \/ CloseGoesOn
    BY <2>2, <2>11 DEF ClientCloses, CloseBegins, CloseGoesOn
  <2>12. CASE UNCHANGED vars
    BY <2>2, <2>12 DEF vars
  <2> HIDE DEF Local
  <2> QED
    BY <1>1, <2>2, <2>3, <2>4, <2>5, <2>6, <2>7, <2>8, <2>9, <2>10, <2>11, <2>12 DEF Next, Calls
<1>2. IInv /\ [Next]_vars => [Local]_vars
  BY <1>1
<1>3. Spec => []IInv
  BY Invariance
<1> QED
  BY <1>2, <1>3, PTL DEF Spec, TargetFailuresStayLocal

================================================================================
