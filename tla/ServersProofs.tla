---------------------------------- MODULE ServersProofs ----------------------------------
(***************************************************************************)
(* Proofs about the exit process, for any finite number of connections,    *)
(* streams and requests and any configurations.                            *)
(*                                                                         *)
(* Native: every token is somebody's, both listeners implement connection  *)
(* admission (SlotPool), and nothing of a server is left when its Close    *)
(* returns.  Web: the same admission, one leader for each gate, and no     *)
(* socket that Close or a failed ListenWeb forgets.                        *)
(***************************************************************************)
EXTENDS ExitServers, FiniteSetTheorems, TLAPS

(* The native listeners. *)

ConnState ==
  [pc : {"new", "held", "slotted", "admitted", "serving", "leaving", "unregistered",
         "gone"},
   open : BOOLEAN, authenticated : BOOLEAN]
StreamPcs ==
  {"idle", "held", "reading", "opening", "association", "relaying", "finishing", "done"}

NativeTypeInv ==
  /\ conn \in [NativeConns -> ConnState]
  /\ stream \in [NativeStreams -> StreamPcs]
  /\ upstream \in [NativeStreams -> {"none", "open", "closed"}]
  /\ held \in [Native!Kinds -> NativeConns \cup {None}]
  /\ closing \in [Native!Kinds -> BOOLEAN]
  /\ closer \in [Native!Kinds -> {"idle", "closing", "waiting", "done"}]
  /\ shared \in BOOLEAN /\ budget \in Nat

\* The connection Serve holds is the one before or inside admission; once the
\* server is closing none is inside.
HeldInv ==
  /\ \A k \in Native!Kinds : held[k] # None =>
       NativeKinds[held[k]] = k /\ conn[held[k]].pc \in {"held", "slotted"}
  /\ \A c \in NativeConns : conn[c].pc \in {"held", "slotted"} => held[NativeKinds[c]] = c
  /\ \A c \in NativeConns : conn[c].pc = "slotted" => ~closing[NativeKinds[c]]
  /\ \A k \in Native!Kinds : closer[k] # "idle" => closing[k]

\* A stream its connection has not admitted yet, and the one stream of a TLS
\* connection, live while the connection's goroutine serves.
Pending(x) == stream[x] = "held"
OfTLS(x) == x \in Native!Working /\ Native!KindOfStream(x) = "tls"
StreamInv ==
  /\ \A x \in NativeStreams : Pending(x) => Native!KindOfStream(x) = "quic"
  /\ \A x \in NativeStreams : Pending(x) \/ OfTLS(x) => conn[NativeOwners[x]].pc = "serving"
  /\ \A x, y \in NativeStreams :
       (Pending(x) \/ OfTLS(x)) /\ (Pending(y) \/ OfTLS(y)) /\ NativeOwners[x] = NativeOwners[y] => x = y
  /\ \A x \in NativeStreams : upstream[x] = "open" => stream[x] = "relaying"

\* Balanced, as what the counters are.
InPool(p) == {c \in Native!Holding : Native!PoolOf(c) = p}
NativeOfSource(k, s) == {c \in Native!Counted : NativeKinds[c] = k /\ NativeSources[c] = s}
OfKind(k) == {c \in Native!Running : NativeKinds[c] = k}
QUICStreams == {x \in Native!Working : Native!KindOfStream(x) = "quic"}

NativeSlotsInv ==
  /\ slots = [p \in Native!Pools |-> Cardinality(InPool(p))]
  /\ clients = [k \in Native!Kinds |-> [s \in Native!Sources |-> Cardinality(NativeOfSource(k, s))]]
StreamsInv ==
  /\ streamSem = Cardinality(QUICStreams)
  /\ coreSem = Cardinality(Native!Carried) /\ coreSem <= budget
GroupsInv ==
  /\ wg = [k \in Native!Kinds |-> Cardinality(OfKind(k))
                                  + (IF k = "quic" THEN Cardinality(QUICStreams) ELSE 0)]
  /\ \A k \in Native!Kinds : closer[k] = "done" => wg[k] = 0

NativeIInv == NativeTypeInv /\ HeldInv /\ StreamInv /\ NativeSlotsInv /\ StreamsInv /\ GroupsInv
-----------------------------------------------------------------------------
(* What a step does to the goroutine of a connection. *)

\* c's goroutine goes from one place to the next, the others stay.
Shift(c, from, to) ==
  /\ conn[c].pc = from
  /\ \A d \in NativeConns : conn'[d].pc = IF d = c THEN to ELSE conn[d].pc
PcsKept == \A d \in NativeConns : conn'[d].pc = conn[d].pc
ConnTyped == conn' \in [NativeConns -> ConnState]

\* A step that replaces the record of one connection moves it alone.
LEMMA Moved ==
  ASSUME NativeTypeInv, NEW c \in NativeConns, NEW r \in ConnState, conn' = [conn EXCEPT ![c] = r]
  PROVE  Shift(c, conn[c].pc, r.pc) /\ ConnTyped
BY DEF NativeTypeInv, Shift, ConnTyped

\* Move, the step of a goroutine that changes nothing else of its connection.
LEMMA MoveShifts ==
  ASSUME NativeTypeInv, NEW c \in NativeConns,
         NEW p \in {"slotted", "admitted", "serving", "leaving", "gone"},
         Native!Move(c, p)
  PROVE  Shift(c, conn[c].pc, p) /\ ConnTyped
<1>1. conn[c] \in ConnState
  BY DEF NativeTypeInv
<1>2. LET s == [conn[c] EXCEPT !.pc = p] IN s \in ConnState /\ s.pc = p
  BY <1>1 DEF ConnState
<1>3. conn' = [conn EXCEPT ![c] = [conn[c] EXCEPT !.pc = p]]
  BY DEF Native!Move
<1> QED BY <1>2, <1>3, Moved

\* The same where the connection is opened or closed in that step.
LEMMA SetShifts ==
  ASSUME NativeTypeInv, NEW c \in NativeConns, NEW o \in BOOLEAN,
         NEW p \in {"held", "leaving", "unregistered", "gone"},
         conn' = [conn EXCEPT ![c] = [conn[c] EXCEPT !.pc = p, !.open = o]]
  PROVE  Shift(c, conn[c].pc, p) /\ ConnTyped
<1>1. conn[c] \in ConnState
  BY DEF NativeTypeInv
<1>2. LET s == [conn[c] EXCEPT !.pc = p, !.open = o] IN s \in ConnState /\ s.pc = p
  BY <1>1 DEF ConnState
<1> QED BY <1>2, Moved

\* Closing a connection or marking it authenticated moves no goroutine.
LEMMA PcsStay ==
  ASSUME NativeTypeInv, NEW c \in NativeConns, NEW o \in BOOLEAN,
         \/ conn' = [conn EXCEPT ![c] = [conn[c] EXCEPT !.open = o]]
         \/ conn' = [conn EXCEPT ![c] = [conn[c] EXCEPT !.authenticated = o]]
  PROVE  PcsKept /\ ConnTyped
<1>1. conn[c] \in ConnState
  BY DEF NativeTypeInv
<1>2. /\ LET s == [conn[c] EXCEPT !.open = o] IN s \in ConnState /\ s.pc = conn[c].pc
      /\ LET s == [conn[c] EXCEPT !.authenticated = o] IN s \in ConnState /\ s.pc = conn[c].pc
  BY <1>1 DEF ConnState
<1>3. Shift(c, conn[c].pc, conn[c].pc) /\ ConnTyped
  BY <1>2, Moved
<1> QED BY <1>3 DEF Shift, PcsKept

\* The steps that only serve: no slot is taken or given, no connection is
\* held, and streams of other connections are not concerned.
Serves(c) ==
  /\ UNCHANGED <<slots, clients, conns, held, closing, closer, Native!budgetVars>>
  /\ \/ Shift(c, "admitted", "serving") \/ Shift(c, "admitted", "leaving")
     \/ Shift(c, "serving", "leaving")
Remains == UNCHANGED <<slots, clients, held, Native!budgetVars>> /\ PcsKept
Drops(k, c) ==
  /\ UNCHANGED <<slots, clients, closing, closer, Native!budgetVars>>
  /\ held[k] = c /\ held' = [held EXCEPT ![k] = None] /\ Shift(c, "held", "gone")
Accepts(k, c) ==
  /\ UNCHANGED <<slots, clients, closing, closer, Native!budgetVars>>
  /\ held[k] = None /\ NativeKinds[c] = k /\ held' = [held EXCEPT ![k] = c]
  /\ Shift(c, "new", "held")

\* Where each step of Serve moves the connection it holds.
LEMMA NativeAdmissionStep ==
  ASSUME NativeTypeInv, NEW k \in Native!Kinds, NEW c \in NativeConns
  PROVE  /\ Native!Accept(k, c) => ConnTyped /\ Accepts(k, c)
         /\ Native!RefuseClosing(k, c) \/ Native!RefuseFull(k, c) => ConnTyped /\ Drops(k, c)
         /\ Native!TakeSlot(k, c) => ConnTyped /\ Shift(c, "held", "slotted")
         /\ Native!RefuseSource(k, c) => ConnTyped /\ Shift(c, "slotted", "gone")
         /\ Native!Admit(k, c) => ConnTyped /\ Shift(c, "slotted", "admitted")
<1>1. Native!Accept(k, c) => ConnTyped /\ Accepts(k, c)
  <2>1. SUFFICES ASSUME Native!Accept(k, c) PROVE ConnTyped /\ Accepts(k, c)
    OBVIOUS
  <2>2. conn' = [conn EXCEPT ![c] = [conn[c] EXCEPT !.pc = "held", !.open = TRUE]]
    BY <2>1 DEF Native!Accept
  <2>3. Shift(c, conn[c].pc, "held") /\ ConnTyped
    BY <2>2, SetShifts
  <2> QED BY <2>1, <2>3 DEF Native!Accept, Accepts
<1>2. ASSUME Native!Drop(k, c) PROVE ConnTyped /\ Shift(c, conn[c].pc, "gone")
  <2>1. conn' = [conn EXCEPT ![c] = [conn[c] EXCEPT !.pc = "gone", !.open = FALSE]]
    BY <1>2 DEF Native!Drop
  <2> QED BY <2>1, SetShifts
<1>3. Native!RefuseClosing(k, c) \/ Native!RefuseFull(k, c) => ConnTyped /\ Drops(k, c)
  BY <1>2 DEF Native!RefuseClosing, Native!RefuseFull, Native!Drop, Drops
<1>4. Native!TakeSlot(k, c) => ConnTyped /\ Shift(c, "held", "slotted")
  BY MoveShifts DEF Native!TakeSlot
<1>5. Native!RefuseSource(k, c) => ConnTyped /\ Shift(c, "slotted", "gone")
  BY <1>2 DEF Native!RefuseSource
<1>6. Native!Admit(k, c) => ConnTyped /\ Shift(c, "slotted", "admitted")
  BY MoveShifts DEF Native!Admit
<1> QED BY <1>1, <1>3, <1>4, <1>5, <1>6

\* Where each step of serveConnection and serveTLSConnection, of the timer
\* and of the peer moves the connection.
LEMMA ConnectionStep ==
  ASSUME NativeTypeInv, NEW c \in NativeConns
  PROVE  /\ Native!PeerCloses(c) => ConnTyped /\ Remains
         /\ Native!TimerFires(c) \/ Native!TimerCloses(c) => ConnTyped /\ Remains
         /\ Native!BeginQUIC(c) => ConnTyped /\ Serves(c) /\ Shift(c, "admitted", "serving")
         /\ Native!BeginFails(c) => ConnTyped /\ Serves(c) /\ Shift(c, "admitted", "leaving")
         /\ \A x \in NativeStreams : Native!BeginTLS(c, x) =>
              ConnTyped /\ Serves(c) /\ Shift(c, "admitted", "serving")
         /\ Native!AcceptStreamFails(c) => ConnTyped /\ Serves(c) /\ Shift(c, "serving", "leaving")
         /\ Native!Unregister(c) => ConnTyped /\ Shift(c, "leaving", "unregistered")
         /\ Native!ConnDone(c) => ConnTyped /\ Shift(c, "unregistered", "gone")
<1>1. Native!PeerCloses(c) => ConnTyped /\ Remains
  BY PcsStay DEF Native!PeerCloses, Remains, Native!serverVars
<1>2. Native!TimerFires(c) => ConnTyped /\ Remains
  BY DEF Native!TimerFires, Remains, Native!serverVars, ConnTyped, NativeTypeInv, PcsKept
<1>3. Native!TimerCloses(c) => ConnTyped /\ Remains
  BY PcsStay DEF Native!TimerCloses, Remains, Native!serverVars
<1>4. Native!BeginQUIC(c) => ConnTyped /\ Serves(c) /\ Shift(c, "admitted", "serving")
  BY MoveShifts DEF Native!BeginQUIC, Serves, Native!serverVars
<1>5. Native!BeginFails(c) => ConnTyped /\ Serves(c) /\ Shift(c, "admitted", "leaving")
  <2>1. SUFFICES ASSUME Native!BeginFails(c)
                 PROVE  ConnTyped /\ Serves(c) /\ Shift(c, "admitted", "leaving")
    OBVIOUS
  <2>2. conn' = [conn EXCEPT ![c] = [conn[c] EXCEPT !.pc = "leaving", !.open = FALSE]]
    BY <2>1 DEF Native!BeginFails
  <2>3. Shift(c, conn[c].pc, "leaving") /\ ConnTyped
    BY <2>2, SetShifts
  <2> QED BY <2>1, <2>3 DEF Native!BeginFails, Serves, Native!serverVars
<1>6. \A x \in NativeStreams : Native!BeginTLS(c, x) =>
         ConnTyped /\ Serves(c) /\ Shift(c, "admitted", "serving")
  BY MoveShifts DEF Native!BeginTLS, Serves, Native!serverVars
<1>7. Native!AcceptStreamFails(c) => ConnTyped /\ Serves(c) /\ Shift(c, "serving", "leaving")
  BY MoveShifts DEF Native!AcceptStreamFails, Native!Accepting, Serves, Native!serverVars
<1>8. Native!Unregister(c) => ConnTyped /\ Shift(c, "leaving", "unregistered")
  <2>1. SUFFICES ASSUME Native!Unregister(c)
                 PROVE  ConnTyped /\ Shift(c, "leaving", "unregistered")
    OBVIOUS
  <2> DEFINE o == IF NativeKinds[c] = "tls" THEN FALSE ELSE conn[c].open
             s == [conn[c] EXCEPT !.pc = "unregistered", !.open = o]
  <2>2. o \in BOOLEAN
    BY DEF NativeTypeInv, ConnState
  <2>3. conn[c] \in ConnState /\ conn \in [NativeConns -> ConnState]
    BY DEF NativeTypeInv
  <2>4. conn' = [conn EXCEPT ![c].pc = "unregistered", ![c].open = o]
    <3>1. conn' = [conn EXCEPT ![c].pc = "unregistered",
                               ![c].open = IF NativeKinds[c] = "tls" THEN FALSE ELSE @]
      BY <2>1 DEF Native!Unregister
    <3> QED BY <2>3, <3>1 DEF ConnState
  <2>5. [conn EXCEPT ![c].pc = "unregistered", ![c].open = o] = [conn EXCEPT ![c] = s]
    BY <2>3 DEF ConnState
  <2>6. conn' = [conn EXCEPT ![c] = [conn[c] EXCEPT !.pc = "unregistered", !.open = o]]
    BY <2>4, <2>5
  <2> HIDE DEF o
  <2>7. Shift(c, conn[c].pc, "unregistered") /\ ConnTyped
    BY <2>2, <2>6, SetShifts
  <2> QED BY <2>1, <2>7 DEF Native!Unregister
<1>9. Native!ConnDone(c) => ConnTyped /\ Shift(c, "unregistered", "gone")
  BY MoveShifts DEF Native!ConnDone
<1> QED BY <1>1, <1>2, <1>3, <1>4, <1>5, <1>6, <1>7, <1>8, <1>9
-----------------------------------------------------------------------------
(* What a step does to a stream. *)

StreamTyped == stream' \in [NativeStreams -> StreamPcs]
\* x goes from one place to the next, the others stay.
StreamShift(x, from, to) ==
  /\ stream[x] \in from
  /\ \A y \in NativeStreams : stream'[y] = IF y = x THEN to ELSE stream[y]

\* To moves one stream alone.
LEMMA ToShifts ==
  ASSUME NativeTypeInv, NEW x \in NativeStreams, NEW from, stream[x] \in from,
         NEW p \in StreamPcs, Native!To(x, p)
  PROVE  StreamTyped /\ StreamShift(x, from, p)
BY DEF NativeTypeInv, Native!To, StreamTyped, StreamShift

\* What a step on a stream leaves alone beside the stream and its upstream.
Inward == UNCHANGED <<slots, clients, held, closing, closer, Native!budgetVars, wg>> /\ PcsKept

\* The steps of handleStream and of the loop that accepts streams.
LEMMA RequestStep ==
  ASSUME NativeAssumption, NativeTypeInv, StreamInv, NEW x \in NativeStreams
  PROVE  /\ Native!AcceptStream(x) =>
              ConnTyped /\ Inward /\ StreamTyped /\ StreamShift(x, {"idle"}, "held")
         /\ Native!RefuseStreamBusy(x) =>
              ConnTyped /\ Inward /\ StreamTyped /\ StreamShift(x, {"held"}, "done")
         /\ Native!AdmitStream(x) =>
              ConnTyped /\ Remains /\ StreamTyped /\ StreamShift(x, {"held"}, "reading")
         /\ Native!BadRequest(x) =>
              ConnTyped /\ Inward /\ StreamTyped /\ StreamShift(x, {"reading"}, "finishing")
         /\ Native!Authenticated(x) =>
              /\ ConnTyped /\ Inward /\ StreamTyped
              /\ \/ StreamShift(x, {"reading"}, "opening")
                 \/ StreamShift(x, {"reading"}, "finishing")
         /\ Native!HandlesUDP(x) =>
              ConnTyped /\ Inward /\ StreamTyped /\ StreamShift(x, {"opening"}, "association")
         /\ Native!RequestEnds(x) =>
              /\ ConnTyped /\ Inward /\ StreamTyped
              /\ StreamShift(x, {"opening", "association"}, "finishing")
         /\ Native!DialSucceeds(x) =>
              ConnTyped /\ Inward /\ StreamTyped /\ StreamShift(x, {"opening"}, "relaying")
         /\ Native!OwnerCloses(x) => ConnTyped /\ Inward /\ StreamTyped /\ UNCHANGED stream
         /\ Native!RelayEnds(x) =>
              ConnTyped /\ Inward /\ StreamTyped /\ StreamShift(x, {"relaying"}, "finishing")
         /\ Native!FinishQUIC(x) =>
              ConnTyped /\ Remains /\ StreamTyped /\ StreamShift(x, {"finishing"}, "done")
<1> USE DEF StreamPcs
<1>1. UNCHANGED conn => ConnTyped /\ PcsKept
  BY DEF NativeTypeInv, ConnTyped, PcsKept
<1>2. Native!AcceptStream(x) =>
        ConnTyped /\ Inward /\ StreamTyped /\ StreamShift(x, {"idle"}, "held")
  BY <1>1, ToShifts DEF Native!AcceptStream, Native!To, Inward, Native!serverVars
<1>3. Native!RefuseStreamBusy(x) =>
        ConnTyped /\ Inward /\ StreamTyped /\ StreamShift(x, {"held"}, "done")
  BY <1>1, ToShifts DEF Native!RefuseStreamBusy, Native!To, Inward, Native!serverVars
<1>4. Native!AdmitStream(x) =>
        ConnTyped /\ Remains /\ StreamTyped /\ StreamShift(x, {"held"}, "reading")
  BY <1>1, ToShifts DEF Native!AdmitStream, Native!To, Remains, Native!serverVars
<1>5. Native!BadRequest(x) =>
        ConnTyped /\ Inward /\ StreamTyped /\ StreamShift(x, {"reading"}, "finishing")
  BY <1>1, ToShifts DEF Native!BadRequest, Inward, Native!serverVars, Native!streamOnly
<1>6. Native!Authenticated(x) =>
        /\ ConnTyped /\ Inward /\ StreamTyped
        /\ \/ StreamShift(x, {"reading"}, "opening")
           \/ StreamShift(x, {"reading"}, "finishing")
  <2>1. SUFFICES ASSUME Native!Authenticated(x)
                 PROVE  /\ ConnTyped /\ Inward /\ StreamTyped
                        /\ \/ StreamShift(x, {"reading"}, "opening")
                           \/ StreamShift(x, {"reading"}, "finishing")
    OBVIOUS
  <2>2. conn' = [conn EXCEPT ![NativeOwners[x]] = [conn[NativeOwners[x]] EXCEPT !.authenticated = TRUE]]
    BY <2>1 DEF Native!Authenticated
  <2>3. ConnTyped /\ PcsKept
    BY <2>2, PcsStay DEF NativeAssumption
  <2>4. stream[x] = "reading" /\ (Native!To(x, "opening") \/ Native!To(x, "finishing"))
    BY <2>1 DEF Native!Authenticated
  <2>5. StreamTyped /\ (StreamShift(x, {"reading"}, "opening")
                        \/ StreamShift(x, {"reading"}, "finishing"))
    BY <2>4, ToShifts
  <2> QED BY <2>1, <2>3, <2>5 DEF Native!Authenticated, Inward, Native!serverVars, Native!streamOnly
<1>7. Native!HandlesUDP(x) =>
        ConnTyped /\ Inward /\ StreamTyped /\ StreamShift(x, {"opening"}, "association")
  BY <1>1, ToShifts DEF Native!HandlesUDP, Inward, Native!serverVars, Native!streamOnly
<1>8. Native!RequestEnds(x) =>
        /\ ConnTyped /\ Inward /\ StreamTyped
        /\ StreamShift(x, {"opening", "association"}, "finishing")
  BY <1>1, ToShifts DEF Native!RequestEnds, Inward, Native!serverVars, Native!streamOnly
<1>9. Native!DialSucceeds(x) =>
        ConnTyped /\ Inward /\ StreamTyped /\ StreamShift(x, {"opening"}, "relaying")
  BY <1>1, ToShifts DEF Native!DialSucceeds, Inward, Native!serverVars, Native!streamOnly
<1>10. Native!OwnerCloses(x) => ConnTyped /\ Inward /\ StreamTyped /\ UNCHANGED stream
  BY <1>1 DEF Native!OwnerCloses, Inward, Native!serverVars, Native!streamOnly, StreamTyped,
       NativeTypeInv
<1>11. Native!RelayEnds(x) =>
         ConnTyped /\ Inward /\ StreamTyped /\ StreamShift(x, {"relaying"}, "finishing")
  BY <1>1, ToShifts DEF Native!RelayEnds, Inward, Native!serverVars, Native!streamOnly
<1>12. Native!FinishQUIC(x) =>
         ConnTyped /\ Remains /\ StreamTyped /\ StreamShift(x, {"finishing"}, "done")
  BY <1>1, ToShifts DEF Native!FinishQUIC, Remains, Native!serverVars
<1> QED BY <1>2, <1>3, <1>4, <1>5, <1>6, <1>7, <1>8, <1>9, <1>10, <1>11, <1>12

\* The three steps in which a stream's and its connection's goroutine meet.
LEMMA JointStep ==
  ASSUME NativeAssumption, NativeTypeInv, StreamInv, NEW x \in NativeStreams
  PROVE  /\ Native!RefuseStreamClosing(x) =>
              ConnTyped /\ Serves(NativeOwners[x]) /\ Shift(NativeOwners[x], "serving", "leaving")
         /\ Native!FinishTLS(x) =>
              /\ ConnTyped /\ Serves(NativeOwners[x]) /\ Shift(NativeOwners[x], "serving", "leaving")
              /\ StreamTyped /\ StreamShift(x, {"finishing"}, "done")
<1> DEFINE c == NativeOwners[x]
<1>1. c \in NativeConns
  BY DEF NativeAssumption
<1>2. ASSUME Native!RefuseStreamClosing(x)
      PROVE  ConnTyped /\ Serves(c) /\ Shift(c, "serving", "leaving")
  <2>1. conn[c].pc = "serving"
    BY <1>2 DEF Native!RefuseStreamClosing, StreamInv, Pending
  <2>2. Shift(c, conn[c].pc, "leaving") /\ ConnTyped
    BY <1>1, <1>2, MoveShifts DEF Native!RefuseStreamClosing
  <2> QED BY <1>2, <2>1, <2>2 DEF Native!RefuseStreamClosing, Serves, Native!serverVars
<1>3. ASSUME Native!FinishTLS(x)
      PROVE  /\ ConnTyped /\ Serves(c) /\ Shift(c, "serving", "leaving")
             /\ StreamTyped /\ StreamShift(x, {"finishing"}, "done")
  <2>1. conn[c].pc = "serving"
    BY <1>3 DEF Native!FinishTLS, StreamInv, OfTLS, Native!Working
  <2>2. conn' = [conn EXCEPT ![c] = [conn[c] EXCEPT !.pc = "leaving", !.open = FALSE]]
    BY <1>3 DEF Native!FinishTLS
  <2>3. Shift(c, conn[c].pc, "leaving") /\ ConnTyped
    BY <1>1, <2>2, SetShifts
  <2>4. StreamTyped /\ StreamShift(x, {"finishing"}, "done")
    BY <1>3, ToShifts DEF Native!FinishTLS, StreamPcs
  <2> QED BY <1>3, <2>1, <2>3, <2>4 DEF Native!FinishTLS, Serves, Native!serverVars,
               Native!streamOnly
<1> QED BY <1>2, <1>3
-----------------------------------------------------------------------------
(* Serve and Close. *)

\* The steps of Serve and Close that concern no single connection.
LEMMA ServeStep ==
  ASSUME NativeTypeInv, NEW k \in Native!Kinds
  PROVE  /\ Native!Canceled(k) \/ Native!AcceptEnds(k) \/ Native!ServeReturns(k) => ConnTyped /\ Inward
         /\ Native!CloseBegins(k) =>
              /\ ConnTyped /\ Remains /\ UNCHANGED wg
              /\ closer[k] = "idle" /\ ~Native!Locked(k)
              /\ \A j \in Native!Kinds : closing'[j] <=> j = k \/ closing[j]
              /\ \A j \in Native!Kinds : closer'[j] = IF j = k THEN "closing" ELSE closer[j]
         /\ Native!CloseConns(k) =>
              /\ ConnTyped /\ Remains /\ UNCHANGED <<wg, closing>>
              /\ closer[k] = "closing"
              /\ \A j \in Native!Kinds : closer'[j] = IF j = k THEN "waiting" ELSE closer[j]
         /\ Native!CloseReturns(k) =>
              /\ ConnTyped /\ Remains /\ UNCHANGED <<wg, closing>>
              /\ closer[k] = "waiting" /\ wg[k] = 0
              /\ \A j \in Native!Kinds : closer'[j] = IF j = k THEN "done" ELSE closer[j]
<1>1. UNCHANGED conn => ConnTyped /\ PcsKept
  BY DEF NativeTypeInv, ConnTyped, PcsKept
<1>2. Native!Canceled(k) \/ Native!AcceptEnds(k) \/ Native!ServeReturns(k) => ConnTyped /\ Inward
  BY <1>1 DEF Native!Canceled, Native!AcceptEnds, Native!ServeReturns, Inward
<1>3. Native!CloseBegins(k) =>
        /\ ConnTyped /\ Remains /\ UNCHANGED wg
        /\ closer[k] = "idle" /\ ~Native!Locked(k)
        /\ \A j \in Native!Kinds : closing'[j] <=> j = k \/ closing[j]
        /\ \A j \in Native!Kinds : closer'[j] = IF j = k THEN "closing" ELSE closer[j]
  BY <1>1 DEF Native!CloseBegins, Remains, NativeTypeInv
<1>4. Native!CloseConns(k) =>
        /\ ConnTyped /\ Remains /\ UNCHANGED <<wg, closing>>
        /\ closer[k] = "closing"
        /\ \A j \in Native!Kinds : closer'[j] = IF j = k THEN "waiting" ELSE closer[j]
  <2>1. SUFFICES ASSUME Native!CloseConns(k)
                 PROVE  /\ ConnTyped /\ Remains /\ UNCHANGED <<wg, closing>>
                        /\ closer[k] = "closing"
                        /\ \A j \in Native!Kinds : closer'[j] = IF j = k THEN "waiting" ELSE closer[j]
    OBVIOUS
  <2>2. \A c \in NativeConns : LET s == [conn[c] EXCEPT !.open = FALSE]
                               IN  s \in ConnState /\ s.pc = conn[c].pc
    BY DEF NativeTypeInv, ConnState
  <2>3. conn' = [c \in NativeConns |-> IF c \in conns[k] THEN [conn[c] EXCEPT !.open = FALSE]
                                       ELSE conn[c]]
    BY <2>1 DEF Native!CloseConns
  <2>4. ConnTyped /\ PcsKept
    BY <2>2, <2>3 DEF NativeTypeInv, ConnTyped, PcsKept
  <2> QED BY <2>1, <2>4 DEF Native!CloseConns, Remains, NativeTypeInv
<1>5. Native!CloseReturns(k) =>
        /\ ConnTyped /\ Remains /\ UNCHANGED <<wg, closing>>
        /\ closer[k] = "waiting" /\ wg[k] = 0
        /\ \A j \in Native!Kinds : closer'[j] = IF j = k THEN "done" ELSE closer[j]
  BY <1>1 DEF Native!CloseReturns, Native!Joined, Remains, NativeTypeInv
<1> QED BY <1>2, <1>3, <1>4, <1>5

\* Every step is one of these: it serves or remains, and says nothing of Close;
\* or it is an action of admission, of the end of a connection, or of Close.
LEMMA ConnClass ==
  ASSUME NativeAssumption, NativeTypeInv, StreamInv, Native!Next
  PROVE  /\ ConnTyped
         /\ \/ Remains /\ UNCHANGED <<closing, closer>>
            \/ \E c \in NativeConns : Serves(c)
            \/ \E k \in Native!Kinds, c \in NativeConns :
                 \/ Accepts(k, c) \/ Drops(k, c)
                 \/ Native!TakeSlot(k, c) \/ Native!RefuseSource(k, c) \/ Native!Admit(k, c)
            \/ \E c \in NativeConns : Native!Unregister(c) \/ Native!ConnDone(c)
            \/ \E k \in Native!Kinds : Native!CloseBegins(k) \/ Native!CloseConns(k)
                 \/ Native!CloseReturns(k)
<1>1. ASSUME NEW k \in Native!Kinds, NEW c \in NativeConns,
             \/ Native!Accept(k, c) \/ Native!RefuseClosing(k, c) \/ Native!RefuseFull(k, c)
             \/ Native!TakeSlot(k, c) \/ Native!RefuseSource(k, c) \/ Native!Admit(k, c)
      PROVE  /\ ConnTyped
             /\ \/ Accepts(k, c) \/ Drops(k, c)
                \/ Native!TakeSlot(k, c) \/ Native!RefuseSource(k, c) \/ Native!Admit(k, c)
  BY <1>1, NativeAdmissionStep
<1>2. ASSUME NEW c \in NativeConns, Native!PeerCloses(c) \/ Native!Timer(c)
      PROVE  ConnTyped /\ Remains /\ UNCHANGED <<closing, closer>>
  BY <1>2, ConnectionStep DEF Native!Timer, Native!PeerCloses, Native!TimerFires,
       Native!TimerCloses, Native!serverVars
<1>3. ASSUME NEW c \in NativeConns, Native!Connection(c)
      PROVE  ConnTyped /\ (Serves(c) \/ Native!Unregister(c) \/ Native!ConnDone(c))
  BY <1>3, ConnectionStep DEF Native!Connection
<1>4. ASSUME NEW x \in NativeStreams,
             Native!AcceptStream(x) \/ Native!HeldStream(x) \/ Native!Request(x) \/ Native!RelayEnds(x)
      PROVE  /\ ConnTyped
             /\ \/ Remains /\ UNCHANGED <<closing, closer>>
                \/ \E c \in NativeConns : Serves(c)
  <2>1. NativeOwners[x] \in NativeConns
    BY DEF NativeAssumption
  <2>2. CASE Native!RefuseStreamClosing(x) \/ Native!FinishTLS(x)
    BY <2>1, <2>2, JointStep
  <2>3. CASE Native!AdmitStream(x) \/ Native!FinishQUIC(x)
    BY <2>3, RequestStep DEF Native!AdmitStream, Native!FinishQUIC, Native!serverVars
  <2>4. CASE \/ Native!AcceptStream(x) \/ Native!RefuseStreamBusy(x) \/ Native!BadRequest(x)
                  \/ Native!Authenticated(x)
             \/ Native!HandlesUDP(x) \/ Native!RequestEnds(x) \/ Native!DialSucceeds(x)
                  \/ Native!OwnerCloses(x)
             \/ Native!RelayEnds(x)
    BY <2>4, RequestStep DEF Inward, Remains
  <2> QED BY <1>4, <2>2, <2>3, <2>4 DEF Native!HeldStream, Native!Request
<1>5. ASSUME NEW k \in Native!Kinds, Native!Canceled(k) \/ Native!AcceptEnds(k) \/ Native!ServeReturns(k)
      PROVE  ConnTyped /\ Remains /\ UNCHANGED <<closing, closer>>
  BY <1>5, ServeStep DEF Inward, Remains
<1>6. ASSUME NEW k \in Native!Kinds, Native!CloseBegins(k) \/ Native!CloseConns(k) \/ Native!CloseReturns(k)
      PROVE  ConnTyped
  BY <1>6, ServeStep
<1> QED BY <1>1, <1>2, <1>3, <1>4, <1>5, <1>6 DEF Native!Next, Native!Admission, Native!Closing
-----------------------------------------------------------------------------
(* The connection Serve holds. *)

\* Serve goes on with the connection it holds, and takes no slot while it closes.
LEMMA HeldKept ==
  ASSUME NativeAssumption, NativeTypeInv, StreamInv, HeldInv, Native!Next
  PROVE  HeldInv'
<1> USE DEF HeldInv
<1>1. /\ \A k \in Native!Kinds : held[k] \in NativeConns \cup {None}
      /\ \A c \in NativeConns : NativeKinds[c] \in Native!Kinds
      /\ None \notin NativeConns /\ held \in [Native!Kinds -> NativeConns \cup {None}]
  BY DEF NativeTypeInv, NativeAssumption
<1>2. CASE Remains /\ UNCHANGED <<closing, closer>>
  BY <1>1, <1>2 DEF Remains, PcsKept
<1>3. CASE \E c \in NativeConns : Serves(c)
  BY <1>1, <1>3 DEF Serves, Shift
<1>4. ASSUME NEW k \in Native!Kinds, NEW c \in NativeConns, Accepts(k, c)
      PROVE  HeldInv'
  <2>1. /\ \A j \in Native!Kinds : held'[j] = IF j = k THEN c ELSE held[j]
        /\ UNCHANGED <<closing, closer>> /\ held[k] = None /\ NativeKinds[c] = k
    BY <1>1, <1>4 DEF Accepts
  <2>2. /\ conn[c].pc = "new"
        /\ \A d \in NativeConns : conn'[d].pc = IF d = c THEN "held" ELSE conn[d].pc
    BY <1>4 DEF Accepts, Shift
  <2> QED BY <1>1, <2>1, <2>2
<1>5. ASSUME NEW k \in Native!Kinds, NEW c \in NativeConns, Drops(k, c)
      PROVE  HeldInv'
  <2>1. /\ \A j \in Native!Kinds : held'[j] = IF j = k THEN None ELSE held[j]
        /\ UNCHANGED <<closing, closer>> /\ held[k] = c
    BY <1>1, <1>5 DEF Drops
  <2>2. \A d \in NativeConns : conn'[d].pc = IF d = c THEN "gone" ELSE conn[d].pc
    BY <1>5 DEF Drops, Shift
  <2> QED BY <1>1, <2>1, <2>2
<1>6. ASSUME NEW k \in Native!Kinds, NEW c \in NativeConns, Native!TakeSlot(k, c)
      PROVE  HeldInv'
  <2>1. UNCHANGED <<held, closing, closer>> /\ held[k] = c /\ ~closing[k]
    BY <1>6 DEF Native!TakeSlot, Native!serverVars
  <2>2. /\ conn[c].pc = "held"
        /\ \A d \in NativeConns : conn'[d].pc = IF d = c THEN "slotted" ELSE conn[d].pc
    BY <1>6, NativeAdmissionStep DEF Shift
  <2>3. NativeKinds[c] = k
    BY <1>1, <2>1
  <2> QED BY <1>1, <2>1, <2>2, <2>3
<1>7. ASSUME NEW k \in Native!Kinds, NEW c \in NativeConns, Native!RefuseSource(k, c) \/ Native!Admit(k, c)
      PROVE  HeldInv'
  <2>1. /\ \A j \in Native!Kinds : held'[j] = IF j = k THEN None ELSE held[j]
        /\ UNCHANGED <<closing, closer>> /\ held[k] = c
    BY <1>1, <1>7 DEF Native!RefuseSource, Native!Admit, Native!Drop
  <2>2. \E p \in {"gone", "admitted"} :
          \A d \in NativeConns : conn'[d].pc = IF d = c THEN p ELSE conn[d].pc
    BY <1>7, NativeAdmissionStep DEF Shift
  <2> QED BY <1>1, <2>1, <2>2
<1>8. ASSUME NEW c \in NativeConns, Native!Unregister(c) \/ Native!ConnDone(c)
      PROVE  HeldInv'
  <2>1. UNCHANGED <<held, closing, closer>>
    BY <1>8 DEF Native!Unregister, Native!ConnDone, Native!serverVars
  <2>2. \E p \in {"unregistered", "gone"} :
          /\ conn[c].pc \in {"leaving", "unregistered"}
          /\ \A d \in NativeConns : conn'[d].pc = IF d = c THEN p ELSE conn[d].pc
    BY <1>8, ConnectionStep DEF Shift
  <2> QED BY <1>1, <2>1, <2>2
<1>9. ASSUME NEW k \in Native!Kinds, Native!CloseBegins(k)
      PROVE  HeldInv'
  <2>1. /\ held' = held /\ PcsKept /\ ~Native!Locked(k)
        /\ \A j \in Native!Kinds : closing'[j] <=> j = k \/ closing[j]
        /\ \A j \in Native!Kinds : closer'[j] = IF j = k THEN "closing" ELSE closer[j]
    BY <1>9, ServeStep DEF Remains
  <2>2. \A c \in NativeConns : NativeKinds[c] = k => conn[c].pc # "slotted"
    BY <1>1, <2>1 DEF Native!Locked
  <2>3. \A j \in Native!Kinds : closer'[j] # "idle" => closing'[j]
    BY <2>1
  <2>4. \A c \in NativeConns : conn'[c].pc = "slotted" => ~closing'[NativeKinds[c]]
    BY <1>1, <2>1, <2>2 DEF PcsKept
  <2> QED BY <1>1, <2>1, <2>3, <2>4 DEF PcsKept
<1>10. ASSUME NEW k \in Native!Kinds, Native!CloseConns(k) \/ Native!CloseReturns(k)
       PROVE  HeldInv'
  <2>1. /\ UNCHANGED <<held, closing>> /\ PcsKept /\ closer[k] # "idle"
        /\ \A j \in Native!Kinds : j # k => closer'[j] = closer[j]
    <3>1. CASE Native!CloseConns(k)
      <4>1. /\ Remains /\ UNCHANGED <<wg, closing>> /\ closer[k] = "closing"
            /\ \A j \in Native!Kinds : closer'[j] = IF j = k THEN "waiting" ELSE closer[j]
        BY <3>1, ServeStep, Zenon
      <4> QED BY <4>1 DEF Remains
    <3>2. CASE Native!CloseReturns(k)
      <4>1. /\ Remains /\ UNCHANGED <<wg, closing>> /\ closer[k] = "waiting"
            /\ \A j \in Native!Kinds : closer'[j] = IF j = k THEN "done" ELSE closer[j]
        BY <3>2, ServeStep, Zenon
      <4> QED BY <4>1 DEF Remains
    <3> QED BY <1>10, <3>1, <3>2
  <2>2. \A j \in Native!Kinds : closer'[j] # "idle" => closing'[j]
    BY <2>1
  <2> QED BY <1>1, <2>1, <2>2 DEF PcsKept
<1> QED BY <1>2, <1>3, <1>4, <1>5, <1>6, <1>7, <1>8, <1>9, <1>10, ConnClass
-----------------------------------------------------------------------------
(* Slots and shares: the steps of SlotPool. *)

\* What the counters count are finite sets.
LEMMA FiniteParts ==
  ASSUME NativeAssumption
  PROVE  /\ \A p : IsFiniteSet(InPool(p))
         /\ \A k, s : IsFiniteSet(NativeOfSource(k, s))
         /\ \A k : IsFiniteSet(OfKind(k))
         /\ IsFiniteSet(QUICStreams) /\ IsFiniteSet(Native!Carried)
<1>1. \A S \in SUBSET NativeConns : IsFiniteSet(S)
  BY FS_Subset DEF NativeAssumption
<1>2. \A S \in SUBSET NativeStreams : IsFiniteSet(S)
  BY FS_Subset DEF NativeAssumption
<1> QED BY <1>1, <1>2 DEF InPool, NativeOfSource, OfKind, QUICStreams, Native!Carried,
             Native!Holding, Native!Counted,
                          Native!Running, Native!Working

\* A step changes the holders and the counted as an action of SlotPool does, and the
\* counters with them.
LEMMA PoolStep ==
  ASSUME NativeAssumption, NativeTypeInv, StreamInv, HeldInv, Native!Next
  PROVE  /\ UNCHANGED <<shared, limits, budget>>
         /\ \/ UNCHANGED <<slots, clients, Native!Holding, Native!Counted>>
            \/ \E c \in NativeConns :
                 /\ c \notin Native!Holding /\ Native!HasSlot(c)
                      /\ Native!Holding' = Native!Holding \cup {c}
                 /\ slots' = [slots EXCEPT ![Native!PoolOf(c)] = @ + 1]
                 /\ UNCHANGED <<Native!Counted, clients>>
            \/ \E c \in NativeConns :
                 /\ c \in Native!Holding \ Native!Counted /\ Native!HasShare(NativeKinds[c], c)
                 /\ Native!Counted' = Native!Counted \cup {c}
                 /\ clients' = [clients EXCEPT ![NativeKinds[c]][NativeSources[c]] = @ + 1]
                 /\ UNCHANGED <<Native!Holding, slots>>
            \/ \E c \in NativeConns :
                 /\ c \in Native!Counted /\ Native!Counted' = Native!Counted \ {c}
                 /\ clients' = [clients EXCEPT ![NativeKinds[c]][NativeSources[c]] = @ - 1]
                 /\ UNCHANGED <<Native!Holding, slots>>
            \/ \E c \in NativeConns :
                 /\ c \in Native!Holding \ Native!Counted /\ Native!Holding' = Native!Holding \ {c}
                 /\ slots' = [slots EXCEPT ![Native!PoolOf(c)] = @ - 1]
                 /\ UNCHANGED <<Native!Counted, clients>>
<1> USE DEF Native!Holding, Native!Counted
<1>1. CASE Remains
  BY <1>1 DEF Remains, PcsKept, Native!budgetVars
<1>2. ASSUME NEW c \in NativeConns, Serves(c)
      PROVE  UNCHANGED <<slots, clients, Native!Holding, Native!Counted, shared, limits, budget>>
  BY <1>2 DEF Serves, Shift, Native!budgetVars
<1>3. ASSUME NEW k \in Native!Kinds, NEW c \in NativeConns, Accepts(k, c) \/ Drops(k, c)
      PROVE  UNCHANGED <<slots, clients, Native!Holding, Native!Counted, shared, limits, budget>>
  BY <1>3 DEF Accepts, Drops, Shift, Native!budgetVars
<1>4. ASSUME NEW k \in Native!Kinds, NEW c \in NativeConns, held[k] = c
      PROVE  NativeKinds[c] = k
  BY <1>4 DEF HeldInv, NativeAssumption
<1>5. ASSUME NEW k \in Native!Kinds, NEW c \in NativeConns, Native!TakeSlot(k, c)
      PROVE  /\ c \notin Native!Holding /\ Native!HasSlot(c) /\ Native!Holding' = Native!Holding \cup {c}
             /\ slots' = [slots EXCEPT ![Native!PoolOf(c)] = @ + 1]
             /\ UNCHANGED <<Native!Counted, clients, shared, limits, budget>>
  <2>1. Shift(c, "held", "slotted")
    BY <1>5, NativeAdmissionStep
  <2>2. c \notin Native!Holding /\ Native!Holding' = Native!Holding \cup {c} /\ UNCHANGED Native!Counted
    BY <2>1 DEF Shift
  <2> QED BY <1>5, <2>2 DEF Native!TakeSlot, Native!budgetVars
<1>6. ASSUME NEW k \in Native!Kinds, NEW c \in NativeConns, Native!RefuseSource(k, c)
      PROVE  /\ c \in Native!Holding \ Native!Counted /\ Native!Holding' = Native!Holding \ {c}
             /\ slots' = [slots EXCEPT ![Native!PoolOf(c)] = @ - 1]
             /\ UNCHANGED <<Native!Counted, clients, shared, limits, budget>>
  <2>1. Shift(c, "slotted", "gone")
    BY <1>6, NativeAdmissionStep
  <2>2. c \in Native!Holding \ Native!Counted /\ Native!Holding' = Native!Holding \ {c}
          /\ UNCHANGED Native!Counted
    BY <2>1 DEF Shift
  <2> QED BY <1>6, <2>2 DEF Native!RefuseSource, Native!GiveSlot, Native!budgetVars
<1>7. ASSUME NEW k \in Native!Kinds, NEW c \in NativeConns, Native!Admit(k, c)
      PROVE  /\ c \in Native!Holding \ Native!Counted /\ Native!HasShare(NativeKinds[c], c)
             /\ Native!Counted' = Native!Counted \cup {c}
             /\ clients' = [clients EXCEPT ![NativeKinds[c]][NativeSources[c]] = @ + 1]
             /\ UNCHANGED <<Native!Holding, slots, shared, limits, budget>>
  <2>1. Shift(c, "slotted", "admitted") /\ NativeKinds[c] = k
    BY <1>4, <1>7, NativeAdmissionStep DEF Native!Admit
  <2>2. c \in Native!Holding \ Native!Counted /\ Native!Counted' = Native!Counted \cup {c}
          /\ UNCHANGED Native!Holding
    BY <2>1 DEF Shift
  <2> QED BY <1>7, <2>1, <2>2 DEF Native!Admit, Native!budgetVars
<1>8. ASSUME NEW c \in NativeConns, Native!Unregister(c)
      PROVE  /\ c \in Native!Counted /\ Native!Counted' = Native!Counted \ {c}
             /\ clients' = [clients EXCEPT ![NativeKinds[c]][NativeSources[c]] = @ - 1]
             /\ UNCHANGED <<Native!Holding, slots, shared, limits, budget>>
  <2>1. Shift(c, "leaving", "unregistered")
    BY <1>8, ConnectionStep
  <2>2. c \in Native!Counted /\ Native!Counted' = Native!Counted \ {c} /\ UNCHANGED Native!Holding
    BY <2>1 DEF Shift
  <2> QED BY <1>8, <2>2 DEF Native!Unregister, Native!Release, Native!budgetVars
<1>9. ASSUME NEW c \in NativeConns, Native!ConnDone(c)
      PROVE  /\ c \in Native!Holding \ Native!Counted /\ Native!Holding' = Native!Holding \ {c}
             /\ slots' = [slots EXCEPT ![Native!PoolOf(c)] = @ - 1]
             /\ UNCHANGED <<Native!Counted, clients, shared, limits, budget>>
  <2>1. Shift(c, "unregistered", "gone")
    BY <1>9, ConnectionStep
  <2>2. c \in Native!Holding \ Native!Counted /\ Native!Holding' = Native!Holding \ {c}
          /\ UNCHANGED Native!Counted
    BY <2>1 DEF Shift
  <2> QED BY <1>9, <2>2 DEF Native!ConnDone, Native!GiveSlot, Native!budgetVars
<1>10. ASSUME NEW k \in Native!Kinds,
              Native!CloseBegins(k) \/ Native!CloseConns(k) \/ Native!CloseReturns(k)
       PROVE  Remains
  BY <1>10, ServeStep
<1> QED BY <1>1, <1>2, <1>3, <1>5, <1>6, <1>7, <1>8, <1>9, <1>10, ConnClass

\* Taking a token.
LEMMA CountUp ==
  ASSUME NEW S, IsFiniteSet(S), NEW c, c \notin S
  PROVE  Cardinality(S \cup {c}) = Cardinality(S) + 1
BY FS_AddElement

\* Returning a token.
LEMMA CountDown ==
  ASSUME NEW S, IsFiniteSet(S), NEW c \in S
  PROVE  Cardinality(S \ {c}) = Cardinality(S) - 1
BY FS_RemoveElement

\* connSem and sourceConnectionLimiter.active count their holders.
LEMMA SlotsKept ==
  ASSUME NativeAssumption, NativeTypeInv, StreamInv, HeldInv, NativeSlotsInv, Native!Next
  PROVE  NativeSlotsInv'
<1>1. /\ UNCHANGED shared
      /\ \A c : Native!PoolOf(c)' = Native!PoolOf(c)
      /\ \A c \in NativeConns : Native!PoolOf(c) \in Native!Pools /\ NativeKinds[c] \in Native!Kinds
           /\ NativeSources[c] \in Native!Sources
  BY PoolStep DEF Native!PoolOf, Native!Pools, Native!Sources, NativeAssumption
<1>2. /\ \A p : InPool(p) = {c \in Native!Holding : Native!PoolOf(c) = p}
      /\ \A p : InPool(p)' = {c \in Native!Holding' : Native!PoolOf(c) = p}
      /\ \A k, s : NativeOfSource(k, s) = {c \in Native!Counted : NativeKinds[c] = k /\ NativeSources[c] = s}
      /\ \A k, s : NativeOfSource(k, s)' = {c \in Native!Counted' : NativeKinds[c] = k /\ NativeSources[c] = s}
  BY <1>1 DEF InPool, NativeOfSource
<1>3. /\ slots = [p \in Native!Pools |-> Cardinality(InPool(p))]
      /\ clients = [k \in Native!Kinds |-> [s \in Native!Sources |-> Cardinality(NativeOfSource(k, s))]]
  BY DEF NativeSlotsInv
<1>4. CASE UNCHANGED <<slots, clients, Native!Holding, Native!Counted>>
  <2>1. \A p : InPool(p)' = InPool(p)
    BY <1>2, <1>4
  <2>2. \A k, s : NativeOfSource(k, s)' = NativeOfSource(k, s)
    BY <1>2, <1>4
  <2> QED BY <1>3, <1>4, <2>1, <2>2 DEF NativeSlotsInv
<1>5. ASSUME UNCHANGED Native!Counted PROVE \A k, s : NativeOfSource(k, s)' = NativeOfSource(k, s)
  BY <1>2, <1>5
<1>6. ASSUME UNCHANGED Native!Holding PROVE \A p : InPool(p)' = InPool(p)
  BY <1>2, <1>6
<1>7. ASSUME NEW c \in NativeConns, c \notin Native!Holding, Native!Holding' = Native!Holding \cup {c},
             slots' = [slots EXCEPT ![Native!PoolOf(c)] = @ + 1], UNCHANGED <<Native!Counted, clients>>
      PROVE  NativeSlotsInv'
  <2>1. \A p \in Native!Pools : InPool(p)' = IF p = Native!PoolOf(c) THEN InPool(p) \cup {c} ELSE InPool(p)
    BY <1>2, <1>7
  <2>2. c \notin InPool(Native!PoolOf(c)) /\ IsFiniteSet(InPool(Native!PoolOf(c)))
    BY <1>2, <1>7, FiniteParts
  <2>3. Cardinality(InPool(Native!PoolOf(c)) \cup {c}) = Cardinality(InPool(Native!PoolOf(c))) + 1
    BY <2>2, CountUp
  <2>4. slots' = [p \in Native!Pools |-> Cardinality(InPool(p)')]
    BY <1>1, <1>3, <1>7, <2>1, <2>3
  <2> QED BY <1>3, <1>5, <1>7, <2>4 DEF NativeSlotsInv
<1>8. ASSUME NEW c \in NativeConns, c \in Native!Holding, Native!Holding' = Native!Holding \ {c},
             slots' = [slots EXCEPT ![Native!PoolOf(c)] = @ - 1], UNCHANGED <<Native!Counted, clients>>
      PROVE  NativeSlotsInv'
  <2>1. \A p \in Native!Pools : InPool(p)' = IF p = Native!PoolOf(c) THEN InPool(p) \ {c} ELSE InPool(p)
    BY <1>2, <1>8
  <2>2. c \in InPool(Native!PoolOf(c)) /\ IsFiniteSet(InPool(Native!PoolOf(c)))
    BY <1>2, <1>8, FiniteParts
  <2>3. Cardinality(InPool(Native!PoolOf(c)) \ {c}) = Cardinality(InPool(Native!PoolOf(c))) - 1
    BY <2>2, CountDown
  <2>4. slots' = [p \in Native!Pools |-> Cardinality(InPool(p)')]
    BY <1>1, <1>3, <1>8, <2>1, <2>3
  <2> QED BY <1>3, <1>5, <1>8, <2>4 DEF NativeSlotsInv
<1>9. ASSUME NEW c \in NativeConns, c \notin Native!Counted, Native!Counted' = Native!Counted \cup {c},
             clients' = [clients EXCEPT ![NativeKinds[c]][NativeSources[c]] = @ + 1],
             UNCHANGED <<Native!Holding, slots>>
      PROVE  NativeSlotsInv'
  <2> DEFINE kc == NativeKinds[c]
             sc == NativeSources[c]
  <2>1. \A k, s : NativeOfSource(k, s)' =
          IF k = kc /\ s = sc THEN NativeOfSource(k, s) \cup {c} ELSE NativeOfSource(k, s)
    BY <1>2, <1>9
  <2>2. c \notin NativeOfSource(kc, sc) /\ IsFiniteSet(NativeOfSource(kc, sc))
    BY <1>2, <1>9, FiniteParts
  <2>3. Cardinality(NativeOfSource(kc, sc) \cup {c}) = Cardinality(NativeOfSource(kc, sc)) + 1
    BY <2>2, CountUp
  <2>4. clients' = [k \in Native!Kinds |-> [s \in Native!Sources |-> Cardinality(NativeOfSource(k, s)')]]
    BY <1>1, <1>3, <1>9, <2>1, <2>3
  <2> QED BY <1>3, <1>6, <1>9, <2>4 DEF NativeSlotsInv
<1>10. ASSUME NEW c \in NativeConns, c \in Native!Counted, Native!Counted' = Native!Counted \ {c},
              clients' = [clients EXCEPT ![NativeKinds[c]][NativeSources[c]] = @ - 1],
              UNCHANGED <<Native!Holding, slots>>
       PROVE  NativeSlotsInv'
  <2> DEFINE kc == NativeKinds[c]
             sc == NativeSources[c]
  <2>1. \A k, s : NativeOfSource(k, s)' =
          IF k = kc /\ s = sc THEN NativeOfSource(k, s) \ {c} ELSE NativeOfSource(k, s)
    BY <1>2, <1>10
  <2>2. c \in NativeOfSource(kc, sc) /\ IsFiniteSet(NativeOfSource(kc, sc))
    BY <1>2, <1>10, FiniteParts
  <2>3. Cardinality(NativeOfSource(kc, sc) \ {c}) = Cardinality(NativeOfSource(kc, sc)) - 1
    BY <2>2, CountDown
  <2>4. clients' = [k \in Native!Kinds |-> [s \in Native!Sources |-> Cardinality(NativeOfSource(k, s)')]]
    BY <1>1, <1>3, <1>10, <2>1, <2>3
  <2> QED BY <1>3, <1>6, <1>10, <2>4 DEF NativeSlotsInv
<1> QED BY <1>4, <1>7, <1>8, <1>9, <1>10, PoolStep
-----------------------------------------------------------------------------
(* The streams. *)

StreamsRest ==
  /\ UNCHANGED <<stream, upstream, streamSem, coreSem>>
  /\ \A c \in NativeConns : conn[c].pc = "serving" => conn'[c].pc = "serving"

\* Every step: streams rest, a stream takes a step of its own, or streams and
\* their connection's goroutine step together.
LEMMA StreamClass ==
  ASSUME NativeAssumption, NativeTypeInv, StreamInv, Native!Next
  PROVE  \/ StreamsRest
         \/ \E x \in NativeStreams :
              \/ Native!AcceptStream(x) \/ Native!HeldStream(x) \/ Native!Request(x) \/ Native!RelayEnds(x)
              \/ \E c \in NativeConns : Native!BeginTLS(c, x)
         \/ \E c \in NativeConns : Native!AcceptStreamFails(c)
<1>1. ASSUME NEW c \in NativeConns, NEW k \in Native!Kinds, Native!Accept(k, c)
      PROVE  StreamsRest
  <2>1. Shift(c, "new", "held")
    BY <1>1, NativeAdmissionStep DEF Accepts
  <2>2. UNCHANGED <<stream, upstream, streamSem, coreSem>>
    BY <1>1 DEF Native!Accept, Native!streamVars
  <2> QED BY <2>1, <2>2 DEF Shift, StreamsRest
<1>2. ASSUME NEW c \in NativeConns, NEW k \in Native!Kinds,
             \/ Native!RefuseClosing(k, c) \/ Native!RefuseFull(k, c) \/ Native!TakeSlot(k, c)
             \/ Native!RefuseSource(k, c) \/ Native!Admit(k, c)
      PROVE  StreamsRest
  <2>1. UNCHANGED <<stream, upstream, streamSem, coreSem>>
    BY <1>2 DEF Native!RefuseClosing, Native!RefuseFull, Native!TakeSlot, Native!RefuseSource,
         Native!Admit, Native!streamVars
  <2>2. \E p : Shift(c, "held", p) \/ Shift(c, "slotted", p)
    BY <1>2, NativeAdmissionStep DEF Drops
  <2> QED BY <2>1, <2>2 DEF Shift, StreamsRest
<1>3. ASSUME NEW c \in NativeConns, Native!PeerCloses(c) \/ Native!Timer(c)
      PROVE  StreamsRest
  <2>1. PcsKept
    BY <1>3, ConnectionStep DEF Native!Timer, Remains
  <2>2. UNCHANGED <<stream, upstream, streamSem, coreSem>>
    BY <1>3 DEF Native!Timer, Native!PeerCloses, Native!TimerFires, Native!TimerCloses,
         Native!streamVars
  <2> QED BY <2>1, <2>2 DEF PcsKept, StreamsRest
<1>4. ASSUME NEW c \in NativeConns,
             Native!BeginQUIC(c) \/ Native!BeginFails(c) \/ Native!Unregister(c) \/ Native!ConnDone(c)
      PROVE  StreamsRest
  <2>1. UNCHANGED <<stream, upstream, streamSem, coreSem>>
    BY <1>4 DEF Native!BeginQUIC, Native!BeginFails, Native!Unregister, Native!ConnDone,
         Native!streamVars
  <2>2. \E p : Shift(c, "admitted", p) \/ Shift(c, "leaving", p) \/ Shift(c, "unregistered", p)
    BY <1>4, ConnectionStep
  <2> QED BY <2>1, <2>2 DEF Shift, StreamsRest
<1>5. ASSUME NEW k \in Native!Kinds,
             \/ Native!Canceled(k) \/ Native!AcceptEnds(k) \/ Native!ServeReturns(k)
                  \/ Native!CloseBegins(k)
             \/ Native!CloseConns(k) \/ Native!CloseReturns(k)
      PROVE  StreamsRest
  <2>1. UNCHANGED <<stream, upstream, streamSem, coreSem>>
    BY <1>5 DEF Native!Canceled, Native!AcceptEnds, Native!ServeReturns, Native!CloseBegins,
         Native!CloseConns, Native!CloseReturns,
                Native!streamVars
  <2>2. PcsKept
    BY <1>5, ServeStep DEF Inward, Remains
  <2> QED BY <2>1, <2>2 DEF PcsKept, StreamsRest
<1> QED BY <1>1, <1>2, <1>3, <1>4, <1>5 DEF Native!Next, Native!Admission, Native!Closing,
             Native!Connection

\* A connection's goroutine leaves: streams nobody accepted are over.
LEMMA LeaveStreams ==
  ASSUME NativeAssumption, NativeTypeInv
  PROVE  /\ \A c \in NativeConns : Native!AcceptStreamFails(c) =>
              /\ StreamTyped /\ UNCHANGED <<upstream, streamSem, coreSem>>
              /\ \A y \in NativeStreams :
                   stream'[y] = IF NativeOwners[y] = c /\ stream[y] = "idle" THEN "done" ELSE stream[y]
         /\ \A x \in NativeStreams : Native!RefuseStreamClosing(x) =>
              /\ StreamTyped /\ UNCHANGED <<upstream, streamSem, coreSem>>
              /\ stream[x] = "held"
              /\ \A y \in NativeStreams :
                   stream'[y] = IF y = x \/ (NativeOwners[y] = NativeOwners[x] /\ stream[y] = "idle")
                                THEN "done" ELSE stream[y]
         /\ \A c \in NativeConns, x \in NativeStreams : Native!BeginTLS(c, x) =>
              /\ StreamTyped /\ StreamShift(x, {"idle"}, "reading")
              /\ UNCHANGED <<upstream, streamSem, coreSem>>
<1>1. \A c \in NativeConns : Native!AcceptStreamFails(c) =>
        /\ StreamTyped /\ UNCHANGED <<upstream, streamSem, coreSem>>
        /\ \A y \in NativeStreams :
             stream'[y] = IF NativeOwners[y] = c /\ stream[y] = "idle" THEN "done" ELSE stream[y]
  BY DEF Native!AcceptStreamFails, Native!On, StreamTyped, NativeTypeInv, StreamPcs
<1>2. \A x \in NativeStreams : Native!RefuseStreamClosing(x) =>
        /\ StreamTyped /\ UNCHANGED <<upstream, streamSem, coreSem>>
        /\ stream[x] = "held"
        /\ \A y \in NativeStreams :
             stream'[y] = IF y = x \/ (NativeOwners[y] = NativeOwners[x] /\ stream[y] = "idle")
                          THEN "done" ELSE stream[y]
  BY DEF Native!RefuseStreamClosing, Native!On, StreamTyped, NativeTypeInv, StreamPcs
<1>3. \A c \in NativeConns, x \in NativeStreams : Native!BeginTLS(c, x) =>
        /\ StreamTyped /\ StreamShift(x, {"idle"}, "reading")
        /\ UNCHANGED <<upstream, streamSem, coreSem>>
  BY DEF Native!BeginTLS, Native!On, StreamTyped, NativeTypeInv, StreamPcs, StreamShift
<1> QED BY <1>1, <1>2, <1>3

\* Streams that their connection's goroutine accepts or, for TLS, is.
Live(x) == Pending(x) \/ OfTLS(x)

\* Type correctness of the streams.
LEMMA StreamTypes ==
  ASSUME NativeAssumption, NativeTypeInv, StreamInv, Native!Next
  PROVE  StreamTyped /\ upstream' \in [NativeStreams -> {"none", "open", "closed"}]
<1>1. StreamTyped
  <2>1. CASE StreamsRest
    BY <2>1 DEF StreamsRest, StreamTyped, NativeTypeInv
  <2>2. ASSUME NEW x \in NativeStreams,
               Native!AcceptStream(x) \/ Native!HeldStream(x) \/ Native!Request(x) \/ Native!RelayEnds(x)
        PROVE  StreamTyped
    <3>1. CASE Native!AcceptStream(x) \/ Native!HeldStream(x)
      BY <3>1, RequestStep, LeaveStreams DEF Native!HeldStream
    <3>2. CASE Native!Request(x) \/ Native!RelayEnds(x)
      BY <3>2, RequestStep, JointStep DEF Native!Request
    <3> QED BY <2>2, <3>1, <3>2
  <2> QED BY <2>1, <2>2, LeaveStreams, StreamClass
<1>2. ASSUME NEW x \in NativeStreams,
             Native!AcceptStream(x) \/ Native!HeldStream(x) \/ Native!Request(x) \/ Native!RelayEnds(x)
      PROVE  upstream' \in [NativeStreams -> {"none", "open", "closed"}]
  BY <1>2 DEF Native!AcceptStream, Native!HeldStream, Native!RefuseStreamClosing,
       Native!RefuseStreamBusy, Native!AdmitStream,
       Native!Request, Native!BadRequest, Native!Authenticated, Native!DialSucceeds, Native!OwnerCloses, Native!FinishQUIC,
       Native!FinishTLS, Native!RequestEnds, Native!HandlesUDP, Native!RelayEnds, NativeTypeInv
<1>3. CASE StreamsRest
  BY <1>1, <1>3 DEF StreamsRest, NativeTypeInv
<1>4. ASSUME \/ \E c \in NativeConns : Native!AcceptStreamFails(c)
             \/ \E x \in NativeStreams, c \in NativeConns : Native!BeginTLS(c, x)
      PROVE  upstream' = upstream
  BY <1>4, LeaveStreams
<1> QED BY <1>1, <1>2, <1>3, <1>4, StreamClass DEF NativeTypeInv

\* Type correctness, preserved.
LEMMA TypeKept ==
  ASSUME NativeAssumption, NativeTypeInv, StreamInv, HeldInv, Native!Next
  PROVE  NativeTypeInv'
<1>1. held' \in [Native!Kinds -> NativeConns \cup {None}]
  <2>1. ASSUME NEW k \in Native!Kinds, NEW c \in NativeConns,
               Native!TakeSlot(k, c) \/ Native!RefuseSource(k, c) \/ Native!Admit(k, c)
        PROVE  held' \in [Native!Kinds -> NativeConns \cup {None}]
    BY <2>1 DEF Native!TakeSlot, Native!RefuseSource, Native!Admit, Native!Drop,
         Native!serverVars, NativeTypeInv
  <2>2. ASSUME NEW c \in NativeConns, Native!Unregister(c) \/ Native!ConnDone(c)
        PROVE  held' = held
    BY <2>2 DEF Native!Unregister, Native!ConnDone, Native!serverVars
  <2>3. ASSUME NEW k \in Native!Kinds,
               Native!CloseBegins(k) \/ Native!CloseConns(k) \/ Native!CloseReturns(k)
        PROVE  held' = held
    BY <2>3, ServeStep DEF Remains
  <2> QED BY <2>1, <2>2, <2>3, ConnClass DEF Remains, Serves, Accepts, Drops, NativeTypeInv
<1>2. /\ closing' \in [Native!Kinds -> BOOLEAN]
      /\ closer' \in [Native!Kinds -> {"idle", "closing", "waiting", "done"}]
  <2>1. ASSUME NEW k \in Native!Kinds, NEW c \in NativeConns,
               Native!TakeSlot(k, c) \/ Native!RefuseSource(k, c) \/ Native!Admit(k, c)
        PROVE  UNCHANGED <<closing, closer>>
    BY <2>1 DEF Native!TakeSlot, Native!RefuseSource, Native!Admit, Native!serverVars
  <2>2. ASSUME NEW c \in NativeConns, Native!Unregister(c) \/ Native!ConnDone(c)
        PROVE  UNCHANGED <<closing, closer>>
    BY <2>2 DEF Native!Unregister, Native!ConnDone, Native!serverVars
  <2>3. ASSUME NEW k \in Native!Kinds,
               Native!CloseBegins(k) \/ Native!CloseConns(k) \/ Native!CloseReturns(k)
        PROVE  /\ closing' \in [Native!Kinds -> BOOLEAN]
               /\ closer' \in [Native!Kinds -> {"idle", "closing", "waiting", "done"}]
    BY <2>3 DEF Native!CloseBegins, Native!CloseConns, Native!CloseReturns, NativeTypeInv
  <2> QED BY <2>1, <2>2, <2>3, ConnClass DEF Serves, Accepts, Drops, NativeTypeInv
<1> QED BY <1>1, <1>2, ConnClass, StreamTypes, PoolStep DEF NativeTypeInv, ConnTyped, StreamTyped

\* A stream's own step: only that stream moves, its connection goes on serving,
\* and it enters the life its connection answers for only from "idle".
LEMMA OwnStepKeeps ==
  ASSUME NativeAssumption, NativeTypeInv, StreamInv, NEW x \in NativeStreams, PcsKept,
         NEW to \in StreamPcs \ {"relaying"},
         StreamShift(x, {"held", "reading", "opening", "association", "relaying", "finishing"}, to),
         to # "held",
         stream[x] = "held" /\ to # "done" => Native!KindOfStream(x) = "quic",
         \A y \in NativeStreams : y # x /\ upstream'[y] = "open" => upstream[y] = "open",
         upstream'[x] = "open" => upstream[x] = "open" /\ stream[x] # "relaying"
  PROVE  StreamInv'
<1>1. /\ stream[x] # "idle" /\ stream[x] # "done"
      /\ \A y \in NativeStreams : stream'[y] = IF y = x THEN to ELSE stream[y]
  BY DEF StreamShift
<1>2. \A y \in NativeStreams : /\ Pending(y)' => Pending(y)
                               /\ OfTLS(y)' => OfTLS(y)
                               /\ upstream'[y] = "open" => upstream[y] = "open"
  BY <1>1 DEF Pending, OfTLS, Native!Working
<1>3. upstream'[x] # "open"
  BY DEF StreamInv
<1>4. \A y \in NativeStreams : Pending(y)' => Native!KindOfStream(y) = "quic"
  BY <1>2 DEF StreamInv
<1>5. \A y \in NativeStreams : Live(y)' => Live(y)
  BY <1>2 DEF Live
<1>6. \A y \in NativeStreams : Live(y)' => conn'[NativeOwners[y]].pc = "serving"
  BY <1>5 DEF StreamInv, Live, PcsKept, NativeAssumption
<1>7. \A y, z \in NativeStreams : Live(y)' /\ Live(z)' /\ NativeOwners[y] = NativeOwners[z] => y = z
  BY <1>5 DEF StreamInv, Live
<1>8. \A y \in NativeStreams : upstream'[y] = "open" => stream'[y] = "relaying"
  BY <1>1, <1>2, <1>3 DEF StreamInv
<1> QED BY <1>4, <1>6, <1>7, <1>8 DEF StreamInv, Live

\* A stream that is accepted and not yet admitted, or is the one of a TLS
\* connection, finds its connection serving, and is alone there.
LEMMA StreamInvKept ==
  ASSUME NativeAssumption, NativeTypeInv, StreamInv, Native!Next
  PROVE  StreamInv'
<1>1. CASE StreamsRest
  BY <1>1 DEF StreamsRest, StreamInv, Pending, OfTLS, Native!Working, NativeAssumption
<1>2. ASSUME NEW x \in NativeStreams, Native!AcceptStream(x)
      PROVE  StreamInv'
  <2>1. /\ PcsKept /\ \A y \in NativeStreams : stream'[y] = IF y = x THEN "held" ELSE stream[y]
        /\ stream[x] = "idle"
    BY <1>2, RequestStep DEF Inward, StreamShift
  <2>2. /\ Native!KindOfStream(x) = "quic" /\ conn[NativeOwners[x]].pc = "serving"
        /\ \A y \in NativeStreams : NativeOwners[y] = NativeOwners[x] => ~Pending(y)
        /\ upstream' = upstream
    BY <1>2 DEF Native!AcceptStream, Native!Accepting, Native!On, Pending
  <2>3. \A y \in NativeStreams : NativeOwners[y] = NativeOwners[x] => ~OfTLS(y)
    BY <2>2 DEF OfTLS, Native!KindOfStream
  <2>4. \A y \in NativeStreams : /\ Pending(y)' <=> Pending(y) \/ y = x
                                 /\ OfTLS(y)' <=> OfTLS(y)
    BY <2>1 DEF Pending, OfTLS, Native!Working
  <2>5. \A y \in NativeStreams : Pending(y)' => Native!KindOfStream(y) = "quic"
    BY <2>2, <2>4 DEF StreamInv
  <2>6. \A y \in NativeStreams : Live(y)' <=> Live(y) \/ y = x
    BY <2>4 DEF Live
  <2>7. \A y \in NativeStreams : Live(y)' => conn'[NativeOwners[y]].pc = "serving"
    BY <2>1, <2>2, <2>6 DEF StreamInv, Live, PcsKept, NativeAssumption
  <2>8. \A y, z \in NativeStreams : Live(y)' /\ Live(z)' /\ NativeOwners[y] = NativeOwners[z] => y = z
    BY <2>2, <2>3, <2>6 DEF StreamInv, Live
  <2>9. \A y \in NativeStreams : upstream'[y] = "open" => stream'[y] = "relaying"
    BY <2>1, <2>2 DEF StreamInv
  <2> QED BY <2>5, <2>7, <2>8, <2>9 DEF StreamInv, Live
<1>3. ASSUME NEW x \in NativeStreams, Native!RefuseStreamBusy(x)
      PROVE  StreamInv'
  <2>1. PcsKept /\ StreamShift(x, {"held"}, "done") /\ upstream' = upstream
    BY <1>3, RequestStep DEF Inward, Native!RefuseStreamBusy
  <2> QED BY <2>1, OwnStepKeeps DEF StreamShift, StreamInv, StreamPcs
<1>4. ASSUME NEW x \in NativeStreams, Native!AdmitStream(x)
      PROVE  StreamInv'
  <2>1. PcsKept /\ StreamShift(x, {"held"}, "reading") /\ upstream' = upstream
    BY <1>4, RequestStep DEF Remains, Native!AdmitStream
  <2>2. Native!KindOfStream(x) = "quic"
    BY <2>1 DEF StreamShift, StreamInv, Pending
  <2> QED BY <2>1, <2>2, OwnStepKeeps DEF StreamShift, StreamInv, StreamPcs
<1>5. ASSUME NEW x \in NativeStreams,
             \/ Native!BadRequest(x) \/ Native!Authenticated(x) \/ Native!HandlesUDP(x)
                  \/ Native!FinishQUIC(x)
      PROVE  StreamInv'
  <2>1. PcsKept
    BY <1>5, RequestStep DEF Inward, Remains
  <2>2. \/ StreamShift(x, {"reading"}, "finishing") \/ StreamShift(x, {"reading"}, "opening")
        \/ StreamShift(x, {"opening"}, "association") \/ StreamShift(x, {"finishing"}, "done")
    BY <1>5, RequestStep
  <2>3. upstream' = upstream
    BY <1>5 DEF Native!BadRequest, Native!Authenticated, Native!HandlesUDP, Native!FinishQUIC
  <2> QED BY <2>1, <2>2, <2>3, OwnStepKeeps DEF StreamShift, StreamInv, StreamPcs
<1>6. ASSUME NEW x \in NativeStreams, Native!RequestEnds(x)
      PROVE  StreamInv'
  <2>1. /\ PcsKept /\ StreamShift(x, {"opening", "association"}, "finishing")
        /\ upstream' = upstream
    BY <1>6, RequestStep DEF Inward, Native!RequestEnds
  <2> QED BY <2>1, OwnStepKeeps DEF StreamShift, StreamInv, StreamPcs
<1>7. ASSUME NEW x \in NativeStreams, Native!RelayEnds(x)
      PROVE  StreamInv'
  <2>1. /\ PcsKept /\ StreamShift(x, {"relaying"}, "finishing")
        /\ upstream' = [upstream EXCEPT ![x] = "none"]
    BY <1>7, RequestStep DEF Inward, Native!RelayEnds
  <2>2. \A y \in NativeStreams : upstream'[y] = IF y = x THEN "none" ELSE upstream[y]
    BY <2>1 DEF NativeTypeInv
  <2> QED BY <2>1, <2>2, OwnStepKeeps DEF StreamShift, StreamInv, StreamPcs
<1>8. ASSUME NEW x \in NativeStreams, Native!DialSucceeds(x)
      PROVE  StreamInv'
  <2>1. /\ PcsKept /\ stream[x] = "opening"
        /\ \A y \in NativeStreams : stream'[y] = IF y = x THEN "relaying" ELSE stream[y]
    BY <1>8, RequestStep DEF Inward, StreamShift
  <2>2. \A y \in NativeStreams : upstream'[y] = IF y = x THEN "open" ELSE upstream[y]
    BY <1>8 DEF Native!DialSucceeds, NativeTypeInv
  <2>3. \A y \in NativeStreams : /\ Pending(y)' <=> Pending(y)
                                 /\ OfTLS(y)' <=> OfTLS(y)
    BY <2>1 DEF Pending, OfTLS, Native!Working
  <2> QED BY <2>1, <2>2, <2>3 DEF StreamInv, PcsKept, NativeAssumption
<1>9. ASSUME NEW x \in NativeStreams, Native!OwnerCloses(x)
      PROVE  StreamInv'
  <2>1. PcsKept /\ UNCHANGED stream
    BY <1>9, RequestStep DEF Inward
  <2>2. \A y \in NativeStreams : upstream'[y] = IF y = x THEN "closed" ELSE upstream[y]
    BY <1>9 DEF Native!OwnerCloses, NativeTypeInv
  <2>3. \A y \in NativeStreams : /\ Pending(y)' <=> Pending(y)
                                 /\ OfTLS(y)' <=> OfTLS(y)
    BY <2>1 DEF Pending, OfTLS, Native!Working
  <2> QED BY <2>1, <2>2, <2>3 DEF StreamInv, PcsKept, NativeAssumption
<1>10. ASSUME NEW c \in NativeConns, NEW x \in NativeStreams, Native!BeginTLS(c, x)
       PROVE  StreamInv'
  <2>1. /\ conn[c].pc = "admitted" /\ stream[x] = "idle" /\ upstream' = upstream
        /\ \A d \in NativeConns : conn'[d].pc = IF d = c THEN "serving" ELSE conn[d].pc
        /\ \A y \in NativeStreams : stream'[y] = IF y = x THEN "reading" ELSE stream[y]
    BY <1>10, ConnectionStep, LeaveStreams DEF Shift, StreamShift
  <2>2. Native!KindOfStream(x) = "tls" /\ NativeOwners[x] = c
    BY <1>10 DEF Native!BeginTLS, Native!On, Native!KindOfStream
  <2>3. \A y \in NativeStreams : NativeOwners[y] = c => ~Pending(y) /\ ~OfTLS(y)
    BY <2>1 DEF StreamInv
  <2>4. \A y \in NativeStreams : /\ Pending(y)' <=> Pending(y)
                                 /\ OfTLS(y)' <=> OfTLS(y) \/ y = x
    BY <2>1, <2>2 DEF Pending, OfTLS, Native!Working
  <2> QED BY <2>1, <2>2, <2>3, <2>4 DEF StreamInv, NativeAssumption
<1>11. ASSUME NEW c \in NativeConns, UNCHANGED upstream,
              \A d \in NativeConns : conn'[d].pc = IF d = c THEN "leaving" ELSE conn[d].pc,
              \A y \in NativeStreams : /\ NativeOwners[y] = c => ~Pending(y)' /\ ~OfTLS(y)'
                                       /\ Pending(y)' => Pending(y)
                                       /\ OfTLS(y)' => OfTLS(y)
                                       /\ stream[y] = "relaying" => stream'[y] = "relaying"
       PROVE  StreamInv'
  BY <1>11 DEF StreamInv, NativeAssumption
<1>12. ASSUME NEW c \in NativeConns, Native!AcceptStreamFails(c)
       PROVE  StreamInv'
  <2>1. /\ UNCHANGED upstream
        /\ \A d \in NativeConns : conn'[d].pc = IF d = c THEN "leaving" ELSE conn[d].pc
        /\ \A y \in NativeStreams :
             stream'[y] = IF NativeOwners[y] = c /\ stream[y] = "idle" THEN "done" ELSE stream[y]
    BY <1>12, ConnectionStep, LeaveStreams DEF Shift
  <2>2. \A y \in NativeStreams : NativeOwners[y] = c => Native!KindOfStream(y) = "quic"
          /\ stream[y] # "held"
    BY <1>12 DEF Native!AcceptStreamFails, Native!Accepting, Native!On, Native!KindOfStream
  <2>3. \A y \in NativeStreams : /\ NativeOwners[y] = c => ~Pending(y)' /\ ~OfTLS(y)'
                                 /\ Pending(y)' => Pending(y)
                                 /\ OfTLS(y)' => OfTLS(y)
                                 /\ stream[y] = "relaying" => stream'[y] = "relaying"
    BY <2>1, <2>2 DEF Pending, OfTLS, Native!Working
  <2> QED BY <1>11, <2>1, <2>3
<1>13. ASSUME NEW x \in NativeStreams, Native!RefuseStreamClosing(x) \/ Native!FinishTLS(x)
       PROVE  StreamInv'
  <2> DEFINE c == NativeOwners[x]
  <2>1. /\ c \in NativeConns /\ UNCHANGED upstream
        /\ \A d \in NativeConns : conn'[d].pc = IF d = c THEN "leaving" ELSE conn[d].pc
    <3>1. Shift(c, "serving", "leaving")
      BY <1>13, JointStep
    <3> QED BY <1>13, <3>1 DEF Shift, NativeAssumption, Native!RefuseStreamClosing, Native!FinishTLS
  <2>2. /\ Live(x) /\ stream[x] # "relaying"
        /\ \A y \in NativeStreams :
             \/ y = x /\ stream'[y] = "done"
             \/ y # x /\ (stream'[y] = stream[y] \/ (stream[y] = "idle" /\ stream'[y] = "done"))
    <3>1. CASE Native!RefuseStreamClosing(x)
      <4>1. /\ stream[x] = "held"
            /\ \A y \in NativeStreams :
                 stream'[y] = IF y = x \/ (NativeOwners[y] = NativeOwners[x] /\ stream[y] = "idle")
                              THEN "done" ELSE stream[y]
        BY <3>1, LeaveStreams
      <4> QED BY <4>1 DEF Live, Pending
    <3>2. CASE Native!FinishTLS(x)
      <4>1. /\ stream[x] = "finishing" /\ Native!KindOfStream(x) = "tls"
            /\ StreamShift(x, {"finishing"}, "done")
        BY <3>2, JointStep DEF Native!FinishTLS
      <4> QED BY <4>1 DEF StreamShift, Live, OfTLS, Native!Working
    <3> QED BY <1>13, <3>1, <3>2
  <2>3. \A y \in NativeStreams : NativeOwners[y] = c /\ (Pending(y) \/ OfTLS(y)) => y = x
    BY <2>2 DEF StreamInv, Live
  <2>4. \A y \in NativeStreams : /\ Pending(y)' => Pending(y) /\ y # x
                                 /\ OfTLS(y)' => OfTLS(y) /\ y # x
    BY <2>2 DEF Pending, OfTLS, Native!Working
  <2>5. \A y \in NativeStreams : stream[y] = "relaying" => stream'[y] = "relaying"
    BY <2>2
  <2> HIDE DEF c
  <2> QED BY <1>11, <2>1, <2>3, <2>4, <2>5
<1> QED BY <1>1, <1>2, <1>3, <1>4, <1>5, <1>6, <1>7, <1>8, <1>9, <1>10, <1>12, <1>13,
           StreamClass DEF Native!HeldStream, Native!Request
-----------------------------------------------------------------------------
(* The stream slots of the QUIC server and of the core. *)

\* How a step changes the streams that hold a token of streamSem or core.sem.
LEMMA StreamStep ==
  ASSUME NativeAssumption, NativeTypeInv, StreamInv, Native!Next
  PROVE  \/ UNCHANGED <<QUICStreams, Native!Carried, streamSem, coreSem>>
         \/ \E x \in NativeStreams :
              /\ Native!AdmitStream(x) /\ x \notin QUICStreams /\ QUICStreams' = QUICStreams \cup {x}
              /\ streamSem' = streamSem + 1 /\ UNCHANGED <<Native!Carried, coreSem>>
         \/ \E x \in QUICStreams :
              /\ Native!FinishQUIC(x) /\ QUICStreams' = QUICStreams \ {x}
              /\ streamSem' = streamSem - 1 /\ UNCHANGED <<Native!Carried, coreSem>>
         \/ \E x \in NativeStreams :
              /\ x \notin Native!Carried /\ Native!Carried' = Native!Carried \cup {x} /\ coreSem < budget
              /\ coreSem' = coreSem + 1 /\ UNCHANGED <<QUICStreams, streamSem>>
         \/ \E x \in Native!Carried :
              /\ Native!Carried' = Native!Carried \ {x}
              /\ coreSem' = coreSem - 1 /\ UNCHANGED <<QUICStreams, streamSem>>
<1> USE DEF QUICStreams, Native!Carried, Native!Working, Native!KindOfStream
<1>1. CASE StreamsRest
  BY <1>1 DEF StreamsRest
<1>2. ASSUME NEW x \in NativeStreams, Native!AcceptStream(x) \/ Native!RefuseStreamBusy(x)
      PROVE  UNCHANGED <<QUICStreams, Native!Carried, streamSem, coreSem>>
  <2>1. StreamShift(x, {"idle"}, "held") \/ StreamShift(x, {"held"}, "done")
    BY <1>2, RequestStep
  <2>2. UNCHANGED <<QUICStreams, Native!Carried>>
    BY <2>1 DEF StreamShift
  <2> QED BY <1>2, <2>2 DEF Native!AcceptStream, Native!RefuseStreamBusy
<1>3. ASSUME NEW x \in NativeStreams, Native!RefuseStreamClosing(x)
      PROVE  UNCHANGED <<QUICStreams, Native!Carried, streamSem, coreSem>>
  <2>1. /\ stream[x] = "held" /\ UNCHANGED <<streamSem, coreSem>>
        /\ \A y \in NativeStreams :
             stream'[y] = IF y = x \/ (NativeOwners[y] = NativeOwners[x] /\ stream[y] = "idle")
                          THEN "done" ELSE stream[y]
    BY <1>3, LeaveStreams
  <2>2. UNCHANGED <<QUICStreams, Native!Carried>>
    BY <2>1
  <2> QED BY <2>1, <2>2
<1>4. ASSUME NEW x \in NativeStreams, Native!AdmitStream(x)
      PROVE  /\ x \notin QUICStreams /\ QUICStreams' = QUICStreams \cup {x}
             /\ streamSem' = streamSem + 1 /\ UNCHANGED <<Native!Carried, coreSem>>
  <2>1. StreamShift(x, {"held"}, "reading")
    BY <1>4, RequestStep
  <2>2. NativeKinds[NativeOwners[x]] = "quic"
    BY <2>1 DEF StreamShift, StreamInv, Pending
  <2>3. x \notin QUICStreams /\ QUICStreams' = QUICStreams \cup {x} /\ UNCHANGED Native!Carried
    BY <2>1, <2>2 DEF StreamShift
  <2> QED BY <1>4, <2>3 DEF Native!AdmitStream
<1>5. ASSUME NEW x \in NativeStreams, Native!BadRequest(x) \/ Native!HandlesUDP(x) \/ Native!DialSucceeds(x)
      PROVE  UNCHANGED <<QUICStreams, Native!Carried, streamSem, coreSem>>
  <2>1. \/ StreamShift(x, {"reading"}, "finishing") \/ StreamShift(x, {"opening"}, "association")
        \/ StreamShift(x, {"opening"}, "relaying")
    BY <1>5, RequestStep
  <2>2. UNCHANGED <<QUICStreams, Native!Carried>>
    BY <2>1 DEF StreamShift
  <2> QED BY <1>5, <2>2 DEF Native!BadRequest, Native!HandlesUDP, Native!DialSucceeds
<1>6. ASSUME NEW x \in NativeStreams, Native!OwnerCloses(x)
      PROVE  UNCHANGED <<QUICStreams, Native!Carried, streamSem, coreSem>>
  BY <1>6 DEF Native!OwnerCloses
<1>7. ASSUME NEW x \in NativeStreams, Native!Authenticated(x)
      PROVE  \/ UNCHANGED <<QUICStreams, Native!Carried, streamSem, coreSem>>
             \/ /\ x \notin Native!Carried /\ Native!Carried' = Native!Carried \cup {x} /\ coreSem < budget
                /\ coreSem' = coreSem + 1 /\ UNCHANGED <<QUICStreams, streamSem>>
  <2>1. CASE coreSem < budget /\ coreSem' = coreSem + 1 /\ Native!To(x, "opening")
    <3>1. StreamShift(x, {"reading"}, "opening")
      BY <1>7, <2>1, ToShifts DEF Native!Authenticated, StreamPcs
    <3>2. x \notin Native!Carried /\ Native!Carried' = Native!Carried \cup {x} /\ UNCHANGED QUICStreams
      BY <3>1 DEF StreamShift
    <3> QED BY <1>7, <2>1, <3>2 DEF Native!Authenticated
  <2>2. CASE UNCHANGED coreSem /\ Native!To(x, "finishing")
    <3>1. StreamShift(x, {"reading"}, "finishing")
      BY <1>7, <2>2, ToShifts DEF Native!Authenticated, StreamPcs
    <3>2. UNCHANGED <<QUICStreams, Native!Carried>>
      BY <3>1 DEF StreamShift
    <3> QED BY <1>7, <2>2, <3>2 DEF Native!Authenticated
  <2> QED BY <1>7, <2>1, <2>2 DEF Native!Authenticated
<1>8. ASSUME NEW x \in NativeStreams, Native!RequestEnds(x) \/ Native!RelayEnds(x)
      PROVE  /\ x \in Native!Carried /\ Native!Carried' = Native!Carried \ {x}
             /\ coreSem' = coreSem - 1 /\ UNCHANGED <<QUICStreams, streamSem>>
  <2>1. \/ StreamShift(x, {"opening", "association"}, "finishing")
        \/ StreamShift(x, {"relaying"}, "finishing")
    BY <1>8, RequestStep
  <2>2. x \in Native!Carried /\ Native!Carried' = Native!Carried \ {x} /\ UNCHANGED QUICStreams
    BY <2>1 DEF StreamShift
  <2> QED BY <1>8, <2>2 DEF Native!RequestEnds, Native!RelayEnds
<1>9. ASSUME NEW x \in NativeStreams, Native!FinishQUIC(x)
      PROVE  /\ x \in QUICStreams /\ QUICStreams' = QUICStreams \ {x}
             /\ streamSem' = streamSem - 1 /\ UNCHANGED <<Native!Carried, coreSem>>
  <2>1. StreamShift(x, {"finishing"}, "done") /\ NativeKinds[NativeOwners[x]] = "quic"
    BY <1>9, RequestStep DEF Native!FinishQUIC
  <2>2. x \in QUICStreams /\ QUICStreams' = QUICStreams \ {x} /\ UNCHANGED Native!Carried
    BY <2>1 DEF StreamShift
  <2> QED BY <1>9, <2>2 DEF Native!FinishQUIC
<1>10. ASSUME NEW x \in NativeStreams, Native!FinishTLS(x)
       PROVE  UNCHANGED <<QUICStreams, Native!Carried, streamSem, coreSem>>
  <2>1. StreamShift(x, {"finishing"}, "done") /\ NativeKinds[NativeOwners[x]] = "tls"
    BY <1>10, JointStep DEF Native!FinishTLS
  <2>2. UNCHANGED <<QUICStreams, Native!Carried>>
    BY <2>1 DEF StreamShift
  <2> QED BY <1>10, <2>2 DEF Native!FinishTLS
<1>11. ASSUME NEW x \in NativeStreams, NEW c \in NativeConns, Native!BeginTLS(c, x)
       PROVE  UNCHANGED <<QUICStreams, Native!Carried, streamSem, coreSem>>
  <2>1. StreamShift(x, {"idle"}, "reading") /\ NativeKinds[NativeOwners[x]] = "tls"
    BY <1>11, LeaveStreams DEF Native!BeginTLS, Native!On
  <2>2. UNCHANGED <<QUICStreams, Native!Carried>>
    BY <2>1 DEF StreamShift
  <2> QED BY <1>11, <2>2 DEF Native!BeginTLS
<1>12. ASSUME NEW c \in NativeConns, Native!AcceptStreamFails(c)
       PROVE  UNCHANGED <<QUICStreams, Native!Carried, streamSem, coreSem>>
  <2>1. /\ UNCHANGED <<streamSem, coreSem>>
        /\ \A y \in NativeStreams :
             stream'[y] = IF NativeOwners[y] = c /\ stream[y] = "idle" THEN "done" ELSE stream[y]
    BY <1>12, LeaveStreams
  <2>2. UNCHANGED <<QUICStreams, Native!Carried>>
    BY <2>1
  <2> QED BY <2>1, <2>2
<1> QED BY <1>1, <1>2, <1>3, <1>4, <1>5, <1>6, <1>7, <1>8, <1>9, <1>10, <1>11, <1>12,
           StreamClass DEF Native!HeldStream, Native!Request

\* streamSem and core.sem count the streams that hold their tokens.
LEMMA StreamsKept ==
  ASSUME NativeAssumption, NativeTypeInv, StreamInv, HeldInv, StreamsInv, Native!Next
  PROVE  StreamsInv'
<1>1. /\ IsFiniteSet(QUICStreams) /\ IsFiniteSet(Native!Carried)
      /\ Cardinality(QUICStreams) \in Nat /\ Cardinality(Native!Carried) \in Nat
  BY FiniteParts, FS_CardinalityType
<1>2. budget' = budget /\ budget \in Nat
  BY PoolStep DEF NativeTypeInv
<1>3. /\ streamSem = Cardinality(QUICStreams)
      /\ coreSem = Cardinality(Native!Carried) /\ coreSem <= budget
  BY DEF StreamsInv
<1>4. CASE UNCHANGED <<QUICStreams, Native!Carried, streamSem, coreSem>>
  BY <1>2, <1>3, <1>4 DEF StreamsInv
<1>5. ASSUME NEW x \in NativeStreams, x \notin QUICStreams, QUICStreams' = QUICStreams \cup {x},
             streamSem' = streamSem + 1, UNCHANGED <<Native!Carried, coreSem>>
      PROVE  StreamsInv'
  <2>1. Cardinality(QUICStreams') = Cardinality(QUICStreams) + 1
    BY <1>1, <1>5, CountUp
  <2> QED BY <1>2, <1>3, <1>5, <2>1 DEF StreamsInv
<1>6. ASSUME NEW x \in QUICStreams, QUICStreams' = QUICStreams \ {x},
             streamSem' = streamSem - 1, UNCHANGED <<Native!Carried, coreSem>>
      PROVE  StreamsInv'
  <2>1. Cardinality(QUICStreams') = Cardinality(QUICStreams) - 1
    BY <1>1, <1>6, CountDown
  <2> QED BY <1>2, <1>3, <1>6, <2>1 DEF StreamsInv
<1>7. ASSUME NEW x \in NativeStreams, x \notin Native!Carried, Native!Carried' = Native!Carried \cup {x},
             coreSem < budget, coreSem' = coreSem + 1, UNCHANGED <<QUICStreams, streamSem>>
      PROVE  StreamsInv'
  <2>1. Cardinality(Native!Carried') = Cardinality(Native!Carried) + 1
    BY <1>1, <1>7, CountUp
  <2> QED BY <1>1, <1>2, <1>3, <1>7, <2>1 DEF StreamsInv
<1>8. ASSUME NEW x \in Native!Carried, Native!Carried' = Native!Carried \ {x},
             coreSem' = coreSem - 1, UNCHANGED <<QUICStreams, streamSem>>
      PROVE  StreamsInv'
  <2>1. Cardinality(Native!Carried') = Cardinality(Native!Carried) - 1
    BY <1>1, <1>8, CountDown
  <2> QED BY <1>1, <1>2, <1>3, <1>8, <2>1 DEF StreamsInv
<1> QED BY <1>4, <1>5, <1>6, <1>7, <1>8, StreamStep
-----------------------------------------------------------------------------
(* The wait groups. *)

\* Steps that neither join nor leave a wait group.
Aside == UNCHANGED <<wg, Native!Running>>
DoneEarlier == \A k \in Native!Kinds : closer'[k] = "done" => closer[k] = "done" \/ wg[k] = 0

\* All steps but Admit, ConnDone, AdmitStream and FinishQUIC leave both wait
\* groups alone, and Close returns only when its group is empty.
LEMMA AsideStep ==
  ASSUME NativeAssumption, NativeTypeInv, StreamInv, Native!Next,
         ~ \E k \in Native!Kinds, c \in NativeConns : Native!Admit(k, c),
         ~ \E c \in NativeConns : Native!ConnDone(c),
         ~ \E x \in NativeStreams : Native!AdmitStream(x) \/ Native!FinishQUIC(x)
  PROVE  Aside /\ DoneEarlier
<1>1. PcsKept => UNCHANGED Native!Running
  BY DEF PcsKept, Native!Running
<1>2. ASSUME NEW c \in NativeConns,
             \/ Shift(c, "new", "held") \/ Shift(c, "held", "gone") \/ Shift(c, "held", "slotted")
             \/ Shift(c, "slotted", "gone") \/ Shift(c, "admitted", "serving")
             \/ Shift(c, "admitted", "leaving") \/ Shift(c, "serving", "leaving")
             \/ Shift(c, "leaving", "unregistered")
      PROVE  UNCHANGED Native!Running
  BY <1>2 DEF Shift, Native!Running
<1>3. ASSUME NEW c \in NativeConns, NEW k \in Native!Kinds,
             \/ Native!Accept(k, c) \/ Native!RefuseClosing(k, c) \/ Native!RefuseFull(k, c)
                  \/ Native!TakeSlot(k, c)
             \/ Native!RefuseSource(k, c)
      PROVE  Aside /\ UNCHANGED closer
  <2>1. UNCHANGED <<wg, closer>>
    BY <1>3 DEF Native!Accept, Native!RefuseClosing, Native!RefuseFull, Native!TakeSlot,
         Native!RefuseSource, Native!serverVars
  <2>2. \/ Shift(c, "new", "held") \/ Shift(c, "held", "gone") \/ Shift(c, "held", "slotted")
        \/ Shift(c, "slotted", "gone")
    BY <1>3, NativeAdmissionStep DEF Accepts, Drops
  <2> QED BY <1>2, <2>1, <2>2 DEF Aside
<1>4. ASSUME NEW c \in NativeConns,
             \/ Native!BeginQUIC(c) \/ Native!BeginFails(c) \/ Native!AcceptStreamFails(c)
                  \/ Native!Unregister(c)
             \/ \E x \in NativeStreams : Native!BeginTLS(c, x)
      PROVE  Aside /\ UNCHANGED closer
  <2>1. UNCHANGED <<wg, closer>>
    BY <1>4 DEF Native!BeginQUIC, Native!BeginFails, Native!AcceptStreamFails, Native!Unregister,
         Native!BeginTLS, Native!serverVars
  <2>2. \/ Shift(c, "admitted", "serving") \/ Shift(c, "admitted", "leaving")
        \/ Shift(c, "serving", "leaving") \/ Shift(c, "leaving", "unregistered")
    BY <1>4, ConnectionStep
  <2> QED BY <1>2, <2>1, <2>2 DEF Aside
<1>5. ASSUME NEW c \in NativeConns, Native!PeerCloses(c) \/ Native!Timer(c)
      PROVE  Aside /\ UNCHANGED closer
  <2>1. PcsKept
    BY <1>5, ConnectionStep DEF Native!Timer, Remains
  <2>2. UNCHANGED <<wg, closer>>
    BY <1>5 DEF Native!Timer, Native!PeerCloses, Native!TimerFires, Native!TimerCloses,
         Native!serverVars
  <2> QED BY <1>1, <2>1, <2>2 DEF Aside
<1>6. ASSUME NEW x \in NativeStreams, Native!RefuseStreamClosing(x) \/ Native!FinishTLS(x)
      PROVE  Aside /\ UNCHANGED closer
  <2>1. UNCHANGED <<wg, closer>>
    BY <1>6 DEF Native!RefuseStreamClosing, Native!FinishTLS, Native!serverVars, Native!streamOnly
  <2>2. NativeOwners[x] \in NativeConns /\ Shift(NativeOwners[x], "serving", "leaving")
    BY <1>6, JointStep DEF NativeAssumption
  <2> QED BY <1>2, <2>1, <2>2 DEF Aside
<1>7. ASSUME NEW x \in NativeStreams,
             \/ Native!AcceptStream(x) \/ Native!RefuseStreamBusy(x) \/ Native!BadRequest(x)
                  \/ Native!Authenticated(x)
             \/ Native!HandlesUDP(x) \/ Native!RequestEnds(x) \/ Native!DialSucceeds(x)
                  \/ Native!OwnerCloses(x)
             \/ Native!RelayEnds(x)
      PROVE  Aside /\ UNCHANGED closer
  <2>1. Inward
    BY <1>7, RequestStep
  <2> QED BY <1>1, <2>1 DEF Inward, Aside
<1>8. ASSUME NEW k \in Native!Kinds, Native!Canceled(k) \/ Native!AcceptEnds(k) \/ Native!ServeReturns(k)
      PROVE  Aside /\ UNCHANGED closer
  <2>1. Inward
    BY <1>8, ServeStep
  <2> QED BY <1>1, <2>1 DEF Inward, Aside
<1>9. ASSUME NEW k \in Native!Kinds, Native!CloseBegins(k)
      PROVE  Aside /\ DoneEarlier
  <2>1. /\ PcsKept /\ UNCHANGED wg
        /\ \A j \in Native!Kinds : closer'[j] = IF j = k THEN "closing" ELSE closer[j]
    BY <1>9, ServeStep DEF Remains
  <2> QED BY <1>1, <2>1 DEF Aside, DoneEarlier
<1>10. ASSUME NEW k \in Native!Kinds, Native!CloseConns(k)
       PROVE  Aside /\ DoneEarlier
  <2>1. /\ PcsKept /\ UNCHANGED wg
        /\ \A j \in Native!Kinds : closer'[j] = IF j = k THEN "waiting" ELSE closer[j]
    BY <1>10, ServeStep DEF Remains
  <2> QED BY <1>1, <2>1 DEF Aside, DoneEarlier
<1>11. ASSUME NEW k \in Native!Kinds, Native!CloseReturns(k)
       PROVE  Aside /\ DoneEarlier
  <2>1. /\ PcsKept /\ UNCHANGED wg /\ wg[k] = 0
        /\ \A j \in Native!Kinds : closer'[j] = IF j = k THEN "done" ELSE closer[j]
    BY <1>11, ServeStep DEF Remains
  <2> QED BY <1>1, <2>1 DEF Aside, DoneEarlier
<1>12. UNCHANGED closer => DoneEarlier
  BY DEF DoneEarlier
<1>13. CASE \E k \in Native!Kinds : Native!Admission(k) \/ Native!Canceled(k) \/ Native!Closing(k)
              \/ Native!CloseBegins(k)
  BY <1>13, <1>3, <1>8, <1>9, <1>10, <1>11, <1>12 DEF Native!Admission, Native!Closing
<1>14. CASE \E x \in NativeStreams : Native!AcceptStream(x) \/ Native!HeldStream(x)
              \/ Native!Request(x) \/ Native!RelayEnds(x)
  BY <1>14, <1>6, <1>7, <1>12 DEF Native!HeldStream, Native!Request
<1>15. CASE \E c \in NativeConns : \/ Native!PeerCloses(c) \/ Native!Connection(c) \/ Native!Timer(c)
                                   \/ \E k \in Native!Kinds : Native!Accept(k, c)
  BY <1>15, <1>3, <1>4, <1>5, <1>12 DEF Native!Connection
<1> QED BY <1>13, <1>14, <1>15 DEF Native!Next

\* The four steps that join or leave one, and all others.
LEMMA GroupStep ==
  ASSUME NativeAssumption, NativeTypeInv, StreamInv, HeldInv, Native!Next
  PROVE  \/ /\ UNCHANGED <<wg, Native!Running, QUICStreams>>
            /\ DoneEarlier
         \/ /\ UNCHANGED <<QUICStreams, closer>>
            /\ \E c \in NativeConns :
                 \/ /\ c \notin Native!Running /\ ~closing[NativeKinds[c]]
                         /\ Native!Running' = Native!Running \cup {c}
                    /\ wg' = [wg EXCEPT ![NativeKinds[c]] = @ + 1]
                 \/ /\ c \in Native!Running /\ Native!Running' = Native!Running \ {c}
                    /\ wg' = [wg EXCEPT ![NativeKinds[c]] = @ - 1]
         \/ /\ UNCHANGED <<Native!Running, closer>>
            /\ \E x \in NativeStreams :
                 \/ /\ x \notin QUICStreams /\ ~closing["quic"]
                    /\ QUICStreams' = QUICStreams \cup {x}
                    /\ wg' = [wg EXCEPT !["quic"] = @ + 1]
                 \/ /\ x \in QUICStreams /\ QUICStreams' = QUICStreams \ {x}
                    /\ wg' = [wg EXCEPT !["quic"] = @ - 1]
<1>1. ASSUME NEW k \in Native!Kinds, NEW c \in NativeConns, Native!Admit(k, c)
      PROVE  /\ UNCHANGED <<QUICStreams, closer>>
             /\ c \notin Native!Running /\ ~closing[NativeKinds[c]]
                  /\ Native!Running' = Native!Running \cup {c}
             /\ wg' = [wg EXCEPT ![NativeKinds[c]] = @ + 1]
  <2>1. Shift(c, "slotted", "admitted")
    BY <1>1, NativeAdmissionStep
  <2>2. NativeKinds[c] = k /\ ~closing[k]
    BY <1>1 DEF Native!Admit, HeldInv, NativeAssumption
  <2>3. UNCHANGED <<stream, closer>> /\ wg' = [wg EXCEPT ![k] = @ + 1]
    BY <1>1 DEF Native!Admit, Native!streamVars
  <2>4. UNCHANGED QUICStreams
    BY <2>3 DEF QUICStreams, Native!Working, Native!KindOfStream
  <2>5. c \notin Native!Running /\ Native!Running' = Native!Running \cup {c}
    BY <2>1 DEF Shift, Native!Running
  <2> QED BY <2>2, <2>3, <2>4, <2>5
<1>2. ASSUME NEW c \in NativeConns, Native!ConnDone(c)
      PROVE  /\ UNCHANGED <<QUICStreams, closer>>
             /\ c \in Native!Running /\ Native!Running' = Native!Running \ {c}
             /\ wg' = [wg EXCEPT ![NativeKinds[c]] = @ - 1]
  <2>1. Shift(c, "unregistered", "gone")
    BY <1>2, ConnectionStep
  <2>2. UNCHANGED <<stream, closer>> /\ wg' = [wg EXCEPT ![NativeKinds[c]] = @ - 1]
    BY <1>2 DEF Native!ConnDone, Native!streamVars, Native!serverVars
  <2>3. UNCHANGED QUICStreams
    BY <2>2 DEF QUICStreams, Native!Working, Native!KindOfStream
  <2>4. c \in Native!Running /\ Native!Running' = Native!Running \ {c}
    BY <2>1 DEF Shift, Native!Running
  <2> QED BY <2>2, <2>3, <2>4
<1>3. ASSUME NEW x \in NativeStreams, Native!AdmitStream(x)
      PROVE  /\ UNCHANGED <<Native!Running, closer>> /\ x \notin QUICStreams /\ ~closing["quic"]
             /\ QUICStreams' = QUICStreams \cup {x} /\ wg' = [wg EXCEPT !["quic"] = @ + 1]
  <2>1. PcsKept /\ StreamShift(x, {"held"}, "reading")
    BY <1>3, RequestStep DEF Remains
  <2>2. /\ UNCHANGED closer /\ ~closing["quic"] /\ Native!KindOfStream(x) = "quic"
        /\ wg' = [wg EXCEPT !["quic"] = @ + 1]
    BY <1>3 DEF Native!AdmitStream, Native!serverVars, StreamInv, Pending
  <2>3. UNCHANGED Native!Running
    BY <2>1 DEF PcsKept, Native!Running
  <2>4. x \notin QUICStreams /\ QUICStreams' = QUICStreams \cup {x}
    BY <2>1, <2>2 DEF StreamShift, QUICStreams, Native!Working, Native!KindOfStream
  <2> QED BY <2>2, <2>3, <2>4
<1>4. ASSUME NEW x \in NativeStreams, Native!FinishQUIC(x)
      PROVE  /\ UNCHANGED <<Native!Running, closer>> /\ x \in QUICStreams
             /\ QUICStreams' = QUICStreams \ {x} /\ wg' = [wg EXCEPT !["quic"] = @ - 1]
  <2>1. PcsKept /\ StreamShift(x, {"finishing"}, "done")
    BY <1>4, RequestStep DEF Remains
  <2>2. UNCHANGED closer /\ Native!KindOfStream(x) = "quic" /\ wg' = [wg EXCEPT !["quic"] = @ - 1]
    BY <1>4 DEF Native!FinishQUIC, Native!serverVars
  <2>3. UNCHANGED Native!Running
    BY <2>1 DEF PcsKept, Native!Running
  <2>4. x \in QUICStreams /\ QUICStreams' = QUICStreams \ {x}
    BY <2>1, <2>2 DEF StreamShift, QUICStreams, Native!Working, Native!KindOfStream
  <2> QED BY <2>2, <2>3, <2>4
<1>5. CASE /\ ~ \E k \in Native!Kinds, c \in NativeConns : Native!Admit(k, c)
           /\ ~ \E c \in NativeConns : Native!ConnDone(c)
           /\ ~ \E x \in NativeStreams : Native!AdmitStream(x) \/ Native!FinishQUIC(x)
  <2>1. Aside /\ DoneEarlier
    BY <1>5, AsideStep
  <2>2. UNCHANGED QUICStreams
    BY <1>5, StreamStep DEF QUICStreams, Native!Working
  <2> QED BY <2>1, <2>2 DEF Aside
<1> QED BY <1>1, <1>2, <1>3, <1>4, <1>5

\* A wait group counts the goroutines of its server, and stays empty once
\* Close has found it so: admission and closing exclude each other.
LEMMA GroupsKept ==
  ASSUME NativeAssumption, NativeTypeInv, StreamInv, HeldInv, GroupsInv, Native!Next
  PROVE  GroupsInv'
<1> DEFINE Q == Cardinality(QUICStreams)
           G(k) == Cardinality(OfKind(k)) + (IF k = "quic" THEN Q ELSE 0)
<1>1. /\ \A k : IsFiniteSet(OfKind(k)) /\ Cardinality(OfKind(k)) \in Nat
      /\ IsFiniteSet(QUICStreams) /\ Q \in Nat
      /\ \A c \in NativeConns : NativeKinds[c] \in Native!Kinds
      /\ \A x : x \in QUICStreams => Q # 0
      /\ \A k, c : c \in OfKind(k) => Cardinality(OfKind(k)) # 0
  BY FiniteParts, FS_CardinalityType, FS_EmptySet DEF NativeAssumption
<1>2. /\ wg = [k \in Native!Kinds |-> G(k)]
      /\ \A k \in Native!Kinds : closer[k] = "done" => wg[k] = 0 /\ closing[k]
  BY DEF GroupsInv, HeldInv
<1>3. /\ \A k : OfKind(k) = {c \in Native!Running : NativeKinds[c] = k}
      /\ \A k : OfKind(k)' = {c \in Native!Running' : NativeKinds[c] = k}
  BY DEF OfKind
<1>4. ASSUME UNCHANGED Native!Running
      PROVE  \A k : OfKind(k)' = OfKind(k)
  BY <1>3, <1>4
<1>5. CASE /\ UNCHANGED <<wg, Native!Running, QUICStreams>>
           /\ DoneEarlier
  <2>1. \A k \in Native!Kinds : closer'[k] = "done" => wg'[k] = 0
    BY <1>2, <1>5 DEF DoneEarlier
  <2> QED BY <1>2, <1>4, <1>5, <2>1 DEF GroupsInv
<1>6. ASSUME NEW c \in NativeConns, UNCHANGED <<QUICStreams, closer>>,
             c \notin Native!Running, ~closing[NativeKinds[c]], Native!Running' = Native!Running \cup {c},
             wg' = [wg EXCEPT ![NativeKinds[c]] = @ + 1]
      PROVE  GroupsInv'
  <2> DEFINE j == NativeKinds[c]
  <2>1. \A k : OfKind(k)' = IF k = j THEN OfKind(k) \cup {c} ELSE OfKind(k)
    BY <1>3, <1>6
  <2>2. Cardinality(OfKind(j) \cup {c}) = Cardinality(OfKind(j)) + 1
    BY <1>1, <1>3, <1>6, CountUp
  <2>3. wg' = [k \in Native!Kinds |-> Cardinality(OfKind(k)') + (IF k = "quic" THEN Q ELSE 0)]
    <3>1. wg' = [k \in Native!Kinds |-> IF k = j THEN G(k) + 1 ELSE G(k)]
      BY <1>1, <1>2, <1>6
    <3>2. \A k : Cardinality(OfKind(k)') =
                  IF k = j THEN Cardinality(OfKind(k)) + 1 ELSE Cardinality(OfKind(k))
      BY <2>1, <2>2
    <3>3. \A k : Cardinality(OfKind(k)') + (IF k = "quic" THEN Q ELSE 0) =
                  IF k = j THEN G(k) + 1 ELSE G(k)
      BY <1>1, <3>2
    <3> QED BY <3>1, <3>3
  <2>4. \A k \in Native!Kinds : closer'[k] = "done" => k # j /\ wg'[k] = wg[k] /\ wg[k] = 0
    BY <1>2, <1>6
  <2> QED BY <1>6, <2>3, <2>4 DEF GroupsInv
<1>7. ASSUME NEW c \in NativeConns, UNCHANGED <<QUICStreams, closer>>,
             c \in Native!Running, Native!Running' = Native!Running \ {c}, wg' = [wg EXCEPT ![NativeKinds[c]] = @ - 1]
      PROVE  GroupsInv'
  <2> DEFINE j == NativeKinds[c]
  <2>1. \A k : OfKind(k)' = IF k = j THEN OfKind(k) \ {c} ELSE OfKind(k)
    BY <1>3, <1>7
  <2>2. c \in OfKind(j) /\ Cardinality(OfKind(j) \ {c}) = Cardinality(OfKind(j)) - 1
    BY <1>1, <1>3, <1>7, CountDown
  <2>3. wg' = [k \in Native!Kinds |-> Cardinality(OfKind(k)') + (IF k = "quic" THEN Q ELSE 0)]
    <3>1. wg' = [k \in Native!Kinds |-> IF k = j THEN G(k) - 1 ELSE G(k)]
      BY <1>1, <1>2, <1>7
    <3>2. \A k : Cardinality(OfKind(k)') =
                  IF k = j THEN Cardinality(OfKind(k)) - 1 ELSE Cardinality(OfKind(k))
      BY <2>1, <2>2
    <3>3. \A k : Cardinality(OfKind(k)') + (IF k = "quic" THEN Q ELSE 0) =
                  IF k = j THEN G(k) - 1 ELSE G(k)
      BY <1>1, <3>2
    <3> QED BY <3>1, <3>3
  <2>4. wg[j] # 0
    BY <1>1, <1>2, <2>2
  <2>5. \A k \in Native!Kinds : closer'[k] = "done" => k # j /\ wg'[k] = wg[k] /\ wg[k] = 0
    BY <1>2, <1>7, <2>4
  <2> QED BY <1>7, <2>3, <2>5 DEF GroupsInv
<1>8. ASSUME NEW x \in NativeStreams, UNCHANGED <<Native!Running, closer>>,
             x \notin QUICStreams, ~closing["quic"], QUICStreams' = QUICStreams \cup {x},
             wg' = [wg EXCEPT !["quic"] = @ + 1]
      PROVE  GroupsInv'
  <2>1. Cardinality(QUICStreams') = Q + 1
    BY <1>1, <1>8, CountUp
  <2>2. wg' = [k \in Native!Kinds |-> Cardinality(OfKind(k)) + (IF k = "quic" THEN Q + 1 ELSE 0)]
    BY <1>1, <1>2, <1>8
  <2>3. \A k \in Native!Kinds : closer'[k] = "done" => k # "quic" /\ wg'[k] = wg[k] /\ wg[k] = 0
    BY <1>2, <1>8
  <2> QED BY <1>4, <1>8, <2>1, <2>2, <2>3 DEF GroupsInv
<1>9. ASSUME NEW x \in NativeStreams, UNCHANGED <<Native!Running, closer>>,
             x \in QUICStreams, QUICStreams' = QUICStreams \ {x},
             wg' = [wg EXCEPT !["quic"] = @ - 1]
      PROVE  GroupsInv'
  <2>1. Cardinality(QUICStreams') = Q - 1
    BY <1>1, <1>9, CountDown
  <2>2. wg' = [k \in Native!Kinds |-> Cardinality(OfKind(k)) + (IF k = "quic" THEN Q - 1 ELSE 0)]
    BY <1>1, <1>2, <1>9
  <2>3. "quic" \in Native!Kinds /\ wg["quic"] # 0
    BY <1>1, <1>2, <1>9 DEF Native!Kinds
  <2>4. \A k \in Native!Kinds : closer'[k] = "done" => k # "quic" /\ wg'[k] = wg[k] /\ wg[k] = 0
    BY <1>2, <1>9, <2>3
  <2> QED BY <1>4, <1>9, <2>1, <2>2, <2>4 DEF GroupsInv
<1> QED BY <1>5, <1>6, <1>7, <1>8, <1>9, GroupStep
-----------------------------------------------------------------------------
(* The invariant. *)

\* The servers begin with no token taken.
LEMMA NativeInitially ==
  ASSUME NativeAssumption, Native!Init
  PROVE  NativeIInv
<1>1. budget \in Nat /\ shared \in BOOLEAN
  BY DEF Native!Init, NativeAssumption, Native!StreamBudget, Native!Resolve
<1>2. /\ \A c \in NativeConns : conn[c].pc = "new"
      /\ \A x \in NativeStreams : stream[x] = "idle" /\ upstream[x] = "none"
      /\ \A k \in Native!Kinds : held[k] = None /\ ~closing[k] /\ closer[k] = "idle"
  BY DEF Native!Init
<1>3. NativeTypeInv
  BY <1>1 DEF Native!Init, NativeTypeInv, ConnState, StreamPcs
<1>4. HeldInv /\ StreamInv
  BY <1>2 DEF HeldInv, StreamInv, Pending, OfTLS, Native!Working, NativeAssumption
<1>5. /\ Native!Holding = {} /\ Native!Counted = {} /\ Native!Running = {}
      /\ QUICStreams = {} /\ Native!Carried = {}
  BY <1>2 DEF Native!Holding, Native!Counted, Native!Running, QUICStreams, Native!Working,
       Native!Carried
<1>6. /\ \A p : InPool(p) = {}
      /\ \A k, s : NativeOfSource(k, s) = {}
      /\ \A k : OfKind(k) = {}
  BY <1>5 DEF InPool, NativeOfSource, OfKind
<1>7. Cardinality({}) = 0
  BY FS_EmptySet
<1>8. NativeSlotsInv
  BY <1>6, <1>7 DEF Native!Init, NativeSlotsInv
<1>9. StreamsInv
  BY <1>1, <1>5, <1>7 DEF Native!Init, StreamsInv
<1>10. wg = [k \in Native!Kinds |-> Cardinality(OfKind(k))
                                    + (IF k = "quic" THEN Cardinality(QUICStreams) ELSE 0)]
  <2>1. \A k : Cardinality(OfKind(k))
               + (IF k = "quic" THEN Cardinality(QUICStreams) ELSE 0) = 0
    BY <1>5, <1>6, <1>7
  <2>2. wg = [k \in Native!Kinds |-> 0]
    BY DEF Native!Init
  <2> QED BY <2>1, <2>2
<1>11. GroupsInv
  BY <1>2, <1>10 DEF GroupsInv
<1> QED BY <1>3, <1>4, <1>8, <1>9, <1>11 DEF NativeIInv

\* Every step keeps the invariant.
LEMMA StepKeeps ==
  ASSUME NativeAssumption, NativeIInv, [Native!Next]_Native!vars
  PROVE  NativeIInv'
<1>1. CASE Native!Next
  BY <1>1, TypeKept, HeldKept, StreamInvKept, SlotsKept, StreamsKept, GroupsKept DEF NativeIInv
<1>2. CASE UNCHANGED Native!vars
  <2>1. UNCHANGED <<shared, budget, slots, clients, held, closing, closer, wg, conn, stream,
                    upstream, streamSem, coreSem>>
    BY <1>2 DEF Native!vars, Native!budgetVars, Native!serverVars, Native!streamVars
  <2>2. NativeTypeInv' /\ HeldInv'
    BY <2>1 DEF NativeIInv, NativeTypeInv, HeldInv
  <2>3. StreamInv'
    BY <2>1 DEF NativeIInv, StreamInv, Pending, OfTLS, Native!Working, Native!KindOfStream
  <2>4. UNCHANGED <<Native!Holding, Native!Counted, Native!Running, Native!Carried, QUICStreams>>
    BY <2>1 DEF Native!Holding, Native!Counted, Native!Running, Native!Carried, QUICStreams,
         Native!Working, Native!KindOfStream
  <2>5. /\ \A p : InPool(p)' = InPool(p)
        /\ \A k, s : NativeOfSource(k, s)' = NativeOfSource(k, s)
        /\ \A k : OfKind(k)' = OfKind(k)
    BY <2>1, <2>4 DEF InPool, NativeOfSource, OfKind, Native!PoolOf
  <2>6. NativeSlotsInv' /\ StreamsInv'
    BY <2>1, <2>4, <2>5 DEF NativeIInv, NativeSlotsInv, StreamsInv
  <2>7. GroupsInv'
    BY <2>1, <2>4, <2>5 DEF NativeIInv, GroupsInv
  <2> QED BY <2>2, <2>3, <2>6, <2>7 DEF NativeIInv
<1> QED BY <1>1, <1>2

\* A behaviour of the process is one of its native listeners.
LEMMA NativeBehaves == Spec => Native!Init /\ [][Native!Next]_Native!vars
<1>1. Init => Native!Init
  BY DEF Init
<1>2. [Next]_vars => [Native!Next]_Native!vars
  BY DEF Next, vars, nativeVars, Native!vars, Native!budgetVars, Native!serverVars,
       Native!streamVars
<1> QED BY <1>1, <1>2, PTL DEF Spec

\* Serve, the goroutines of connections and streams, and Close keep the counters
\* and what they count together, however they interleave.
LEMMA NativeInvariance == Spec => []NativeIInv
<1>1. NativeAssumption
  BY ServersAssumption
<1>2. Native!Init => NativeIInv
  BY <1>1, NativeInitially
<1>3. NativeIInv /\ [Native!Next]_Native!vars => NativeIInv'
  BY <1>1, StepKeeps
<1> QED BY <1>2, <1>3, NativeBehaves, PTL

\* NativeServers counts with its own instance of FiniteSets.
LEMMA NativeCount ==
  ASSUME NEW S
  PROVE  Native!Cardinality(S) = Cardinality(S)
BY DEF Native!Cardinality, Cardinality
-----------------------------------------------------------------------------
(* What it says. *)

\* Every token of the native exit is somebody's: no refusal between two of
\* them and no deferred call of Serve, serveConnection or handleStream loses
\* one or returns it twice.
THEOREM EveryTokenOwned == Spec => []Native!Balanced
<1>1. NativeIInv => Native!Balanced
  <2> SUFFICES ASSUME NativeIInv PROVE Native!Balanced
    OBVIOUS
  <2>1. /\ slots = [p \in Native!Pools |-> Cardinality(InPool(p))]
        /\ clients = [k \in Native!Kinds |-> [s \in Native!Sources |-> Cardinality(NativeOfSource(k, s))]]
    BY DEF NativeIInv, NativeSlotsInv
  <2>2. \A p \in Native!Pools : slots[p] = Cardinality({c \in Native!Holding : Native!PoolOf(c) = p})
    BY <2>1 DEF InPool
  <2>3. \A k \in Native!Kinds, s \in Native!Sources :
          clients[k][s] = Cardinality({c \in Native!Counted : NativeKinds[c] = k /\ NativeSources[c] = s})
    BY <2>1 DEF NativeOfSource
  <2>4. /\ streamSem = Cardinality({x \in Native!Working : Native!KindOfStream(x) = "quic"})
        /\ coreSem = Cardinality(Native!Carried) /\ coreSem <= budget
    BY DEF NativeIInv, StreamsInv, QUICStreams
  <2>5. wg = [k \in Native!Kinds |-> Cardinality({c \in Native!Running : NativeKinds[c] = k})
                                      + (IF k = "quic" THEN streamSem ELSE 0)]
    BY DEF NativeIInv, GroupsInv, StreamsInv, OfKind
  <2>6. \A k \in Native!Kinds :
          wg[k] = Cardinality({c \in Native!Running : NativeKinds[c] = k})
                  + (IF k = "quic" THEN streamSem ELSE 0)
    BY <2>5
  <2> QED BY <2>2, <2>3, <2>4, <2>6, NativeCount DEF Native!Balanced
<1> QED BY <1>1, NativeInvariance, PTL

\* Once the Close of a server has returned its wait group is empty, so no
\* connection of it is served and no stream of it works; and a destination is
\* open only under a stream that relays.
LEMMA CloseLeavesNothing == Spec => []Native!NothingAfterClose
<1>0. NativeAssumption
  BY ServersAssumption
<1>1. NativeIInv => Native!NothingAfterClose
  <2> SUFFICES ASSUME NativeIInv, NEW k \in Native!Kinds, closer[k] = "done"
               PROVE  /\ \A c \in Native!Running : NativeKinds[c] # k
                      /\ \A x \in Native!Working : Native!KindOfStream(x) # k
                      /\ \A x \in NativeStreams : Native!KindOfStream(x) = k => upstream[x] # "open"
    BY DEF Native!NothingAfterClose
  <2>1. Cardinality(OfKind(k)) + (IF k = "quic" THEN Cardinality(QUICStreams) ELSE 0) = 0
    BY DEF NativeIInv, GroupsInv
  <2>2. /\ Cardinality(OfKind(k)) \in Nat /\ IsFiniteSet(OfKind(k))
        /\ Cardinality(QUICStreams) \in Nat /\ IsFiniteSet(QUICStreams)
    BY <1>0, FiniteParts, FS_CardinalityType
  <2>3. OfKind(k) = {} /\ (k = "quic" => QUICStreams = {})
    BY <2>1, <2>2, FS_EmptySet
  <2>4. \A c \in Native!Running : NativeKinds[c] # k
    BY <2>3 DEF OfKind
  <2>5. \A x \in Native!Working : Native!KindOfStream(x) # k
    <3>1. CASE k = "quic"
      BY <2>3, <3>1 DEF QUICStreams
    <3>2. ASSUME k = "tls", NEW x \in Native!Working, Native!KindOfStream(x) = k PROVE FALSE
      <4>1. conn[NativeOwners[x]].pc = "serving" /\ NativeOwners[x] \in NativeConns
        BY <1>0, <3>2 DEF NativeIInv, StreamInv, OfTLS, Native!Working, NativeAssumption
      <4> QED BY <2>4, <3>2, <4>1 DEF Native!Running, Native!KindOfStream
    <3> QED BY <3>1, <3>2 DEF Native!Kinds
  <2>6. \A x \in NativeStreams : upstream[x] = "open" => x \in Native!Working
    BY DEF NativeIInv, StreamInv, Native!Working
  <2> QED BY <2>4, <2>5, <2>6
<1> QED BY <1>1, NativeInvariance, PTL

\* SlotPool counts with its own instance of FiniteSets.
LEMMA NativeSameCount ==
  ASSUME NEW S
  PROVE  Native!Slots!Cardinality(S) = Cardinality(S)
BY DEF Native!Slots!Cardinality, Cardinality

\* The two listeners, with one connection budget or with two, implement
\* connection admission: the abstract specification SlotPool.
LEMMA NativeAdmission == Spec => Native!ImplementsSlotPool
<1>0. NativeAssumption
  BY ServersAssumption
<1>1. Native!Init => Native!Slots!Init
  BY DEF Native!Init, Native!Slots!Init, Native!Holding, Native!Counted
<1> DEFINE P == [c \in NativeConns |-> Native!PoolOf(c)]
<1>2. NativeIInv /\ [Native!Next]_Native!vars => [Native!Slots!Next]_(Native!Slots!poolVars)
  <2> SUFFICES ASSUME NativeIInv, [Native!Next]_Native!vars
               PROVE  [Native!Slots!Next]_(Native!Slots!poolVars)
    OBVIOUS
  <2>1. CASE UNCHANGED Native!vars
    BY <2>1 DEF Native!vars, Native!budgetVars, Native!serverVars, Native!streamVars,
         Native!Slots!poolVars, Native!Holding, Native!Counted, Native!PoolOf
  <2>2. CASE Native!Next
    <3>1. UNCHANGED <<shared, limits>> /\ UNCHANGED P
      BY <1>0, <2>2, PoolStep DEF NativeIInv, Native!PoolOf
    <3>2. \A c \in NativeConns :
            /\ {d \in Native!Holding : P[d] = P[c]} = InPool(Native!PoolOf(c))
            /\ {d \in Native!Counted : Native!ShareOf(d) = Native!ShareOf(c)} = NativeOfSource(NativeKinds[c], NativeSources[c])
            /\ P[c] = Native!PoolOf(c) /\ Native!ShareOf(c)[1] = NativeKinds[c]
      BY DEF InPool, NativeOfSource, Native!ShareOf, Native!Holding, Native!Counted
    <3>3. \A c \in NativeConns :
            /\ slots[Native!PoolOf(c)] = Cardinality(InPool(Native!PoolOf(c)))
            /\ clients[NativeKinds[c]][NativeSources[c]] = Cardinality(NativeOfSource(NativeKinds[c], NativeSources[c]))
      BY <1>0 DEF NativeIInv, NativeSlotsInv, Native!PoolOf, Native!Pools, Native!Sources,
           NativeAssumption
    <3>4. ASSUME UNCHANGED <<Native!Holding, Native!Counted>>
          PROVE  UNCHANGED Native!Slots!poolVars
      BY <3>1, <3>4 DEF Native!Slots!poolVars
    <3>5. ASSUME NEW c \in NativeConns, c \notin Native!Holding, Native!HasSlot(c),
                 Native!Holding' = Native!Holding \cup {c},
                 UNCHANGED Native!Counted
          PROVE  Native!Slots!Take(c)
      BY <3>1, <3>2, <3>3, <3>5, NativeSameCount DEF Native!Slots!Take, Native!HasSlot
    <3>6. ASSUME NEW c \in NativeConns, c \in Native!Holding \ Native!Counted,
                 Native!HasShare(NativeKinds[c], c),
                 Native!Counted' = Native!Counted \cup {c}, UNCHANGED Native!Holding
          PROVE  Native!Slots!Admit(c)
      BY <3>1, <3>2, <3>3, <3>6, NativeSameCount DEF Native!Slots!Admit, Native!HasShare
    <3>7. ASSUME NEW c \in NativeConns, c \in Native!Counted, Native!Counted' = Native!Counted \ {c},
                 UNCHANGED Native!Holding
          PROVE  Native!Slots!Leave(c)
      BY <3>1, <3>7 DEF Native!Slots!Leave
    <3>8. ASSUME NEW c \in NativeConns, c \in Native!Holding \ Native!Counted,
                 Native!Holding' = Native!Holding \ {c},
                 UNCHANGED Native!Counted
          PROVE  Native!Slots!Give(c)
      BY <3>1, <3>8 DEF Native!Slots!Give
    <3> QED BY <1>0, <2>2, <3>4, <3>5, <3>6, <3>7, <3>8, PoolStep DEF NativeIInv, Native!Slots!Next
  <2> QED BY <2>1, <2>2
<1> QED BY <1>1, <1>2, NativeInvariance, NativeBehaves, PTL DEF Native!ImplementsSlotPool,
             Native!Slots!Spec
-----------------------------------------------------------------------------
(* The web origin. *)

\* A socket of the origin, and webServerConnectionAuth.
Socket == [pc : {"new", "slotted", "counted", "served", "left", "gone"}, open : BOOLEAN]
GateRecord == [phase : {"fresh", "bootstrapping", "established", "closed"}, generation : Nat]
Leading == {"verify", "lead", "lead dial", "lead answer", "lead busy"}
RequestRecord ==
  [pc : Leading \cup {"idle", "absent", "fresh", "join", "session", "waiting", "ticket",
                      "dial", "answer", "relay", "done"},
   generation : Nat]

\* How far the bodies of the three Close methods have come, and ListenWeb.
CloserRecord ==
  [h2 : {"idle", "owner", "owned", "done"}, h3 : {"idle", "done"},
   web : {"idle", "h3", "h2", "done"}]
BootRecord ==
  [step : {"tcp", "udp", "up", "failed"}, attempt : Int, fixed : BOOLEAN,
   stops : BOOLEAN, tcp : BOOLEAN, udp : BOOLEAN]

\* The types of the variables that the properties speak about.
WebTypeInv ==
  /\ webConn \in [WebConns -> Socket]
  /\ gate \in [WebConns -> GateRecord]
  /\ request \in [WebRequests -> RequestRecord]
  /\ owner.conns \subseteq WebConns
  /\ closers \in CloserRecord
  /\ boot \in BootRecord

\* The TCP socket is bound from the first bind to the failure of the second,
\* the UDP socket from the second on.
BootInv ==
  /\ boot.tcp <=> boot.step \in {"udp", "up"}
  /\ boot.udp <=> boot.step = "up"

\* A socket that is served is registered, and what registers after the owner
\* was closed is closed; so Close, which closes first HTTP/3 and then what the
\* owner has listed, leaves only sockets on their way to register.
Served(c) == WebKinds[c] = "h2" /\ webConn[c].pc = "served" /\ webConn[c].open
CloseInv ==
  /\ \A c \in WebConns : webConn[c].open => webConn[c].pc \in {"slotted", "counted", "served"}
  /\ \A c \in WebConns : Served(c) => c \in owner.conns
  /\ closers.h2 # "idle" => owner.closed
  /\ closers.h2 = "owner" => \A c \in WebConns : Served(c) => c \in doomed
  /\ closers.h2 \in {"owned", "done"} => \A c \in WebConns : ~Served(c)
  /\ closers.h3 = "done" => \A c \in WebConns : WebKinds[c] = "h3" => ~webConn[c].open
  /\ closers.web \in {"h2", "done"} => closers.h3 = "done"
  /\ closers.web = "done" => closers.h2 = "done"

\* The counters are the numbers of those who hold their tokens.
WebOfSource(s) == {c \in Web!Counted : WebSources[c] = s}
WebSlotsInv ==
  /\ webSlots = Cardinality(Web!Holding)
  /\ webClients = [s \in Web!Sources |-> Cardinality(WebOfSource(s))]

\* One request at most leads a connection, and the gate is bootstrapping while
\* it does, unless it was shut.
LeaderInv ==
  /\ \A q, r \in WebRequests :
       request[q].pc \in Leading /\ request[r].pc \in Leading /\ WebOwners[q] = WebOwners[r] => q = r
  /\ \A r \in WebRequests : request[r].pc \in Leading =>
       gate[WebOwners[r]].phase \in {"bootstrapping", "closed"}
  /\ \A c \in WebConns : gate[c].phase = "bootstrapping" =>
       \E r \in WebRequests : WebOwners[r] = c /\ request[r].pc \in Leading

\* The inductive invariant.
WebIInv == WebTypeInv /\ BootInv /\ CloseInv /\ WebSlotsInv /\ LeaderInv
-----------------------------------------------------------------------------
\* It holds before ListenWeb.
LEMMA WebInitially ==
  ASSUME WebAssumption, Web!Init
  PROVE  WebIInv
<1>1. /\ boot.step = "tcp" /\ ~boot.tcp /\ ~boot.udp /\ boot.attempt = 1
      /\ boot \in [step : {"tcp"}, attempt : {1}, fixed : BOOLEAN, stops : BOOLEAN, tcp : {FALSE}, udp : {FALSE}]
      /\ webConn \in [WebConns -> [pc : {"new", "gone"}, open : {FALSE}]]
      /\ owner = [closed |-> FALSE, conns |-> {}]
      /\ closers = [h2 |-> "idle", h3 |-> "idle", web |-> "idle"]
      /\ gate = [c \in WebConns |-> [phase |-> "fresh", generation |-> 0]]
      /\ request \in [WebRequests -> [pc : {"idle", "absent"}, generation : {0}]]
      /\ webSlots = 0 /\ webClients = [s \in Web!Sources |-> 0]
  BY DEF Web!Init
<1>2. \A c \in WebConns : webConn[c] \in Socket /\ ~webConn[c].open /\ webConn[c].pc \in {"new", "gone"}
  BY <1>1 DEF Socket
<1>3. \A r \in WebRequests : request[r] \in RequestRecord /\ request[r].pc \notin Leading
  <2> SUFFICES ASSUME NEW r \in WebRequests
               PROVE  request[r] \in RequestRecord /\ request[r].pc \notin Leading
    OBVIOUS
  <2>1. request[r] \in [pc : {"idle", "absent"}, generation : {0}]
    BY <1>1
  <2>2. PICK pc \in {"idle", "absent"} : request[r] = [pc |-> pc, generation |-> 0]
    BY <2>1
  <2>3. pc \notin Leading
    BY DEF Leading
  <2> QED
    BY <2>2, <2>3 DEF RequestRecord
<1>4. \A c \in WebConns : gate[c] \in GateRecord /\ gate[c].phase = "fresh"
  BY <1>1 DEF GateRecord
<1>5. WebTypeInv
  <2>1. webConn \in [WebConns -> Socket] /\ request \in [WebRequests -> RequestRecord]
    BY <1>1, <1>2, <1>3
  <2>2. gate \in [WebConns -> GateRecord]
    BY <1>1, <1>4
  <2>3. owner.conns \subseteq WebConns
    BY <1>1
  <2>4. closers \in CloserRecord
    BY <1>1 DEF CloserRecord
  <2>5. boot \in BootRecord
    <3>1. PICK f \in BOOLEAN, s \in BOOLEAN :
            boot = [step |-> "tcp", attempt |-> 1, fixed |-> f, stops |-> s, tcp |-> FALSE, udp |-> FALSE]
      BY <1>1
    <3> QED
      BY <3>1 DEF BootRecord
  <2> QED
    BY <2>1, <2>2, <2>3, <2>4, <2>5 DEF WebTypeInv
<1>6. BootInv
  BY <1>1 DEF BootInv
<1>7. CloseInv
  BY <1>1, <1>2 DEF CloseInv, Served
<1>8. WebSlotsInv
  <2>1. Web!Holding = {} /\ \A s : WebOfSource(s) = {}
    BY <1>2 DEF Web!Holding, Web!Counted, WebOfSource
  <2> QED
    BY <1>1, <2>1, FS_EmptySet DEF WebSlotsInv
<1>9. LeaderInv
  BY <1>3, <1>4 DEF LeaderInv
<1> QED
  BY <1>5, <1>6, <1>7, <1>8, <1>9 DEF WebIInv
-----------------------------------------------------------------------------
(* Sockets. *)

\* c comes to a place, open or not, and the others stay.
Becomes(c, p, o) ==
  /\ webConn' \in [WebConns -> Socket]
  /\ webConn'[c].pc = p /\ webConn'[c].open = o
  /\ \A d \in WebConns : d # c => webConn'[d] = webConn[d]

\* No socket comes to another place, and none opens.
Quiets ==
  /\ webConn' \in [WebConns -> Socket]
  /\ \A c \in WebConns : webConn'[c].pc = webConn[c].pc /\ (webConn'[c].open => webConn[c].open)

LEMMA MoveBecomes ==
  ASSUME WebTypeInv, NEW c \in WebConns, NEW p \in {"slotted", "counted", "served", "left", "gone"},
         Web!Move(c, p)
  PROVE  Becomes(c, p, webConn[c].open)
<1>1. webConn \in [WebConns -> Socket] /\ webConn[c] \in Socket
  BY DEF WebTypeInv
<1>2. [webConn[c] EXCEPT !.pc = p] \in Socket
        /\ webConn' = [webConn EXCEPT ![c] = [webConn[c] EXCEPT !.pc = p]]
  BY <1>1 DEF Web!Move, Socket
<1> QED
  BY <1>1, <1>2 DEF Becomes, Socket

LEMMA SetBecomes ==
  ASSUME WebTypeInv, NEW c \in WebConns, NEW p \in {"slotted", "counted", "served", "left", "gone"},
         NEW o \in BOOLEAN, webConn' = [webConn EXCEPT ![c] = [pc |-> p, open |-> o]]
  PROVE  Becomes(c, p, o)
<1>1. webConn \in [WebConns -> Socket] /\ [pc |-> p, open |-> o] \in Socket
  BY DEF WebTypeInv, Socket
<1> QED
  BY <1>1 DEF Becomes

\* Closing some connections.
LEMMA ClosesQuietly ==
  ASSUME WebTypeInv, NEW S,
         webConn' = [c \in WebConns |-> IF c \in S THEN [webConn[c] EXCEPT !.open = FALSE] ELSE webConn[c]]
  PROVE  Quiets /\ \A c \in WebConns : c \in S => ~webConn'[c].open
<1>1. \A c \in WebConns : /\ webConn[c] \in Socket /\ [webConn[c] EXCEPT !.open = FALSE] \in Socket
                          /\ [webConn[c] EXCEPT !.open = FALSE].pc = webConn[c].pc
                          /\ [webConn[c] EXCEPT !.open = FALSE].open = FALSE
  BY DEF WebTypeInv, Socket
<1> QED
  BY <1>1 DEF Quiets

LEMMA EndsQuietly ==
  ASSUME WebTypeInv, NEW c \in WebConns, webConn' = [webConn EXCEPT ![c].open = FALSE]
  PROVE  Quiets
<1>1. /\ webConn \in [WebConns -> Socket] /\ webConn[c] \in Socket
           /\ [webConn[c] EXCEPT !.open = FALSE] \in Socket
      /\ [webConn[c] EXCEPT !.open = FALSE].pc = webConn[c].pc
      /\ [webConn[c] EXCEPT !.open = FALSE].open = FALSE
  BY DEF WebTypeInv, Socket
<1>2. webConn' = [webConn EXCEPT ![c] = [webConn[c] EXCEPT !.open = FALSE]]
  OBVIOUS
<1> QED
  BY <1>1, <1>2 DEF Quiets

\* The sets that are counted are finite.
LEMMA Finite ==
  ASSUME WebAssumption
  PROVE  IsFiniteSet(Web!Holding) /\ \A s : IsFiniteSet(WebOfSource(s))
<1>1. Web!Holding \subseteq WebConns /\ \A s : WebOfSource(s) \subseteq WebConns
  BY DEF Web!Holding, WebOfSource, Web!Counted
<1> QED
  BY <1>1, FS_Subset DEF WebAssumption

\* Quiet steps keep the counters.
LEMMA SlotsStay ==
  ASSUME WebSlotsInv, Quiets, UNCHANGED Web!slotVars
  PROVE  WebSlotsInv' /\ UNCHANGED <<Web!Holding, Web!Counted>>
<1>1. Web!Holding' = Web!Holding /\ Web!Counted' = Web!Counted
  BY DEF Quiets, Web!Holding, Web!Counted
<1>2. \A s : WebOfSource(s)' = WebOfSource(s)
  BY <1>1 DEF WebOfSource
<1>3. Web!Sources' = Web!Sources
  OBVIOUS
<1> QED
  BY <1>1, <1>2 DEF WebSlotsInv, Web!slotVars

\* And what Close relies on.
LEMMA CloseStays ==
  ASSUME CloseInv, Quiets, UNCHANGED <<owner, doomed, closers>>
  PROVE  CloseInv'
BY DEF CloseInv, Quiets, Served

\* A step that moves one connection into, out of or inside the budget.
LEMMA SlotsMove ==
  ASSUME WebAssumption, WebSlotsInv, NEW c \in WebConns, NEW p, NEW o, Becomes(c, p, o),
         p \in {"slotted", "counted", "served", "left", "gone"}
  PROVE  /\ webConn[c].pc \in {"new", "gone"} /\ p = "slotted" =>
              /\ Web!Holding' = Web!Holding \cup {c} /\ Web!Counted' = Web!Counted /\ c \notin Web!Holding
              /\ webSlots' = webSlots + 1 /\ webClients' = webClients => WebSlotsInv'
         /\ webConn[c].pc \in {"slotted", "left"} /\ p = "gone" =>
              /\ Web!Holding' = Web!Holding \ {c} /\ Web!Counted' = Web!Counted
                   /\ c \in Web!Holding \ Web!Counted
              /\ webSlots' = webSlots - 1 /\ webClients' = webClients => WebSlotsInv'
         /\ webConn[c].pc = "slotted" /\ p \in {"counted", "served"} =>
              /\ Web!Holding' = Web!Holding /\ Web!Counted' = Web!Counted \cup {c}
                   /\ c \in Web!Holding \ Web!Counted
              /\ webSlots' = webSlots /\ webClients' = [webClients EXCEPT ![WebSources[c]] = @ + 1]
                   => WebSlotsInv'
         /\ webConn[c].pc = "served" /\ p = "left" =>
              /\ Web!Holding' = Web!Holding /\ Web!Counted' = Web!Counted \ {c} /\ c \in Web!Counted
              /\ webSlots' = webSlots /\ webClients' = [webClients EXCEPT ![WebSources[c]] = @ - 1]
                   => WebSlotsInv'
         /\ (\/ webConn[c].pc \in {"new", "gone"} /\ p = "gone"
             \/ webConn[c].pc = "counted" /\ p = "served") =>
              /\ Web!Holding' = Web!Holding /\ Web!Counted' = Web!Counted
              /\ webSlots' = webSlots /\ webClients' = webClients => WebSlotsInv'
<1> DEFINE s0 == WebSources[c]
<1>1. IsFiniteSet(Web!Holding) /\ \A s : IsFiniteSet(WebOfSource(s))
  BY Finite
<1>2. /\ \A d \in WebConns : d # c => webConn'[d] = webConn[d]
      /\ webConn'[c].pc = p
  BY DEF Becomes
<1>3. /\ webClients = [s \in Web!Sources |-> Cardinality(WebOfSource(s))]
           /\ webSlots = Cardinality(Web!Holding)
      /\ s0 \in Web!Sources /\ Web!Sources' = Web!Sources
  BY DEF WebSlotsInv, Web!Sources
<1>4. webConn[c].pc \in {"new", "gone"} /\ p = "slotted" =>
                 /\ Web!Holding' = Web!Holding \cup {c} /\ Web!Counted' = Web!Counted
                      /\ c \notin Web!Holding
                 /\ webSlots' = webSlots + 1 /\ webClients' = webClients => WebSlotsInv'
  <2> SUFFICES ASSUME webConn[c].pc \in {"new", "gone"}, p = "slotted"
               PROVE  /\ Web!Holding' = Web!Holding \cup {c} /\ Web!Counted' = Web!Counted
                           /\ c \notin Web!Holding
                      /\ webSlots' = webSlots + 1 /\ webClients' = webClients => WebSlotsInv'
    OBVIOUS
  <2>1. Web!Holding' = Web!Holding \cup {c} /\ Web!Counted' = Web!Counted /\ c \notin Web!Holding
    BY <1>2 DEF Web!Holding, Web!Counted
  <2>2. Cardinality(Web!Holding \cup {c}) = Cardinality(Web!Holding) + 1
    BY <1>1, <2>1, FS_AddElement
  <2>3. \A s : WebOfSource(s)' = WebOfSource(s)
    BY <2>1 DEF WebOfSource
  <2> QED
    BY <1>3, <2>1, <2>2, <2>3 DEF WebSlotsInv
<1>5. webConn[c].pc \in {"slotted", "left"} /\ p = "gone" =>
                 /\ Web!Holding' = Web!Holding \ {c} /\ Web!Counted' = Web!Counted
                      /\ c \in Web!Holding \ Web!Counted
                 /\ webSlots' = webSlots - 1 /\ webClients' = webClients => WebSlotsInv'
  <2> SUFFICES ASSUME webConn[c].pc \in {"slotted", "left"}, p = "gone"
               PROVE  /\ Web!Holding' = Web!Holding \ {c} /\ Web!Counted' = Web!Counted
                           /\ c \in Web!Holding \ Web!Counted
                      /\ webSlots' = webSlots - 1 /\ webClients' = webClients => WebSlotsInv'
    OBVIOUS
  <2>1. Web!Holding' = Web!Holding \ {c} /\ Web!Counted' = Web!Counted /\ c \in Web!Holding \ Web!Counted
    BY <1>2 DEF Web!Holding, Web!Counted
  <2>2. Cardinality(Web!Holding \ {c}) = Cardinality(Web!Holding) - 1
    BY <1>1, <2>1, FS_RemoveElement
  <2>3. \A s : WebOfSource(s)' = WebOfSource(s)
    BY <2>1 DEF WebOfSource
  <2> QED
    BY <1>3, <2>1, <2>2, <2>3 DEF WebSlotsInv
<1>6. webConn[c].pc = "slotted" /\ p \in {"counted", "served"} =>
                 /\ Web!Holding' = Web!Holding /\ Web!Counted' = Web!Counted \cup {c}
                      /\ c \in Web!Holding \ Web!Counted
                 /\ webSlots' = webSlots /\ webClients' = [webClients EXCEPT ![WebSources[c]] = @ + 1]
                      => WebSlotsInv'
  <2> SUFFICES ASSUME webConn[c].pc = "slotted", p \in {"counted", "served"}
               PROVE  /\ Web!Holding' = Web!Holding /\ Web!Counted' = Web!Counted \cup {c}
                           /\ c \in Web!Holding \ Web!Counted
                      /\ webSlots' = webSlots /\ webClients' = [webClients EXCEPT ![s0] = @ + 1]
                           => WebSlotsInv'
    OBVIOUS
  <2>1. Web!Holding' = Web!Holding /\ Web!Counted' = Web!Counted \cup {c} /\ c \in Web!Holding \ Web!Counted
    BY <1>2 DEF Web!Holding, Web!Counted
  <2>2. \A s : s # s0 => WebOfSource(s)' = WebOfSource(s)
    BY <2>1 DEF WebOfSource
  <2>3. WebOfSource(s0)' = WebOfSource(s0) \cup {c} /\ c \notin WebOfSource(s0)
    BY <2>1 DEF WebOfSource
  <2>4. Cardinality(WebOfSource(s0) \cup {c}) = Cardinality(WebOfSource(s0)) + 1
    BY <1>1, <2>3, FS_AddElement
  <2> QED
    BY <1>3, <2>1, <2>2, <2>3, <2>4 DEF WebSlotsInv
<1>7. webConn[c].pc = "served" /\ p = "left" =>
                 /\ Web!Holding' = Web!Holding /\ Web!Counted' = Web!Counted \ {c} /\ c \in Web!Counted
                 /\ webSlots' = webSlots /\ webClients' = [webClients EXCEPT ![WebSources[c]] = @ - 1]
                      => WebSlotsInv'
  <2> SUFFICES ASSUME webConn[c].pc = "served", p = "left"
               PROVE  /\ Web!Holding' = Web!Holding /\ Web!Counted' = Web!Counted \ {c} /\ c \in Web!Counted
                      /\ webSlots' = webSlots /\ webClients' = [webClients EXCEPT ![s0] = @ - 1]
                           => WebSlotsInv'
    OBVIOUS
  <2>1. Web!Holding' = Web!Holding /\ Web!Counted' = Web!Counted \ {c} /\ c \in Web!Counted
    BY <1>2 DEF Web!Holding, Web!Counted
  <2>2. \A s : s # s0 => WebOfSource(s)' = WebOfSource(s)
    BY <2>1 DEF WebOfSource
  <2>3. WebOfSource(s0)' = WebOfSource(s0) \ {c} /\ c \in WebOfSource(s0)
    BY <2>1 DEF WebOfSource
  <2>4. Cardinality(WebOfSource(s0) \ {c}) = Cardinality(WebOfSource(s0)) - 1
    BY <1>1, <2>3, FS_RemoveElement
  <2> QED
    BY <1>3, <2>1, <2>2, <2>3, <2>4 DEF WebSlotsInv
<1>8. (\/ webConn[c].pc \in {"new", "gone"} /\ p = "gone"
       \/ webConn[c].pc = "counted" /\ p = "served") =>
                 /\ Web!Holding' = Web!Holding /\ Web!Counted' = Web!Counted
                 /\ webSlots' = webSlots /\ webClients' = webClients => WebSlotsInv'
  <2> SUFFICES ASSUME \/ webConn[c].pc \in {"new", "gone"} /\ p = "gone"
                      \/ webConn[c].pc = "counted" /\ p = "served"
               PROVE  /\ Web!Holding' = Web!Holding /\ Web!Counted' = Web!Counted
                      /\ webSlots' = webSlots /\ webClients' = webClients => WebSlotsInv'
    OBVIOUS
  <2>1. Web!Holding' = Web!Holding /\ Web!Counted' = Web!Counted
    BY <1>2 DEF Web!Holding, Web!Counted
  <2>2. \A s : WebOfSource(s)' = WebOfSource(s)
    BY <2>1 DEF WebOfSource
  <2> QED
    BY <1>3, <2>1, <2>2 DEF WebSlotsInv
<1> HIDE DEF s0
<1> QED
  BY <1>4, <1>5, <1>6, <1>7, <1>8

\* What Close relies on, when one connection moves.
LEMMA CloseMoves ==
  ASSUME CloseInv, NEW c \in WebConns, NEW p, NEW o \in BOOLEAN, Becomes(c, p, o),
         UNCHANGED <<doomed, closers>>, owner'.closed = owner.closed,
         owner.conns \ {c} \subseteq owner'.conns,
         o => p \in {"slotted", "counted", "served"},
         o /\ p = "served" /\ WebKinds[c] = "h2" => c \in owner'.conns /\ closers.h2 = "idle",
         o /\ WebKinds[c] = "h3" => closers.h3 # "done"
  PROVE  CloseInv'
<1>1. /\ \A d \in WebConns : d # c => webConn'[d] = webConn[d]
      /\ webConn'[c].pc = p /\ webConn'[c].open = o
  BY DEF Becomes
<1>2. \A d \in WebConns : d # c => (Served(d)' <=> Served(d))
  BY <1>1 DEF Served
<1>3. Served(c)' <=> o /\ p = "served" /\ WebKinds[c] = "h2"
  BY <1>1 DEF Served
<1>4. /\ \A d \in WebConns : d # c
           => (webConn[d].open => webConn[d].pc \in {"slotted", "counted", "served"})
      /\ \A d \in WebConns : Served(d) => d \in owner.conns
      /\ closers.h2 # "idle" => owner.closed
      /\ closers.h2 = "owner" => \A d \in WebConns : Served(d) => d \in doomed
      /\ closers.h2 \in {"owned", "done"} => \A d \in WebConns : ~Served(d)
      /\ closers.h3 = "done" => \A d \in WebConns : WebKinds[d] = "h3" => ~webConn[d].open
      /\ closers.web \in {"h2", "done"} => closers.h3 = "done"
      /\ closers.web = "done" => closers.h2 = "done"
  BY DEF CloseInv
<1>5. \A d \in WebConns : webConn'[d].open => webConn'[d].pc \in {"slotted", "counted", "served"}
  BY <1>1, <1>4
<1>6. \A d \in WebConns : Served(d)' => d \in owner'.conns
  BY <1>2, <1>3, <1>4
<1>7. closers.h3 = "done" => \A d \in WebConns : WebKinds[d] = "h3" => ~webConn'[d].open
  BY <1>1, <1>4
<1>8. /\ closers.h2 = "owner" => \A d \in WebConns : Served(d)' => d \in doomed
      /\ closers.h2 \in {"owned", "done"} => \A d \in WebConns : ~Served(d)'
  BY <1>2, <1>3, <1>4
<1> QED
  BY <1>4, <1>5, <1>6, <1>7, <1>8 DEF CloseInv

\* A step of the pool of slots.
Admits == [Web!Slots!Next]_(Web!Slots!poolVars)

\* SlotPool counts with its own instance of FiniteSets.
LEMMA WebSameCount == \A S : Web!Slots!Cardinality(S) = Cardinality(S)
BY DEF Web!Slots!Cardinality, Cardinality

\* Nothing that SlotPool sees is changed.
LEMMA PoolStutters ==
  ASSUME UNCHANGED <<Web!Holding, Web!Counted>>
  PROVE  Admits
BY DEF Admits, Web!Slots!poolVars

\* Each step of admission, as one of SlotPool.
LEMMA PoolSteps ==
  ASSUME WebSlotsInv, NEW c \in WebConns
  PROVE  /\ c \notin Web!Holding /\ Web!HasSlot /\ Web!Holding' = Web!Holding \cup {c}
              /\ Web!Counted' = Web!Counted => Admits
         /\ c \in Web!Holding \ Web!Counted /\ Web!HasShare(c) /\ Web!Holding' = Web!Holding
              /\ Web!Counted' = Web!Counted \cup {c} => Admits
         /\ c \in Web!Counted /\ Web!Holding' = Web!Holding /\ Web!Counted' = Web!Counted \ {c} => Admits
         /\ c \in Web!Holding \ Web!Counted /\ Web!Holding' = Web!Holding \ {c}
              /\ Web!Counted' = Web!Counted => Admits
<1> DEFINE P == [d \in WebConns |-> "web"]
           limit == [slots |-> [p \in {"web"} |-> MaxConnections],
                     shares |-> [p \in {"web"} |-> MaxClientConnections]]
<1>1. /\ {d \in Web!Holding : P[d] = P[c]} = Web!Holding
      /\ {d \in Web!Counted : Web!ShareOf(d) = Web!ShareOf(c)} = WebOfSource(WebSources[c])
      /\ P[c] = "web" /\ Web!ShareOf(c)[1] = "web"
  BY DEF Web!Holding, Web!Counted, Web!ShareOf, WebOfSource
<1>2. /\ limit.slots["web"] = MaxConnections
      /\ limit.shares["web"] = MaxClientConnections
  OBVIOUS
<1>3. webSlots = Cardinality(Web!Holding)
        /\ webClients[WebSources[c]] = Cardinality(WebOfSource(WebSources[c]))
  BY DEF WebSlotsInv, Web!Sources
<1>4. c \notin Web!Holding /\ Web!HasSlot /\ Web!Holding' = Web!Holding \cup {c}
        /\ Web!Counted' = Web!Counted => Web!Slots!Take(c)
  BY <1>1, <1>2, <1>3, WebSameCount DEF Web!Slots!Take, Web!HasSlot
<1>5. c \in Web!Holding \ Web!Counted /\ Web!HasShare(c) /\ Web!Holding' = Web!Holding
              /\ Web!Counted' = Web!Counted \cup {c} => Web!Slots!Admit(c)
  BY <1>1, <1>2, <1>3, WebSameCount DEF Web!Slots!Admit, Web!HasShare
<1>6. c \in Web!Counted /\ Web!Holding' = Web!Holding /\ Web!Counted' = Web!Counted \ {c}
        => Web!Slots!Leave(c)
  BY DEF Web!Slots!Leave
<1>7. c \in Web!Holding \ Web!Counted /\ Web!Holding' = Web!Holding \ {c} /\ Web!Counted' = Web!Counted
        => Web!Slots!Give(c)
  BY DEF Web!Slots!Give
<1> QED
  BY <1>4, <1>5, <1>6, <1>7 DEF Admits, Web!Slots!Next

\* Admission and the end of a connection.
LEMMA WebAdmissionStep ==
  ASSUME WebAssumption, WebIInv, NEW c \in WebConns,
         Web!TakeSlot(c) \/ Web!RefuseFull(c) \/ Web!Ends(c) \/ Web!Admission(c)
  PROVE  WebIInv' /\ Admits
<1>1. /\ webConn \in [WebConns -> Socket] /\ webConn[c] \in Socket /\ owner.conns \subseteq WebConns
      /\ WebTypeInv /\ BootInv /\ CloseInv /\ WebSlotsInv /\ LeaderInv
  BY DEF WebIInv, WebTypeInv
<1>2. UNCHANGED <<boot, gate, request, doomed, closers>>
  BY DEF Web!TakeSlot, Web!RefuseFull, Web!Ends, Web!Admission, Web!RefuseSource, Web!Count,
       Web!Register, Web!Leave, Web!Give,
         Web!listenVars, Web!requestVars
<1>3. BootInv' /\ LeaderInv'
  BY <1>1, <1>2 DEF BootInv, LeaderInv
<1>4. ASSUME webConn' \in [WebConns -> Socket], owner'.conns \subseteq WebConns
      PROVE  WebTypeInv'
  BY <1>1, <1>2, <1>4 DEF WebTypeInv
<1>5. webConn[c].open \in BOOLEAN /\ (WebKinds[c] = "h3" /\ webConn[c].open => closers.h3 # "done")
      /\ WebKinds[c] \in {"h2", "h3"}
  BY <1>1 DEF CloseInv, Socket, WebAssumption, Web!Sides
<1>6. CASE Web!TakeSlot(c)
  <2>1. Becomes(c, "slotted", TRUE) /\ webConn[c].pc = "new" /\ Web!HasSlot /\ UNCHANGED owner
    BY <1>1, <1>6, SetBecomes DEF Web!TakeSlot, Web!listenVars
  <2>2. WebKinds[c] = "h3" => closers.h3 # "done"
    BY <1>6 DEF Web!TakeSlot, Web!Listening
  <2>3. CloseInv'
    BY <1>1, <1>2, <2>1, <2>2, CloseMoves
  <2>4. WebSlotsInv' /\ Web!Holding' = Web!Holding \cup {c} /\ Web!Counted' = Web!Counted
          /\ c \notin Web!Holding
    BY <1>1, <1>6, <2>1, SlotsMove DEF Web!TakeSlot
  <2>5. Admits
    BY <1>1, <2>1, <2>4, PoolSteps
  <2> QED
    BY <1>1, <1>3, <1>4, <2>1, <2>3, <2>4, <2>5 DEF WebIInv, Becomes
<1>7. CASE Web!RefuseFull(c)
  <2>1. Becomes(c, "gone", FALSE) /\ webConn[c].pc = "new" /\ UNCHANGED <<owner, webSlots, webClients>>
    BY <1>1, <1>7, SetBecomes DEF Web!RefuseFull, Web!listenVars, Web!slotVars, Web!Gone
  <2>3. CloseInv'
    BY <1>1, <1>2, <2>1, CloseMoves
  <2>4. WebSlotsInv' /\ Web!Holding' = Web!Holding /\ Web!Counted' = Web!Counted
    BY <1>1, <2>1, SlotsMove
  <2>5. Admits
    BY <2>4, PoolStutters
  <2> QED
    BY <1>1, <1>3, <1>4, <2>1, <2>3, <2>4, <2>5 DEF WebIInv, Becomes
<1>8. CASE Web!RefuseSource(c)
  <2>1. Becomes(c, "gone", FALSE) /\ webConn[c].pc = "slotted" /\ UNCHANGED <<owner, webClients>>
        /\ webSlots' = webSlots - 1
    BY <1>1, <1>8, SetBecomes DEF Web!RefuseSource, Web!listenVars, Web!Gone
  <2>3. CloseInv'
    BY <1>1, <1>2, <2>1, CloseMoves
  <2>4. WebSlotsInv' /\ Web!Holding' = Web!Holding \ {c} /\ Web!Counted' = Web!Counted
          /\ c \in Web!Holding \ Web!Counted
    BY <1>1, <2>1, SlotsMove
  <2>5. Admits
    BY <1>1, <2>4, PoolSteps
  <2> QED
    BY <1>1, <1>3, <1>4, <2>1, <2>3, <2>4, <2>5 DEF WebIInv, Becomes
<1>9. CASE Web!Count(c)
  <2> DEFINE p == IF WebKinds[c] = "h2" THEN "counted" ELSE "served"
  <2>0. p \in {"counted", "served"} /\ (p = "served" => WebKinds[c] # "h2")
    OBVIOUS
  <2>1. Becomes(c, p, webConn[c].open) /\ webConn[c].pc = "slotted" /\ Web!HasShare(c)
          /\ UNCHANGED <<owner, webSlots>>
        /\ webClients' = [webClients EXCEPT ![WebSources[c]] = @ + 1]
    BY <1>1, <1>9, <2>0, MoveBecomes DEF Web!Count, Web!listenVars
  <2> HIDE DEF p
  <2>3. CloseInv'
    BY <1>1, <1>2, <1>5, <2>0, <2>1, CloseMoves
  <2>4. WebSlotsInv' /\ Web!Holding' = Web!Holding /\ Web!Counted' = Web!Counted \cup {c}
          /\ c \in Web!Holding \ Web!Counted
    BY <1>1, <2>0, <2>1, SlotsMove
  <2>5. Admits
    BY <1>1, <2>1, <2>4, PoolSteps
  <2> QED
    BY <1>1, <1>3, <1>4, <2>1, <2>3, <2>4, <2>5 DEF WebIInv, Becomes
<1>10. CASE Web!Register(c)
  <2>1. /\ webConn[c].pc = "counted" /\ UNCHANGED <<webSlots, webClients>>
    BY <1>10 DEF Web!Register, Web!slotVars
  <2>2. PICK o \in BOOLEAN :
          /\ Becomes(c, "served", o)
          /\ owner'.closed = owner.closed /\ owner'.conns \subseteq WebConns
          /\ owner.conns \ {c} \subseteq owner'.conns
          /\ o => webConn[c].open /\ ~owner.closed /\ c \in owner'.conns
    <3>1. CASE Web!MayRegister
      <4>1. Becomes(c, "served", webConn[c].open) /\ owner' = [owner EXCEPT !.conns = @ \cup {c}]
            /\ ~owner.closed
        BY <1>1, <1>10, <3>1, MoveBecomes DEF Web!Register, Web!MayRegister
      <4>2. owner'.closed = owner.closed /\ owner'.conns = owner.conns \cup {c}
        BY <1>1, <1>10, <4>1
      <4> QED
        BY <1>1, <1>5, <4>1, <4>2
    <3>2. CASE ~Web!MayRegister
      <4>1. Becomes(c, "served", FALSE) /\ UNCHANGED owner
        BY <1>1, <1>10, <3>2, SetBecomes DEF Web!Register
      <4> QED
        BY <1>1, <4>1
    <3> QED
      BY <3>1, <3>2
  <2>3. closers.h2 # "idle" => owner.closed
    BY <1>1 DEF CloseInv
  <2>4. CloseInv'
    BY <1>1, <1>2, <1>5, <2>2, <2>3, CloseMoves
  <2>5. WebSlotsInv' /\ Web!Holding' = Web!Holding /\ Web!Counted' = Web!Counted
    BY <1>1, <2>1, <2>2, SlotsMove
  <2>6. Admits
    BY <2>5, PoolStutters
  <2> QED
    BY <1>1, <1>3, <1>4, <2>2, <2>4, <2>5, <2>6 DEF WebIInv, Becomes
<1>11. CASE Web!Ends(c)
  <2>1. Quiets /\ UNCHANGED <<owner, Web!slotVars>>
    BY <1>1, <1>11, EndsQuietly DEF Web!Ends, Web!listenVars
  <2>2. CloseInv' /\ WebSlotsInv' /\ UNCHANGED <<Web!Holding, Web!Counted>>
    BY <1>1, <1>2, <2>1, CloseStays, SlotsStay
  <2>3. Admits
    BY <2>2, PoolStutters
  <2> QED
    BY <1>1, <1>3, <1>4, <2>1, <2>2, <2>3 DEF WebIInv, Quiets
<1>12. CASE Web!Leave(c)
  <2>1. Becomes(c, "left", FALSE) /\ webConn[c].pc = "served" /\ UNCHANGED <<owner, webSlots>>
        /\ webClients' = [webClients EXCEPT ![WebSources[c]] = @ - 1]
    <3>1. webConn[c].open = FALSE
      BY <1>5, <1>12 DEF Web!Leave
    <3> QED
      BY <1>1, <1>12, <3>1, MoveBecomes DEF Web!Leave, Web!listenVars
  <2>3. CloseInv'
    BY <1>1, <1>2, <2>1, CloseMoves
  <2>4. WebSlotsInv' /\ Web!Holding' = Web!Holding /\ Web!Counted' = Web!Counted \ {c} /\ c \in Web!Counted
    BY <1>1, <2>1, SlotsMove
  <2>5. Admits
    BY <1>1, <2>4, PoolSteps
  <2> QED
    BY <1>1, <1>3, <1>4, <2>1, <2>3, <2>4, <2>5 DEF WebIInv, Becomes
<1>13. CASE Web!Give(c)
  <2>1. Becomes(c, "gone", webConn[c].open) /\ webConn[c].pc = "left" /\ UNCHANGED webClients
        /\ webSlots' = webSlots - 1 /\ owner' = [owner EXCEPT !.conns = @ \ {c}]
    BY <1>1, <1>13, MoveBecomes DEF Web!Give
  <2>2. webConn[c].open = FALSE
    BY <1>1, <1>5, <2>1 DEF CloseInv
  <2>3. owner'.closed = owner.closed /\ owner.conns \ {c} \subseteq owner'.conns
          /\ owner'.conns \subseteq WebConns
    BY <1>1, <2>1 DEF WebTypeInv
  <2>4. CloseInv'
    BY <1>1, <1>2, <2>1, <2>2, <2>3, CloseMoves
  <2>5. WebSlotsInv' /\ Web!Holding' = Web!Holding \ {c} /\ Web!Counted' = Web!Counted
          /\ c \in Web!Holding \ Web!Counted
    BY <1>1, <2>1, SlotsMove
  <2>6. Admits
    BY <1>1, <2>5, PoolSteps
  <2> QED
    BY <1>1, <1>3, <1>4, <2>1, <2>3, <2>4, <2>5, <2>6 DEF WebIInv, Becomes
<1> QED
  BY <1>6, <1>7, <1>8, <1>9, <1>10, <1>11, <1>12, <1>13 DEF Web!Admission
-----------------------------------------------------------------------------
(* ListenWeb, Serve and Close. *)

\* ListenWeb binds TCP first; a failure of UDP takes TCP down again.
LEMMA BootStep ==
  ASSUME WebIInv, Web!BindTCP \/ Web!BindUDP \/ Web!UDPFails
  PROVE  WebIInv' /\ Admits
<1>1. WebTypeInv /\ BootInv /\ CloseInv /\ WebSlotsInv /\ LeaderInv
  BY DEF WebIInv
<1>2. UNCHANGED <<webSlots, webClients, webConn, owner, doomed, closers, gate, request>>
  BY DEF Web!BindTCP, Web!BindUDP, Web!UDPFails, Web!booting, Web!slotVars, Web!requestVars
<1>3. boot \in BootRecord
  BY <1>1 DEF WebTypeInv
<1>4. boot' \in BootRecord /\ BootInv'
  <2> USE DEF BootRecord
  <2>1. CASE Web!BindTCP
    BY <1>1, <1>3, <2>1 DEF Web!BindTCP, BootInv
  <2>2. CASE Web!BindUDP
    <3>1. boot' = [boot EXCEPT !.step = "up", !.udp = TRUE, !.attempt = 1, !.fixed = TRUE]
          /\ boot.step = "udp"
      BY <2>2 DEF Web!BindUDP
    <3>2. boot'.step = "up" /\ boot'.udp /\ (boot'.tcp <=> boot.tcp)
      BY <1>3, <3>1
    <3>3. boot' \in BootRecord
      <4>1. ASSUME NEW n \in Int
            PROVE  [boot EXCEPT !.step = "up", !.udp = TRUE, !.attempt = n, !.fixed = TRUE] \in BootRecord
        BY <1>3
      <4>2. 1 \in Int
        OBVIOUS
      <4> QED
        BY <3>1, <4>1, <4>2, Zenon
    <3> HIDE DEF BootRecord
    <3>4. boot.tcp
      BY <1>1, <3>1 DEF BootInv
    <3> QED
      BY <3>2, <3>3, <3>4 DEF BootInv
  <2>3. CASE Web!UDPFails
    <3>1. PICK inUse \in BOOLEAN : Web!AfterUDPFailure(inUse)
      BY <2>3 DEF Web!UDPFails
    <3> DEFINE again == inUse /\ ~boot.fixed /\ boot.attempt < Attempts
    <3>2. boot' = [boot EXCEPT !.tcp = FALSE, !.step = IF again THEN "tcp" ELSE "failed",
                               !.attempt = IF again THEN @ + 1 ELSE @]
      BY <3>1 DEF Web!AfterUDPFailure
    <3>3. boot.step = "udp"
      BY <2>3 DEF Web!UDPFails
    <3> HIDE DEF again
    <3>4. CASE again
      <4>1. boot' = [boot EXCEPT !.tcp = FALSE, !.step = "tcp", !.attempt = boot.attempt + 1]
        BY <3>2, <3>4
      <4>2. boot'.step = "tcp" /\ (boot'.udp <=> boot.udp) /\ ~boot'.tcp
        BY <1>3, <4>1
      <4>3. boot' \in BootRecord
        <5>1. boot.attempt + 1 \in Int
          BY <1>3
        <5>2. ASSUME NEW n \in Int
              PROVE  [boot EXCEPT !.tcp = FALSE, !.step = "tcp", !.attempt = n] \in BootRecord
          BY <1>3
        <5> QED
          BY <4>1, <5>1, <5>2
      <4> HIDE DEF BootRecord
      <4>4. ~boot.udp
        BY <1>1, <3>3 DEF BootInv
      <4> QED
        BY <4>2, <4>3, <4>4 DEF BootInv
    <3>5. CASE ~again
      <4>1. boot' = [boot EXCEPT !.tcp = FALSE, !.step = "failed", !.attempt = boot.attempt]
        BY <3>2, <3>5
      <4>2. boot'.step = "failed" /\ (boot'.udp <=> boot.udp) /\ ~boot'.tcp
        BY <1>3, <4>1
      <4>3. boot' \in BootRecord
        BY <1>3, <4>1
      <4> HIDE DEF BootRecord
      <4>4. ~boot.udp
        BY <1>1, <3>3 DEF BootInv
      <4> QED
        BY <4>2, <4>3, <4>4 DEF BootInv
    <3> QED
      BY <3>4, <3>5
  <2> QED
    BY <2>1, <2>2, <2>3
<1>5. WebTypeInv'
  BY <1>1, <1>2, <1>4 DEF WebTypeInv
<1>6. CloseInv' /\ LeaderInv'
  BY <1>1, <1>2 DEF CloseInv, Served, LeaderInv
<1>7. UNCHANGED <<Web!Holding, Web!Counted>>
  BY <1>2 DEF Web!Holding, Web!Counted
<1>8. WebSlotsInv'
  BY <1>1, <1>2 DEF WebSlotsInv, Web!Holding, Web!Counted, WebOfSource
<1>9. Admits
  BY <1>7, PoolStutters
<1> QED
  BY <1>4, <1>5, <1>6, <1>8, <1>9 DEF WebIInv

\* A step of Close that closes nothing itself.
LEMMA Advances ==
  ASSUME WebTypeInv, CloseInv, NEW body \in {"h2", "h3", "web"},
         NEW to \in {"idle", "owner", "owned", "h3", "h2", "done"},
         Web!Advance(body, to), UNCHANGED <<webConn, owner, doomed>>,
         body = "h2" => closers.h2 = "owned" /\ to = "done",
         body = "h3" => FALSE,
         body = "web" => \/ to = "h3" /\ closers.web = "idle"
                         \/ to = "h2" /\ closers.h3 = "done" /\ closers.web = "h3"
                         \/ to = "done" /\ closers.h2 = "done" /\ closers.web = "h2"
  PROVE  closers' \in CloserRecord /\ CloseInv'
<1>1. closers \in CloserRecord
  BY DEF WebTypeInv
<1> USE DEF CloserRecord
<1>2. CASE body = "h2"
  <2>1. closers' = [closers EXCEPT !.h2 = "done"]
    BY <1>2 DEF Web!Advance
  <2> QED
    BY <1>1, <1>2, <2>1 DEF CloseInv, Served
<1>3. CASE body = "web"
  <2>1. closers' = [closers EXCEPT !.web = to]
    BY <1>3 DEF Web!Advance
  <2> QED
    BY <1>1, <1>3, <2>1 DEF CloseInv, Served
<1> QED
  BY <1>2, <1>3

\* The steps of Serve, of both listeners, and of Close.
LEMMA LifeStep ==
  ASSUME WebAssumption, WebIInv,
         Web!Cancel \/ Web!CloseWeb \/ (\E k \in Web!Sides : Web!ListenerFails(k)) \/ Web!Lifecycle
  PROVE  WebIInv' /\ Admits
<1>1. WebTypeInv /\ BootInv /\ CloseInv /\ WebSlotsInv /\ LeaderInv
  BY DEF WebIInv
<1>2. UNCHANGED <<boot, Web!slotVars, gate, request>>
  BY DEF Web!Cancel, Web!CloseWeb, Web!ListenerFails, Web!Lifecycle, Web!CloseH3, Web!CloseOwner,
       Web!CloseOwned, Web!CloseListener,
         Web!CloseWebNext, Web!SideReturns, Web!ServeCloses, Web!ServeReturns, Web!lifeOnly, Web!requestVars
<1>3. BootInv' /\ LeaderInv'
  BY <1>1, <1>2 DEF BootInv, LeaderInv
<1>4. ASSUME Quiets, owner'.conns = owner.conns, closers' \in CloserRecord, CloseInv'
      PROVE  WebIInv' /\ Admits
  <2>1. WebSlotsInv' /\ UNCHANGED <<Web!Holding, Web!Counted>>
    BY <1>1, <1>2, <1>4, SlotsStay
  <2>2. WebTypeInv'
    BY <1>1, <1>2, <1>4 DEF WebTypeInv, Quiets
  <2> QED
    BY <1>3, <1>4, <2>1, <2>2, PoolStutters DEF WebIInv
<1>5. UNCHANGED webConn => Quiets
  BY <1>1 DEF Quiets, WebTypeInv
<1>6. closers \in CloserRecord /\ webConn \in [WebConns -> Socket]
  BY <1>1 DEF WebTypeInv
<1>7. CASE UNCHANGED <<webConn, owner, doomed, closers>>
  BY <1>1, <1>4, <1>5, <1>6, <1>7, CloseStays
<1>8. ASSUME NEW body \in {"h2", "web"}, NEW to \in {"idle", "owner", "owned", "h3", "h2", "done"},
             Web!Advance(body, to), UNCHANGED <<webConn, owner, doomed>>,
             body = "h2" => closers.h2 = "owned" /\ to = "done",
             body = "web" => \/ to = "h3" /\ closers.web = "idle"
                             \/ to = "h2" /\ closers.h3 = "done" /\ closers.web = "h3"
                             \/ to = "done" /\ closers.h2 = "done" /\ closers.web = "h2"
      PROVE  WebIInv' /\ Admits
  <2>1. closers' \in CloserRecord /\ CloseInv'
    BY <1>1, <1>8, Advances
  <2> QED
    BY <1>4, <1>5, <1>8, <2>1
<1>9. CASE Web!CloseListener \/ Web!CloseWeb \/ Web!CloseWebNext
  BY <1>8, <1>9 DEF Web!CloseListener, Web!CloseWeb, Web!CloseWebNext
<1>10. CASE Web!ServeCloses
  <2>1. CASE closers.web = "idle"
    <3>1. Web!Advance("web", "h3") /\ UNCHANGED <<webConn, owner, doomed>>
      BY <1>10, <2>1 DEF Web!ServeCloses, Web!Advance
    <3> QED
      BY <1>8, <2>1, <3>1
  <2>2. CASE closers.web # "idle"
    <3>1. UNCHANGED <<webConn, owner, doomed, closers>>
      BY <1>6, <1>10, <2>2 DEF Web!ServeCloses, CloserRecord
    <3> QED
      BY <1>7, <3>1
  <2> QED
    BY <2>1, <2>2
<1>11. CASE Web!CloseH3
  <2>1. /\ closers' = [closers EXCEPT !.h3 = "done"] /\ UNCHANGED <<owner, doomed>>
        /\ webConn' = [c \in WebConns |-> IF WebKinds[c] = "h3" THEN [webConn[c] EXCEPT !.open = FALSE] ELSE webConn[c]]
    BY <1>11 DEF Web!CloseH3, Web!Advance
  <2> DEFINE S == {c \in WebConns : WebKinds[c] = "h3"}
  <2>2. webConn' = [c \in WebConns |-> IF c \in S THEN [webConn[c] EXCEPT !.open = FALSE] ELSE webConn[c]]
    BY <2>1
  <2>3. Quiets /\ \A c \in WebConns : c \in S => ~webConn'[c].open
    BY <1>1, <2>2, ClosesQuietly
  <2>4. /\ closers' \in CloserRecord /\ closers'.h3 = "done"
        /\ closers'.h2 = closers.h2 /\ closers'.web = closers.web
    BY <1>6, <2>1 DEF CloserRecord
  <2>5. CloseInv'
    BY <1>1, <2>1, <2>3, <2>4 DEF CloseInv, Quiets, Served
  <2> QED
    BY <1>4, <2>1, <2>3, <2>4, <2>5
<1>12. CASE Web!CloseOwner
  <2>1. /\ closers' = [closers EXCEPT !.h2 = "owner"] /\ doomed' = owner.conns
        /\ owner' = [owner EXCEPT !.closed = TRUE] /\ UNCHANGED webConn
        /\ closers.h2 = "idle"
    BY <1>12 DEF Web!CloseOwner, Web!Advance
  <2>2. /\ closers' \in CloserRecord /\ closers'.h2 = "owner"
        /\ closers'.h3 = closers.h3 /\ closers'.web = closers.web
    BY <1>6, <2>1 DEF CloserRecord
  <2>3. owner'.conns = owner.conns
    BY <2>1
  <2>4. owner'.closed
    BY <2>1 DEF WebTypeInv
  <2>5. CloseInv'
    BY <1>1, <2>1, <2>2, <2>3, <2>4 DEF CloseInv, Served
  <2> QED
    BY <1>4, <1>5, <2>1, <2>2, <2>3, <2>5
<1>13. CASE Web!CloseOwned
  <2>1. /\ closers' = [closers EXCEPT !.h2 = "owned"] /\ UNCHANGED owner
        /\ webConn' = [c \in WebConns |-> IF c \in doomed THEN [webConn[c] EXCEPT !.open = FALSE] ELSE webConn[c]]
        /\ closers.h2 = "owner"
    BY <1>13 DEF Web!CloseOwned, Web!Advance
  <2>2. /\ closers' \in CloserRecord /\ closers'.h2 = "owned"
        /\ closers'.h3 = closers.h3 /\ closers'.web = closers.web
    BY <1>6, <2>1 DEF CloserRecord
  <2>3. Quiets /\ \A c \in WebConns : c \in doomed => ~webConn'[c].open
    BY <1>1, <2>1, ClosesQuietly
  <2>4. \A c \in WebConns : ~Served(c)'
    BY <1>1, <2>1, <2>3 DEF CloseInv, Quiets, Served
  <2>5. CloseInv'
    BY <1>1, <2>1, <2>2, <2>3, <2>4 DEF CloseInv, Quiets, Served
  <2> QED
    BY <1>4, <2>1, <2>2, <2>3, <2>5
<1> QED
  BY <1>7, <1>9, <1>10, <1>11, <1>12, <1>13
     DEF Web!Cancel, Web!ListenerFails, Web!Lifecycle, Web!SideReturns, Web!ServeReturns
-----------------------------------------------------------------------------
(* Handlers. *)

\* What a handler does to its request and its gate: it begins to lead, leads
\* on, ends its lead and opens or shuts the gate, or leads neither before nor
\* after and at most shuts it.
LEMMA LeaderKept ==
  ASSUME WebAssumption, WebTypeInv, LeaderInv, NEW r \in WebRequests,
         NEW q \in RequestRecord, NEW g \in GateRecord,
         request' = [request EXCEPT ![r] = q], gate' = [gate EXCEPT ![WebOwners[r]] = g],
         \/ /\ q.pc \in Leading /\ request[r].pc \in Leading
            /\ g.phase = gate[WebOwners[r]].phase
         \/ /\ q.pc \in Leading /\ request[r].pc \notin Leading
            /\ gate[WebOwners[r]].phase = "fresh" /\ g.phase = "bootstrapping"
         \/ /\ q.pc \notin Leading /\ request[r].pc \in Leading
            /\ g.phase # "bootstrapping"
         \/ /\ q.pc \notin Leading /\ request[r].pc \notin Leading
            /\ g.phase = gate[WebOwners[r]].phase
  PROVE  /\ request' \in [WebRequests -> RequestRecord] /\ gate' \in [WebConns -> GateRecord]
         /\ LeaderInv'
<1>1. /\ request \in [WebRequests -> RequestRecord] /\ gate \in [WebConns -> GateRecord]
      /\ WebOwners[r] \in WebConns /\ \A x \in WebRequests : WebOwners[x] \in WebConns
  BY DEF WebTypeInv, WebAssumption
<1>2. /\ request' \in [WebRequests -> RequestRecord] /\ gate' \in [WebConns -> GateRecord]
      /\ request'[r] = q /\ \A x \in WebRequests : x # r => request'[x] = request[x]
      /\ gate'[WebOwners[r]] = g /\ \A c \in WebConns : c # WebOwners[r] => gate'[c] = gate[c]
  BY <1>1
<1>3. /\ \A x, y \in WebRequests :
           request[x].pc \in Leading /\ request[y].pc \in Leading /\ WebOwners[x] = WebOwners[y] => x = y
      /\ \A x \in WebRequests : request[x].pc \in Leading =>
           gate[WebOwners[x]].phase \in {"bootstrapping", "closed"}
      /\ \A c \in WebConns : gate[c].phase = "bootstrapping" =>
           \E x \in WebRequests : WebOwners[x] = c /\ request[x].pc \in Leading
  BY DEF LeaderInv
<1>4. \A x \in WebRequests : x # r /\ WebOwners[x] = WebOwners[r] /\ q.pc \in Leading
        => request[x].pc \notin Leading
  BY <1>3
<1>5. \A x, y \in WebRequests :
        request'[x].pc \in Leading /\ request'[y].pc \in Leading /\ WebOwners[x] = WebOwners[y] => x = y
  BY <1>2, <1>3, <1>4
<1>6. \A x \in WebRequests : request'[x].pc \in Leading =>
        gate'[WebOwners[x]].phase \in {"bootstrapping", "closed"}
  <2> SUFFICES ASSUME NEW x \in WebRequests, request'[x].pc \in Leading
               PROVE  gate'[WebOwners[x]].phase \in {"bootstrapping", "closed"}
    OBVIOUS
  <2>1. CASE x = r
    BY <1>2, <1>3, <2>1
  <2>2. CASE x # r /\ WebOwners[x] = WebOwners[r]
    BY <1>2, <1>3, <2>2
  <2>3. CASE WebOwners[x] # WebOwners[r]
    BY <1>1, <1>2, <1>3, <2>3
  <2> QED
    BY <2>1, <2>2, <2>3
<1>7. \A c \in WebConns : gate'[c].phase = "bootstrapping" =>
        \E x \in WebRequests : WebOwners[x] = c /\ request'[x].pc \in Leading
  <2> SUFFICES ASSUME NEW c \in WebConns, gate'[c].phase = "bootstrapping"
               PROVE  \E x \in WebRequests : WebOwners[x] = c /\ request'[x].pc \in Leading
    OBVIOUS
  <2>1. CASE c = WebOwners[r] /\ q.pc \in Leading
    BY <1>2, <2>1
  <2>2. CASE c = WebOwners[r] /\ q.pc \notin Leading
    <3>1. request[r].pc \notin Leading /\ gate[c].phase = "bootstrapping"
      BY <1>2, <2>2
    <3>2. PICK x \in WebRequests : WebOwners[x] = c /\ request[x].pc \in Leading
      BY <1>3, <3>1
    <3> QED
      BY <1>2, <3>1, <3>2
  <2>3. CASE c # WebOwners[r]
    <3>1. PICK x \in WebRequests : WebOwners[x] = c /\ request[x].pc \in Leading
      BY <1>2, <1>3, <2>3
    <3> QED
      BY <1>2, <2>3, <3>1
  <2> QED
    BY <2>1, <2>2, <2>3
<1> QED
  BY <1>2, <1>5, <1>6, <1>7 DEF LeaderInv

\* So much is enough for a handler's step.
LEMMA HandlerKept ==
  ASSUME WebAssumption, WebIInv, NEW r \in WebRequests,
         NEW q \in RequestRecord, NEW g \in GateRecord,
         request' = [request EXCEPT ![r] = q], gate' = [gate EXCEPT ![WebOwners[r]] = g],
         Quiets, UNCHANGED Web!handlerOnly,
         \/ /\ q.pc \in Leading /\ request[r].pc \in Leading
            /\ g.phase = gate[WebOwners[r]].phase
         \/ /\ q.pc \in Leading /\ request[r].pc \notin Leading
            /\ gate[WebOwners[r]].phase = "fresh" /\ g.phase = "bootstrapping"
         \/ /\ q.pc \notin Leading /\ request[r].pc \in Leading
            /\ g.phase # "bootstrapping"
         \/ /\ q.pc \notin Leading /\ request[r].pc \notin Leading
            /\ g.phase = gate[WebOwners[r]].phase
  PROVE  WebIInv' /\ Admits
<1>1. WebTypeInv /\ BootInv /\ CloseInv /\ WebSlotsInv /\ LeaderInv
  BY DEF WebIInv
<1>2. UNCHANGED <<boot, owner, doomed, closers>> /\ UNCHANGED Web!slotVars
  BY DEF Web!handlerOnly, Web!listenVars
<1>3. /\ request' \in [WebRequests -> RequestRecord] /\ gate' \in [WebConns -> GateRecord]
      /\ LeaderInv'
  BY <1>1, LeaderKept
<1>4. WebTypeInv'
  BY <1>1, <1>2, <1>3 DEF WebTypeInv, Quiets
<1>5. BootInv'
  BY <1>1, <1>2 DEF BootInv
<1>6. CloseInv' /\ WebSlotsInv' /\ UNCHANGED <<Web!Holding, Web!Counted>>
  BY <1>1, <1>2, CloseStays, SlotsStay
<1> QED
  BY <1>3, <1>4, <1>5, <1>6, PoolStutters DEF WebIInv

\* To, with the types.
LEMMA Arrives ==
  ASSUME WebTypeInv, NEW r \in WebRequests, NEW p, Web!To(r, p),
         p \in Leading \cup {"idle", "absent", "fresh", "join", "session", "waiting", "ticket",
                             "dial", "answer", "relay", "done"}
  PROVE  \E q \in RequestRecord : q.pc = p /\ request' = [request EXCEPT ![r] = q]
<1> DEFINE q0 == [request[r] EXCEPT !.pc = p]
<1>1. request \in [WebRequests -> RequestRecord] /\ request[r] \in RequestRecord
  BY DEF WebTypeInv
<1>2. q0 \in RequestRecord /\ q0.pc = p
  BY <1>1 DEF RequestRecord
<1>3. request' = [request EXCEPT ![r] = q0]
  BY DEF Web!To
<1> QED
  BY <1>2, <1>3

\* Every step of a handler.
LEMMA HandlerStep ==
  ASSUME WebAssumption, WebIInv, NEW r \in WebRequests,
         Web!Arrive(r) \/ Web!Handler(r) \/ Web!GivesUp(r) \/ Web!RelayEnds(r)
  PROVE  WebIInv' /\ Admits
<1> DEFINE k == WebOwners[r]
           After == {"idle", "absent", "fresh", "join", "session", "waiting", "ticket",
                     "dial", "answer", "relay", "done"}
<1>1. /\ WebTypeInv /\ LeaderInv /\ request \in [WebRequests -> RequestRecord]
           /\ request[r] \in RequestRecord
      /\ gate \in [WebConns -> GateRecord] /\ k \in WebConns /\ gate[k] \in GateRecord
  BY DEF WebIInv, WebTypeInv, WebAssumption
<1>2. UNCHANGED Web!handlerOnly
  BY DEF Web!Arrive, Web!Handler, Web!GivesUp, Web!RelayEnds, Web!Begin, Web!FullRefused,
       Web!FullVerified, Web!Join, Web!Woken, Web!Ticket,
         Web!Acquire, Web!DialSucceeds, Web!DialFails, Web!Answer, Web!Incomplete, Web!OwnerCloses
<1>3. UNCHANGED gate => gate' = [gate EXCEPT ![k] = gate[k]]
  BY <1>1
<1>4. UNCHANGED webConn => Quiets
  BY <1>1 DEF Quiets, WebTypeInv
<1>5. \A p \in After : p \notin Leading
  BY DEF Leading
<1>6. gate[k].phase \in {"fresh", "bootstrapping", "established", "closed"} /\ gate[k].generation \in Nat
  BY <1>1 DEF GateRecord
<1>7. ASSUME NEW p \in Leading \cup After, Web!To(r, p), UNCHANGED <<gate, webConn>>,
             p \in Leading <=> request[r].pc \in Leading
      PROVE  WebIInv' /\ Admits
  <2>1. PICK q \in RequestRecord : q.pc = p /\ request' = [request EXCEPT ![r] = q]
    BY <1>1, <1>7, Arrives
  <2> QED
    BY <1>1, <1>2, <1>3, <1>4, <1>7, <2>1, HandlerKept
<1>8. ASSUME NEW q \in RequestRecord, request' = [request EXCEPT ![r] = q], UNCHANGED <<gate, webConn>>,
             q.pc \notin Leading, request[r].pc \notin Leading
      PROVE  WebIInv' /\ Admits
  BY <1>1, <1>2, <1>3, <1>4, <1>8, HandlerKept
<1>9. ASSUME NEW p \in After, Web!To(r, p), NEW g \in GateRecord, gate' = [gate EXCEPT ![k] = g], Quiets,
             request[r].pc \in Leading, g.phase # "bootstrapping"
      PROVE  WebIInv' /\ Admits
  <2>1. PICK q \in RequestRecord : q.pc = p /\ request' = [request EXCEPT ![r] = q]
    BY <1>1, <1>9, Arrives
  <2> QED
    BY <1>1, <1>2, <1>5, <1>9, <2>1, HandlerKept
<1>10. ASSUME Web!Shut(r)
       PROVE  Quiets /\ \E g \in GateRecord : g.phase = "closed" /\ gate' = [gate EXCEPT ![k] = g]
  <2> DEFINE g0 == [gate[k] EXCEPT !.phase = "closed"]
  <2>1. gate' = [gate EXCEPT ![k] = g0] /\ webConn' = [webConn EXCEPT ![k].open = FALSE]
    BY <1>10 DEF Web!Shut
  <2>2. g0 \in GateRecord /\ g0.phase = "closed"
    BY <1>1 DEF GateRecord
  <2> QED
    BY <1>1, <2>1, <2>2, EndsQuietly
<1>11. CASE Web!Arrive(r)
  <2>1. PICK p \in After : Web!To(r, p)
    BY <1>6, <1>11 DEF Web!Arrive, Web!Gate
  <2>2. request[r].pc \notin Leading
    BY <1>11 DEF Web!Arrive, Leading
  <2> QED
    BY <1>5, <1>7, <1>11, <2>1, <2>2 DEF Web!Arrive
<1>12. CASE Web!Begin(r)
  <2>1. request[r].pc = "fresh" /\ request[r].pc \notin Leading /\ UNCHANGED webConn
    BY <1>12 DEF Web!Begin, Leading
  <2>2. CASE gate[k].phase = "fresh"
    <3> DEFINE g0 == [gate[k] EXCEPT !.phase = "bootstrapping"]
    <3>1. Web!To(r, "verify") /\ gate' = [gate EXCEPT ![k] = g0]
      BY <1>12, <2>2 DEF Web!Begin, Web!Gate
    <3>2. g0 \in GateRecord /\ g0.phase = "bootstrapping"
      BY <1>1 DEF GateRecord
    <3>3. "verify" \in Leading
      BY DEF Leading
    <3>4. PICK q \in RequestRecord : q.pc = "verify" /\ request' = [request EXCEPT ![r] = q]
      BY <1>1, <3>1, <3>3, Arrives
    <3> HIDE DEF g0
    <3> QED
      BY <1>1, <1>2, <1>4, <2>1, <2>2, <3>1, <3>2, <3>3, <3>4, HandlerKept
  <2>3. CASE gate[k].phase # "fresh"
    <3>1. Web!To(r, "join") /\ UNCHANGED <<gate, webConn>>
      BY <1>12, <2>3 DEF Web!Begin, Web!Gate
    <3> QED
      BY <1>5, <1>7, <2>1, <3>1
  <2> QED
    BY <2>2, <2>3
<1>13. CASE Web!FullRefused(r)
  <2> DEFINE g0 == Web!Aborted(gate[k])
  <2>1. /\ Web!To(r, "done") /\ gate' = [gate EXCEPT ![k] = g0] /\ UNCHANGED webConn
        /\ request[r].pc \in Leading
    BY <1>13 DEF Web!FullRefused, Leading
  <2>2. g0 \in GateRecord /\ g0.phase # "bootstrapping"
    <3>1. CASE gate[k].phase = "bootstrapping"
      <4>1. g0 = [phase |-> "fresh", generation |-> gate[k].generation + 1]
        BY <3>1 DEF Web!Aborted
      <4>2. gate[k].generation + 1 \in Nat
        BY <1>6
      <4> QED
        BY <4>1, <4>2 DEF GateRecord
    <3>2. CASE gate[k].phase # "bootstrapping"
      BY <1>1, <3>2 DEF Web!Aborted
    <3> QED
      BY <3>1, <3>2
  <2> HIDE DEF g0
  <2> QED
    BY <1>4, <1>9, <2>1, <2>2
<1>14. CASE Web!FullVerified(r)
  BY <1>7, <1>14 DEF Web!FullVerified, Leading
<1>15. CASE Web!Join(r)
  <2> DEFINE q0 == [pc |-> CASE Web!Gate(r).phase = "established" -> "session"
                             [] Web!Gate(r).phase = "bootstrapping" -> "waiting"
                             [] OTHER -> "done",
                    generation |-> IF Web!Gate(r).phase = "bootstrapping" THEN Web!Gate(r).generation ELSE 0]
  <2>1. request' = [request EXCEPT ![r] = q0] /\ request[r].pc \notin Leading /\ UNCHANGED <<gate, webConn>>
    BY <1>15 DEF Web!Join, Leading
  <2>2. q0 \in RequestRecord /\ q0.pc \in After
    BY <1>6 DEF RequestRecord, Web!Gate
  <2> HIDE DEF q0
  <2> QED
    BY <1>5, <1>8, <2>1, <2>2
<1>16. CASE Web!Woken(r) \/ Web!GivesUp(r)
  <2>1. PICK p \in {"session", "done"} : request' = [request EXCEPT ![r] = [pc |-> p, generation |-> 0]]
    BY <1>16 DEF Web!Woken, Web!GivesUp
  <2>2. request[r].pc \notin Leading /\ UNCHANGED <<gate, webConn>>
    BY <1>16 DEF Web!Woken, Web!GivesUp, Leading
  <2>3. [pc |-> p, generation |-> 0] \in RequestRecord /\ [pc |-> p, generation |-> 0].pc \notin Leading
    BY DEF RequestRecord, Leading
  <2> QED
    BY <1>8, <2>1, <2>2, <2>3
<1>17. CASE Web!Ticket(r) \/ Web!RelayEnds(r)
  BY <1>7, <1>17 DEF Web!Ticket, Web!RelayEnds, Leading
<1>18. CASE Web!Acquire(r)
  <2>1. request[r].pc \in {"lead", "ticket"} /\ UNCHANGED <<gate, webConn>>
    BY <1>18 DEF Web!Acquire
  <2>2. CASE request[r].pc = "lead"
    <3>1. \E p \in {"lead dial", "lead busy"} : Web!To(r, p)
      BY <1>18, <2>2 DEF Web!Acquire, Web!Dialing, Web!Leads
    <3> QED
      BY <1>7, <2>1, <2>2, <3>1 DEF Leading
  <2>3. CASE request[r].pc = "ticket"
    <3>1. \E p \in {"dial", "done"} : Web!To(r, p)
      BY <1>18, <2>3 DEF Web!Acquire, Web!Dialing, Web!Leads
    <3> QED
      BY <1>7, <2>1, <2>3, <3>1 DEF Leading
  <2> QED
    BY <2>1, <2>2, <2>3
<1>19. CASE Web!DialSucceeds(r) \/ Web!DialFails(r)
  <2>1. request[r].pc \in {"dial", "lead dial"} /\ UNCHANGED <<gate, webConn>>
          /\ Web!To(r, Web!Answering(r))
    BY <1>19 DEF Web!DialSucceeds, Web!DialFails
  <2> QED
    BY <1>7, <2>1 DEF Web!Answering, Web!Leads, Leading
<1>20. CASE Web!Answer(r)
  <2>1. PICK p \in {"relay", "done"} : Web!To(r, p)
    BY <1>20 DEF Web!Answer
  <2>2. CASE request[r].pc = "answer"
    <3>1. UNCHANGED <<gate, webConn>>
      BY <1>20, <2>2 DEF Web!Answer
    <3> QED
      BY <1>7, <2>1, <2>2, <3>1 DEF Leading
  <2>3. CASE request[r].pc # "answer"
    <3>1. Web!Establishes(r) /\ request[r].pc \in Leading
      BY <1>20, <2>3 DEF Web!Answer, Leading
    <3>2. CASE gate[k].phase = "bootstrapping"
      <4> DEFINE g0 == [gate[k] EXCEPT !.phase = "established"]
      <4>1. gate' = [gate EXCEPT ![k] = g0] /\ UNCHANGED webConn
        BY <3>1, <3>2 DEF Web!Establishes, Web!Gate
      <4>2. g0 \in GateRecord /\ g0.phase = "established"
        BY <1>1 DEF GateRecord
      <4> HIDE DEF g0
      <4> QED
        BY <1>4, <1>9, <2>1, <3>1, <4>1, <4>2
    <3>3. CASE gate[k].phase # "bootstrapping"
      <4>1. Web!Shut(r)
        BY <3>1, <3>3 DEF Web!Establishes, Web!Gate
      <4> QED
        BY <1>9, <1>10, <2>1, <3>1, <4>1
    <3> QED
      BY <3>2, <3>3
  <2> QED
    BY <2>2, <2>3
<1>21. CASE Web!Incomplete(r)
  <2>1. Web!Shut(r) /\ Web!To(r, "done") /\ request[r].pc \in Leading
    BY <1>21 DEF Web!Incomplete, Leading
  <2> QED
    BY <1>9, <1>10, <2>1
<1>22. CASE Web!OwnerCloses(r)
  <2>1. UNCHANGED <<request, gate, webConn>> /\ request[r].pc \notin Leading
    BY <1>22 DEF Web!OwnerCloses, Leading
  <2>2. request' = [request EXCEPT ![r] = request[r]]
    BY <1>1, <2>1
  <2> QED
    BY <1>1, <1>8, <2>1, <2>2
<1> QED
  BY <1>11, <1>12, <1>13, <1>14, <1>15, <1>16, <1>17, <1>18, <1>19, <1>20, <1>21, <1>22
       DEF Web!Handler
-----------------------------------------------------------------------------
(* The specification. *)

\* Every step keeps the invariant and is one of SlotPool's.
LEMMA Step ==
  ASSUME WebAssumption, WebIInv, [Web!Next]_Web!vars
  PROVE  WebIInv' /\ Admits
<1>1. CASE Web!BindTCP \/ Web!BindUDP \/ Web!UDPFails
  BY <1>1, BootStep
<1>2. CASE Web!Cancel \/ Web!CloseWeb \/ (\E k \in Web!Sides : Web!ListenerFails(k)) \/ Web!Lifecycle
  BY <1>2, LifeStep
<1>3. ASSUME NEW c \in WebConns, Web!TakeSlot(c) \/ Web!RefuseFull(c) \/ Web!Ends(c) \/ Web!Admission(c)
      PROVE  WebIInv' /\ Admits
  BY <1>3, WebAdmissionStep
<1>4. ASSUME NEW r \in WebRequests, Web!Arrive(r) \/ Web!Handler(r) \/ Web!GivesUp(r) \/ Web!RelayEnds(r)
      PROVE  WebIInv' /\ Admits
  BY <1>4, HandlerStep
<1>5. CASE UNCHANGED Web!vars
  <2>1. /\ UNCHANGED <<boot, owner, doomed, closers, webSlots, webClients, webConn, gate, request>>
    BY <1>5 DEF Web!vars, Web!listenVars, Web!slotVars, Web!requestVars
  <2>2. UNCHANGED <<Web!Holding, Web!Counted>>
    BY <2>1 DEF Web!Holding, Web!Counted
  <2>3. WebTypeInv' /\ BootInv' /\ CloseInv' /\ LeaderInv'
    BY <2>1 DEF WebIInv, WebTypeInv, BootInv, CloseInv, LeaderInv, Served
  <2>4. WebSlotsInv'
    BY <2>1 DEF WebIInv, WebSlotsInv, Web!Holding, Web!Counted, WebOfSource
  <2> QED
    BY <2>2, <2>3, <2>4, PoolStutters DEF WebIInv
<1> QED
  BY <1>1, <1>2, <1>3, <1>4, <1>5 DEF Web!Next

\* WebServer counts with its own instance of FiniteSets.
LEMMA WebCount ==
  ASSUME NEW S
  PROVE  Web!Cardinality(S) = Cardinality(S)
BY DEF Web!Cardinality, Cardinality

\* One request leads, by the invariant.
LEMMA LeadsAlone ==
  ASSUME WebAssumption, WebIInv
  PROVE  Web!OneLeader
<1>1. \A c \in WebConns : Web!Leaders(c) = {r \in WebRequests : WebOwners[r] = c /\ request[r].pc \in Leading}
  BY DEF Web!Leaders, Leading
<1> SUFFICES ASSUME NEW c \in WebConns
             PROVE  /\ Cardinality(Web!Leaders(c)) <= 1
                    /\ gate[c].phase = "bootstrapping" => Web!Leaders(c) # {}
                    /\ gate[c].phase \in {"fresh", "established"} => Web!Leaders(c) = {}
  BY WebCount DEF Web!OneLeader
<1>2. \A q, r \in Web!Leaders(c) : q = r
  BY <1>1 DEF WebIInv, LeaderInv
<1>3. Cardinality(Web!Leaders(c)) <= 1
  <2>1. CASE Web!Leaders(c) = {}
    BY <2>1, FS_EmptySet
  <2>2. CASE Web!Leaders(c) # {}
    <3>1. PICK r : r \in Web!Leaders(c)
      BY <2>2
    <3>2. Web!Leaders(c) = {r}
      BY <1>2, <3>1
    <3>3. Cardinality({r}) = 1
      BY FS_Singleton
    <3> QED
      BY <3>2, <3>3
  <2> QED
    BY <2>1, <2>2
<1>4. gate[c].phase = "bootstrapping" => Web!Leaders(c) # {}
  BY <1>1 DEF WebIInv, LeaderInv
<1>5. gate[c].phase \in {"fresh", "established"} => Web!Leaders(c) = {}
  BY <1>1 DEF WebIInv, LeaderInv
<1> QED
  BY <1>3, <1>4, <1>5

\* No socket is left, by the invariant.
LEMMA Closes ==
  ASSUME WebAssumption, WebIInv
  PROVE  Web!NoStraySocket
<1>1. closers.web = "done" => \A c \in WebConns : webConn[c].open
        => webConn[c].pc \in {"slotted", "counted"}
  <2> SUFFICES ASSUME closers.web = "done", NEW c \in WebConns, webConn[c].open
               PROVE  webConn[c].pc \in {"slotted", "counted"}
    OBVIOUS
  <2>1. closers.h2 = "done" /\ closers.h3 = "done" /\ ~Served(c)
    BY DEF WebIInv, CloseInv
  <2>2. WebKinds[c] # "h3"
    BY <2>1 DEF WebIInv, CloseInv
  <2>3. WebKinds[c] = "h2"
    BY <2>2 DEF WebAssumption, Web!Sides
  <2> QED
    BY <2>1, <2>3 DEF WebIInv, CloseInv, Served
<1>2. /\ boot.step = "failed" => ~boot.tcp /\ ~boot.udp
      /\ boot.step = "up" => boot.tcp /\ boot.udp
  BY DEF WebIInv, BootInv
<1> QED
  BY <1>1, <1>2 DEF Web!NoStraySocket

\* A behaviour of the process is one of its web origin.
LEMMA WebBehaves == Spec => Web!Init /\ [][Web!Next]_Web!vars
<1>1. Init => Web!Init
  BY DEF Init
<1>2. [Next]_vars => [Web!Next]_Web!vars
  BY DEF Next, vars, webVars, Web!vars, Web!listenVars, Web!slotVars, Web!requestVars
<1> QED
  BY <1>1, <1>2, PTL DEF Spec

\* The listeners, the admissions, Serve, Close and the handlers keep what the
\* web origin counts, registers and guards, however they interleave.
LEMMA WebInvariance == Spec => []WebIInv
<1>1. WebAssumption
  BY ServersAssumption
<1>2. Web!Init => WebIInv
  BY <1>1, WebInitially
<1>3. WebIInv /\ [Web!Next]_Web!vars => WebIInv'
  BY <1>1, Step
<1> QED
  BY <1>2, <1>3, WebBehaves, PTL

\* The two web listeners implement connection admission.
LEMMA WebAdmission == Spec => Web!ImplementsSlotPool
<1>1. WebAssumption
  BY ServersAssumption
<1>2. Web!Init => Web!Slots!Init
  <2> SUFFICES ASSUME Web!Init
               PROVE  Web!Holding = {} /\ Web!Counted = {}
    BY DEF Web!Slots!Init
  <2>1. webConn \in [WebConns -> [pc : {"new", "gone"}, open : {FALSE}]]
    BY DEF Web!Init
  <2> QED
    BY <2>1 DEF Web!Holding, Web!Counted
<1>3. WebIInv /\ [Web!Next]_Web!vars => [Web!Slots!Next]_(Web!Slots!poolVars)
  BY <1>1, Step DEF Admits
<1> QED
  BY <1>2, <1>3, WebInvariance, WebBehaves, PTL DEF Web!ImplementsSlotPool, Web!Slots!Spec
-----------------------------------------------------------------------------
(* The process. *)

\* When the Close of a native server has returned its wait group is empty, so
\* nothing of it is served and no destination of it is open; when the web
\* origin's has, every socket that was served is closed, also one that came
\* while Close ran, and a ListenWeb that fails leaves no socket bound.
THEOREM CloseIsComplete == Spec => []NothingAfterClose
<1>1. WebAssumption
  BY ServersAssumption
<1>2. WebIInv => Web!NoStraySocket
  BY <1>1, Closes
<1> QED
  BY <1>2, CloseLeavesNothing, WebInvariance, PTL DEF NothingAfterClose

\* Of the requests that race to authenticate a connection (beginBootstrap) one
\* leads, and the gate it holds is opened or shut when it ends, whichever way
\* its handler is left.
THEOREM LeaderAlone == Spec => []OneLeader
<1>1. WebAssumption
  BY ServersAssumption
<1>2. WebIInv => Web!OneLeader
  BY <1>1, LeadsAlone
<1> QED
  BY <1>2, WebInvariance, PTL DEF OneLeader

\* Whatever is refused, canceled or closed, and in any order: no listener takes
\* a slot or a source's share that is not free, and each comes back once
\* (ConnectionAdmission, sourceConnectionLimiter, webConnectionAdmission).
THEOREM AdmissionImplemented == Spec => ImplementsSlotPool
BY NativeAdmission, WebAdmission, PTL DEF ImplementsSlotPool
================================================================================
