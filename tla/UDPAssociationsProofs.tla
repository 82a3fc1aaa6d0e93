------------------------- MODULE UDPAssociationsProofs -------------------------
(***************************************************************************)
(* Proofs about UDPAssociations, for any finite number of control streams  *)
(* and any limits: both ends agree which association an id names, and no   *)
(* slot, share, reservation, session or fragment leaks.                    *)
(***************************************************************************)
EXTENDS UDPAssociations, FiniteSetTheorems, WellFoundedInduction, TLAPS

\* Control streams are finitely many.
StreamsAreFinite == IsFiniteSet(Calls)

IDs == 1..MaxID
Registries == UNION {[S -> Calls] : S \in SUBSET IDs}
Dispatchers == [phase : {"run", "canceled", "closing"}, todo : SUBSET Calls]
CallStates ==
  [pc : {"idle", "reserved", "requested", "open", "ending", "over"}, id : 0..MaxID]
SessionStates == [pc : {"none", "running", "stopped", "release", "closed"}, id : 0..MaxID]
HandlerPcs ==
  {"none", "refuse", "register", "release", "respond", "lease", "close", "over"}

TypeInv ==
  /\ link \in BOOLEAN
  /\ client \in Dispatchers /\ server \in Dispatchers
  /\ csessions \in Registries /\ ssessions \in Registries
  /\ call \in [Calls -> CallStates]
  /\ answer \in [Calls -> 0..MaxID]
  /\ nextSession \in IDs
  /\ handler \in [Calls -> HandlerPcs]
  /\ session \in [Calls -> SessionStates]
  /\ others \in Nat

\* A registry lists exactly the associations that think they are listed, each
\* under its own id.
Registered(c) == session[c].pc \in {"running", "stopped"}
ClientRegistry ==
  /\ \A i \in DOMAIN csessions :
       call[csessions[i]].pc = "open" /\ call[csessions[i]].id = i
  /\ \A c \in Calls : call[c].pc = "open" => IsListed(csessions, call[c].id, c)
ServerRegistry ==
  /\ \A i \in DOMAIN ssessions : Registered(ssessions[i]) /\ session[ssessions[i]].id = i
  /\ \A c \in Calls : Registered(c) => IsListed(ssessions, session[c].id, c)

\* Which part of a stream's handler runs says whether it has a session.
HandlerInv == \A c \in Calls :
  /\ handler[c] \in {"none", "refuse", "register", "release"} => session[c].pc = "none"
  /\ handler[c] \in {"respond", "lease", "close"} => session[c].pc # "none"
  /\ handler[c] = "over" => session[c].pc \in {"none", "closed"}
  /\ call[c].pc \in {"idle", "reserved"} => handler[c] = "none"
  /\ answer[c] # 0 => call[c].pc = "requested"

\* While the connection and the server's dispatcher live, only the end of the
\* lease takes a session away, and the id that was granted, then opened, is the
\* session's.
AgreeInv ==
  link /\ server.phase = "run" => \A c \in Calls :
    /\ handler[c] \in {"respond", "lease"} => session[c].pc = "running"
    /\ call[c].pc = "open" => handler[c] = "lease" /\ call[c].id = session[c].id
    /\ answer[c] # 0 => handler[c] = "lease" /\ answer[c] = session[c].id

\* A dispatcher that runs has nobody to close, and shutdown's snapshot names
\* everybody who is still registered.
ShutdownInv ==
  /\ server.phase = "run" => server.todo = {}
  /\ client.phase = "closing" => \A i \in DOMAIN csessions : csessions[i] \in client.todo
  /\ server.phase = "closing" => \A i \in DOMAIN ssessions : ssessions[i] \in server.todo

\* Balanced, as what the counters are: numbers, being cardinalities.
Holders == {c \in Calls : Holds(c)}
Reserving == {c \in Calls : call[c].pc \in {"reserved", "requested"}}
LimitsInv ==
  /\ slots = others + Cardinality(Holders) /\ slots <= MaxSlots
  /\ source = slots /\ source <= MaxSource
ReservationsInv ==
  /\ pending = Cardinality(Reserving)
  /\ Cardinality(DOMAIN csessions) + pending <= MaxClient

PartialInv == cpartial \subseteq DOMAIN csessions /\ spartial \subseteq DOMAIN ssessions

IInv ==
  /\ TypeInv /\ ClientRegistry /\ ServerRegistry /\ HandlerInv /\ AgreeInv
  /\ ShutdownInv /\ LimitsInv /\ ReservationsInv /\ PartialInv
-----------------------------------------------------------------------------
(* What the steps do to one call, one session, one registry. *)

\* CallTo moves one call and keeps its id.
LEMMA CallMoves ==
  ASSUME call \in [Calls -> CallStates], NEW c \in Calls,
         NEW pc \in {"idle", "reserved", "requested", "open", "ending", "over"},
         CallTo(c, pc)
  PROVE  /\ call' \in [Calls -> CallStates]
         /\ call'[c].pc = pc /\ call'[c].id = call[c].id
         /\ \A d \in Calls : d # c => call'[d] = call[d]
<1>1. call' = [call EXCEPT ![c] = [call[c] EXCEPT !.pc = pc]]
  BY DEF CallTo
<1>2. call[c] \in CallStates /\ [call[c] EXCEPT !.pc = pc] \in CallStates
  BY DEF CallStates
<1>3. call'[c] = [call[c] EXCEPT !.pc = pc]
  BY <1>1
<1>4. call'[c].pc = pc /\ call'[c].id = call[c].id
  BY <1>2, <1>3 DEF CallStates
<1> QED
  BY <1>1, <1>2, <1>4

\* SessionTo moves one session and keeps its id.
LEMMA SessionMoves ==
  ASSUME session \in [Calls -> SessionStates], NEW c \in Calls,
         NEW pc \in {"none", "running", "stopped", "release", "closed"},
         SessionTo(c, pc)
  PROVE  /\ session' \in [Calls -> SessionStates]
         /\ session'[c].pc = pc /\ session'[c].id = session[c].id
         /\ \A d \in Calls : d # c => session'[d] = session[d]
<1>1. session' = [session EXCEPT ![c] = [session[c] EXCEPT !.pc = pc]]
  BY DEF SessionTo
<1>2. session[c] \in SessionStates /\ [session[c] EXCEPT !.pc = pc] \in SessionStates
  BY DEF SessionStates
<1>3. session'[c] = [session[c] EXCEPT !.pc = pc]
  BY <1>1
<1>4. session'[c].pc = pc /\ session'[c].id = session[c].id
  BY <1>2, <1>3 DEF SessionStates
<1> QED
  BY <1>1, <1>2, <1>4

\* Registering adds one id and keeps the others.
LEMMA WithOne ==
  ASSUME NEW S \in Registries, NEW i \in IDs, NEW c \in Calls, NEW T, T = With(S, i, c)
  PROVE  /\ T \in Registries
         /\ DOMAIN T = DOMAIN S \cup {i}
         /\ T[i] = c
         /\ \A j \in DOMAIN S : j # i => T[j] = S[j]
<1>1. PICK D \in SUBSET IDs : S \in [D -> Calls]
  BY DEF Registries
<1>2. With(S, i, c) \in [D \cup {i} -> Calls]
  BY <1>1 DEF With
<1>3. With(S, i, c) \in Registries
  BY <1>1, <1>2 DEF Registries
<1> QED
  BY <1>1, <1>3 DEF With

\* Unregistering removes one id and keeps the others.
LEMMA WithoutOne ==
  ASSUME NEW S \in Registries, NEW i, NEW T, T = Without(S, i)
  PROVE  /\ T \in Registries
         /\ DOMAIN T = DOMAIN S \ {i}
         /\ \A j \in DOMAIN T : T[j] = S[j]
<1>1. PICK D \in SUBSET IDs : S \in [D -> Calls]
  BY DEF Registries
<1>2. Without(S, i) \in [D \ {i} -> Calls]
  BY <1>1 DEF Without, Restrict
<1>3. Without(S, i) \in Registries
  BY <1>1, <1>2 DEF Registries
<1> QED
  BY <1>1, <1>3 DEF Without, Restrict

\* What a registry lists is an association, under an id that can be given out.
LEMMA ListsCalls ==
  ASSUME NEW S \in Registries
  PROVE  /\ DOMAIN S \subseteq IDs
         /\ \A i \in DOMAIN S : S[i] \in Calls
  BY DEF Registries

\* NextFree is an id in use by nobody, as long as there is one.
LEMMA NextFreeIsFree ==
  ASSUME UDPAssumption, nextSession \in IDs, IDs \ DOMAIN ssessions # {}
  PROVE  NextFree \in IDs /\ NextFree \notin DOMAIN ssessions
<1> DEFINE free == 1..MaxID \ DOMAIN ssessions
           Distance(i) == (i - nextSession - 1) % MaxID
           distances == {Distance(i) : i \in free}
<1>1. \A i \in free : Distance(i) \in Nat
  BY DEF UDPAssumption, IDs
<1>2. distances \subseteq Nat /\ distances # {}
  BY <1>1 DEF IDs
<1>3. \E x \in distances : \A y \in distances : <<y, x>> \notin OpToRel(<, Nat)
  <2> HIDE DEF distances
  <2> QED
    BY <1>2, NatLessThanWellFounded, WFMin
<1>4. PICK i \in free : \A j \in free : <<Distance(j), Distance(i)>> \notin OpToRel(<, Nat)
  BY <1>3
<1>5. \A j \in free : Distance(i) <= Distance(j)
  <2> SUFFICES ASSUME NEW j \in free PROVE Distance(i) <= Distance(j)
    OBVIOUS
  <2>1. <<Distance(j), Distance(i)>> \notin OpToRel(<, Nat)
    BY <1>4
  <2>2. Distance(i) \in Nat /\ Distance(j) \in Nat
    BY <1>1
  <2> HIDE DEF Distance
  <2> QED
    BY <2>1, <2>2 DEF OpToRel
<1>6. \E k \in free : \A j \in free : Distance(k) <= Distance(j)
  BY <1>5
<1>7. NextFree = CHOOSE k \in free : \A j \in free : Distance(k) <= Distance(j)
  BY DEF NextFree
<1>8. NextFree \in free
  <2> HIDE DEF free, Distance
  <2> QED
    BY <1>6, <1>7
<1> QED
  BY <1>8 DEF IDs

\* Whoever registers has been counted by acquire, so it finds a free id.
LEMMA AnIdIsFree ==
  ASSUME StreamsAreFinite, UDPAssumption, IInv, NEW c \in Calls, handler[c] = "register"
  PROVE  IDs \ DOMAIN ssessions # {}
<1> DEFINE Rest == Holders \ {c}
<1>1. IsFiniteSet(Holders) /\ c \in Holders
  BY FS_Subset DEF StreamsAreFinite, Holders, Holds
<1>2. IsFiniteSet(Rest) /\ Cardinality(Rest) = Cardinality(Holders) - 1
  BY <1>1, FS_RemoveElement
<1>3. ssessions \in Registries /\ others \in Nat
  BY DEF IInv, TypeInv
<1>4. Cardinality(Holders) <= MaxSource /\ Cardinality(Holders) \in Nat
  BY <1>1, <1>3, FS_CardinalityType DEF IInv, LimitsInv, UDPAssumption
<1>5. ssessions \in [DOMAIN ssessions -> Rest]
  <2>1. \A i \in DOMAIN ssessions : ssessions[i] \in Calls /\ Registered(ssessions[i])
    BY <1>3, ListsCalls DEF IInv, ServerRegistry
  <2>2. session[c].pc = "none"
    BY DEF IInv, HandlerInv
  <2>3. \A i \in DOMAIN ssessions : ssessions[i] \in Rest
    BY <2>1, <2>2 DEF Registered, Holders, Holds
  <2> HIDE DEF Rest
  <2> QED
    BY <1>3, <2>3 DEF Registries
<1>6. \A i, j \in DOMAIN ssessions : ssessions[i] = ssessions[j] => i = j
  BY DEF IInv, ServerRegistry
<1>7. ssessions \in Injection(DOMAIN ssessions, Rest)
  BY <1>5, <1>6 DEF Injection, IsInjective
<1>8. Cardinality(DOMAIN ssessions) <= Cardinality(Rest)
  <2> HIDE DEF Rest
  <2> QED
    BY <1>2, <1>7, FS_Injection DEF ExistsInjection
<1>9. Cardinality(IDs) = MaxID
  BY FS_Interval DEF IDs, UDPAssumption
<1>10. DOMAIN ssessions # IDs
  BY <1>2, <1>4, <1>8, <1>9 DEF UDPAssumption
<1> QED
  BY <1>3, <1>10, ListsCalls

\* register, when the dispatcher runs: a free id for the session.
LEMMA Registers ==
  ASSUME StreamsAreFinite, UDPAssumption, IInv, NEW c \in Calls, Register(c),
         ~Canceled(server)
  PROVE  \E i \in IDs \ DOMAIN ssessions :
           /\ nextSession' = i /\ ssessions' = With(ssessions, i, c)
           /\ session' = [session EXCEPT ![c] = [pc |-> "running", id |-> i]]
           /\ handler' = [handler EXCEPT ![c] = "respond"]
<1>1. nextSession \in IDs
  BY DEF IInv, TypeInv
<1>2. NextFree \in IDs \ DOMAIN ssessions
  BY <1>1, AnIdIsFree, NextFreeIsFree DEF Register
<1> QED
  BY <1>2 DEF Register, HandlerTo

\* terminate, of an association that is open: it is listed.
LEMMA Terminates ==
  ASSUME IInv, NEW c \in Calls, Terminate(c)
  PROVE  /\ IsListed(csessions, call[c].id, c) /\ call[c].pc = "open"
         /\ csessions' = Without(csessions, call[c].id)
         /\ cpartial' = cpartial \ {call[c].id}
         /\ CallTo(c, "ending")
BY DEF IInv, ClientRegistry, Terminate

\* unregister, of a session that is stopped: it is listed.
LEMMA Unregisters ==
  ASSUME IInv, NEW c \in Calls, Unregister(c)
  PROVE  /\ IsListed(ssessions, session[c].id, c) /\ session[c].pc = "stopped"
         /\ ssessions' = Without(ssessions, session[c].id)
         /\ spartial' = spartial \ {session[c].id}
         /\ SessionTo(c, "release")
BY DEF IInv, ServerRegistry, Registered, Unregister, UnregisterOwn, Discard

-----------------------------------------------------------------------------
(* Every step keeps every part of IInv. *)

\* The types.
LEMMA KeepsTypes ==
  ASSUME StreamsAreFinite, UDPAssumption, IInv, [Next]_vars
  PROVE  TypeInv'
<1> USE DEF TypeInv, clientVars, registryVars, limitVars, serverVars
<1>0. TypeInv
  BY DEF IInv
<1>1. ASSUME NEW c \in Calls, Client(c) PROVE TypeInv'
  <2>1. CASE ReserveSession(c)
    BY <1>0, <2>1, CallMoves DEF ReserveSession
  <2>2. CASE Request(c)
    BY <1>0, <2>2, CallMoves DEF Request
  <2>3. CASE ReleaseReservation(c)
    <3>1. call' \in [Calls -> CallStates]
      BY <1>0, <2>3, CallMoves DEF ReleaseReservation
    <3>2. answer' \in [Calls -> 0..MaxID]
      BY <1>0, <2>3 DEF ReleaseReservation, UDPAssumption
    <3> QED
      BY <1>0, <2>3, <3>1, <3>2 DEF ReleaseReservation
  <2>4. CASE RegisterAssigned(c)
    <3>1. answer[c] \in IDs
      BY <1>0, <2>4 DEF RegisterAssigned, IDs
    <3>2. csessions' \in Registries
      <4>1. With(csessions, answer[c], c) \in Registries
        BY <1>0, <3>1, WithOne
      <4> QED
        BY <1>0, <2>4, <4>1 DEF RegisterAssigned
    <3>3. call' \in [Calls -> CallStates]
      BY <1>0, <2>4, <3>1, CallMoves DEF RegisterAssigned, CallStates
    <3>4. answer' \in [Calls -> 0..MaxID]
      BY <1>0, <2>4 DEF RegisterAssigned, UDPAssumption
    <3> QED
      BY <1>0, <2>4, <3>2, <3>3, <3>4 DEF RegisterAssigned
  <2>5. CASE Terminate(c)
    <3>1. csessions' = Without(csessions, call[c].id)
      BY <2>5, Terminates
    <3>2. csessions' \in Registries
      BY <1>0, <3>1, WithoutOne
    <3> QED
      BY <1>0, <2>5, <3>2, CallMoves DEF Terminate
  <2>6. CASE FinishStream(c)
    <3>1. call' \in [Calls -> CallStates]
      BY <1>0, <2>6 DEF FinishStream, CallStates, UDPAssumption
    <3> QED
      BY <1>0, <2>6, <3>1 DEF FinishStream
  <2> QED
    BY <1>1, <2>1, <2>2, <2>3, <2>4, <2>5, <2>6 DEF Client
<1>2. ASSUME NEW c \in Calls, Handler(c) PROVE TypeInv'
  <2> USE DEF HandlerTo, HandlerPcs
  <2>1. CASE Decline(c)
    BY <1>0, <2>1 DEF Decline
  <2>2. CASE Acquire(c)
    BY <1>0, <2>2 DEF Acquire, SourceFull
  <2>3. CASE Register(c)
    <3>1. CASE Canceled(server)
      BY <1>0, <2>3, <3>1 DEF Register
    <3>2. CASE ~Canceled(server)
      <4>1. PICK i \in IDs \ DOMAIN ssessions :
              /\ nextSession' = i /\ ssessions' = With(ssessions, i, c)
              /\ session' = [session EXCEPT ![c] = [pc |-> "running", id |-> i]]
              /\ handler' = [handler EXCEPT ![c] = "respond"]
        BY <2>3, <3>2, Registers
      <4>2. ssessions' \in Registries /\ nextSession' \in IDs
        BY <1>0, <4>1, WithOne
      <4>3. session' \in [Calls -> SessionStates] /\ handler' \in [Calls -> HandlerPcs]
        BY <1>0, <4>1 DEF SessionStates, IDs
      <4> QED
        BY <1>0, <2>3, <4>2, <4>3 DEF Register
    <3> QED
      BY <3>1, <3>2
  <2>4. CASE Respond(c)
    <3>1. session[c].id \in 0..MaxID /\ 0 \in 0..MaxID
      BY <1>0 DEF SessionStates, UDPAssumption
    <3> QED
      BY <1>0, <2>4, <3>1 DEF Respond
  <2>5. CASE LeaseEnds(c)
    BY <1>0, <2>5 DEF LeaseEnds
  <2>6. CASE HandlerReturns(c)
    BY <1>0, <2>6 DEF HandlerReturns
  <2>7. CASE HandlerCloses(c)
    BY <1>0, <2>7, SessionMoves DEF HandlerCloses, Close
  <2> QED
    BY <1>2, <2>1, <2>2, <2>3, <2>4, <2>5, <2>6, <2>7 DEF Handler
<1>3. ASSUME NEW c \in Calls, Session(c) PROVE TypeInv'
  <2>1. CASE ShutdownCloses(c)
    BY <1>0, <2>1, SessionMoves DEF ShutdownCloses, Close
  <2>2. CASE Unregister(c)
    <3>1. ssessions' = Without(ssessions, session[c].id)
      BY <2>2, Unregisters
    <3>2. ssessions' \in Registries
      BY <1>0, <3>1, WithoutOne
    <3> QED
      BY <1>0, <2>2, <3>2, SessionMoves DEF Unregister
  <2>3. CASE Release(c)
    <3>1. session' \in [Calls -> SessionStates]
      BY <1>0, <2>3 DEF Release, SessionStates, UDPAssumption
    <3> QED
      BY <1>0, <2>3, <3>1 DEF Release, HandlerTo, HandlerPcs
  <2> QED
    BY <1>3, <2>1, <2>2, <2>3 DEF Session
<1>4. ASSUME NEW c \in Calls, Again(c) PROVE TypeInv'
  <2>1. call' \in [Calls -> CallStates] /\ session' \in [Calls -> SessionStates]
    BY <1>0, <1>4 DEF Again, CallStates, SessionStates, UDPAssumption
  <2> QED
    BY <1>0, <1>4, <2>1 DEF Again, HandlerPcs
<1>5. CASE ClientShutdown \/ ClientSnapshot \/ ServerShutdown \/ ServerSnapshot
  <2>1. Range(csessions) \subseteq Calls /\ Range(ssessions) \subseteq Calls
    BY <1>0, ListsCalls DEF Range
  <2> QED
    BY <1>0, <1>5, <2>1
    DEF ClientShutdown, ClientSnapshot, ServerShutdown, ServerSnapshot, Dispatchers
<1>6. CASE \E i \in Followed : ClientReceives(i) \/ ServerReceives(i)
  BY <1>0, <1>6 DEF ClientReceives, ServerReceives
<1>7. CASE LinkDies
  BY <1>0, <1>7 DEF LinkDies
<1>8. CASE OthersTake \/ OthersRelease
  <2>1. others' \in Nat
    BY <1>0, <1>8 DEF OthersTake, OthersRelease
  <2> QED
    BY <1>0, <1>8, <2>1 DEF OthersTake, OthersRelease
<1>9. CASE UNCHANGED vars
  BY <1>0, <1>9 DEF vars
<1> QED
  BY <1>1, <1>2, <1>3, <1>4, <1>5, <1>6, <1>7, <1>8, <1>9 DEF Next

\* The client's steps of one association change nothing at the server, except
\* that they take an answer.
LEMMA ClientFrame ==
  ASSUME NEW c \in Calls, Client(c)
  PROVE  UNCHANGED <<link, client, server, ssessions, nextSession, spartial, handler,
                     session, slots, source, others>>
BY DEF Client, ReserveSession, Request, ReleaseReservation, RegisterAssigned, Terminate,
       FinishStream, clientVars, serverVars, registryVars, limitVars

\* The server's steps of one association change nothing at the client.
LEMMA ServerFrame ==
  ASSUME NEW c \in Calls, Handler(c) \/ Session(c)
  PROVE  UNCHANGED <<link, client, csessions, pending, cpartial, call, server, others>>
<1>1. CASE Handler(c)
  BY <1>1 DEF Handler, Decline, Acquire, Register, Respond, LeaseEnds, HandlerReturns,
              HandlerCloses, Close, clientVars, limitVars
<1>2. CASE Session(c)
  BY <1>2 DEF Session, ShutdownCloses, Unregister, Release, Close, clientVars, limitVars
<1> QED
  BY <1>1, <1>2

\* The other steps, of no association in particular.
Background ==
  \/ ClientShutdown \/ ClientSnapshot \/ ServerShutdown \/ ServerSnapshot
  \/ \E i \in Followed : ClientReceives(i)
  \/ \E i \in Followed : ServerReceives(i)
  \/ LinkDies \/ OthersTake \/ OthersRelease

\* They change no association and no registry.
LEMMA BackgroundFrame ==
  ASSUME Background \/ UNCHANGED vars
  PROVE  UNCHANGED <<csessions, pending, call, answer, ssessions, nextSession, handler,
                     session>>
BY DEF Background, ClientShutdown, ClientSnapshot, ServerShutdown, ServerSnapshot,
       ClientReceives, ServerReceives, LinkDies, OthersTake, OthersRelease,
       vars, clientVars, serverVars, registryVars, limitVars

\* The steps by kind.
LEMMA StepKinds ==
  ASSUME [Next]_vars
  PROVE  \/ \E c \in Calls : Client(c)
         \/ \E c \in Calls : Handler(c) \/ Session(c)
         \/ \E c \in Calls : Again(c)
         \/ Background \/ UNCHANGED vars
BY DEF Next, Background

\* The client's registry: RegisterAssigned adds, terminate removes.
LEMMA KeepsClientRegistry ==
  ASSUME IInv, [Next]_vars
  PROVE  ClientRegistry'
<1>0. ClientRegistry /\ TypeInv
  BY DEF IInv
<1> USE DEF ClientRegistry, IsListed
<1>t. /\ call \in [Calls -> CallStates] /\ csessions \in Registries
      /\ DOMAIN csessions \subseteq IDs /\ \A i \in DOMAIN csessions : csessions[i] \in Calls
  BY <1>0, ListsCalls DEF TypeInv
<1>1. ASSUME NEW c \in Calls, Client(c) PROVE ClientRegistry'
  <2>1. CASE ReserveSession(c) \/ Request(c) \/ ReleaseReservation(c) \/ FinishStream(c)
    <3>1. UNCHANGED csessions
      BY <2>1 DEF ReserveSession, Request, ReleaseReservation, FinishStream
    <3>2. call[c].pc # "open" /\ call'[c].pc # "open"
      BY <1>t, <2>1, CallMoves
      DEF ReserveSession, Request, ReleaseReservation, FinishStream
    <3>3. \A d \in Calls : d # c => call'[d] = call[d]
      BY <1>t, <2>1, CallMoves
      DEF ReserveSession, Request, ReleaseReservation, FinishStream
    <3> QED
      BY <1>0, <1>t, <3>1, <3>2, <3>3
  <2>2. CASE RegisterAssigned(c) /\ CanRegister(answer[c])
    <3>1. answer[c] \in IDs /\ answer[c] \notin DOMAIN csessions /\ call[c].pc = "requested"
      BY <1>0, <2>2 DEF RegisterAssigned, CanRegister, IDs, TypeInv
    <3>2. csessions' = With(csessions, answer[c], c)
      BY <2>2 DEF RegisterAssigned
    <3>3. /\ DOMAIN csessions' = DOMAIN csessions \cup {answer[c]}
          /\ csessions'[answer[c]] = c
          /\ \A j \in DOMAIN csessions : csessions'[j] = csessions[j]
      BY <1>t, <3>1, <3>2 DEF With
    <3>4. /\ call'[c] = [pc |-> "open", id |-> answer[c]]
          /\ \A d \in Calls : d # c => call'[d] = call[d]
      BY <1>t, <2>2 DEF RegisterAssigned
    <3> QED
      BY <1>0, <1>t, <3>1, <3>3, <3>4
  <2>3. CASE RegisterAssigned(c) /\ ~CanRegister(answer[c])
    <3>1. UNCHANGED csessions /\ call[c].pc = "requested" /\ CallTo(c, "ending")
      BY <2>3 DEF RegisterAssigned
    <3>2. call'[c].pc = "ending" /\ \A d \in Calls : d # c => call'[d] = call[d]
      BY <1>t, <3>1, CallMoves
    <3> QED
      BY <1>0, <1>t, <3>1, <3>2
  <2>4. CASE Terminate(c)
    <3>1. /\ call[c].pc = "open" /\ call[c].id \in DOMAIN csessions
          /\ csessions[call[c].id] = c
          /\ csessions' = Without(csessions, call[c].id) /\ CallTo(c, "ending")
      BY <2>4, Terminates
    <3>2. /\ DOMAIN csessions' = DOMAIN csessions \ {call[c].id}
          /\ \A j \in DOMAIN csessions' : csessions'[j] = csessions[j]
      BY <1>t, <3>1, WithoutOne
    <3>3. call'[c].pc = "ending" /\ \A d \in Calls : d # c => call'[d] = call[d]
      BY <1>t, <3>1, CallMoves
    <3>4. \A i \in DOMAIN csessions' : csessions'[i] # c
      <4> SUFFICES ASSUME NEW i \in DOMAIN csessions', csessions'[i] = c PROVE FALSE
        OBVIOUS
      <4>1. call[c].id = i /\ i # call[c].id
        BY <1>0, <3>2
      <4> QED
        BY <4>1
    <3>5. \A d \in Calls : d # c /\ call[d].pc = "open" =>
            call[d].id \in DOMAIN csessions' /\ csessions'[call[d].id] = d
      BY <1>0, <3>1, <3>2
    <3> QED
      BY <1>0, <1>t, <3>2, <3>3, <3>4, <3>5
  <2> QED
    BY <1>1, <2>1, <2>2, <2>3, <2>4 DEF Client, RegisterAssigned
<1>2. ASSUME NEW c \in Calls, Handler(c) \/ Session(c) PROVE ClientRegistry'
  BY <1>0, <1>2, ServerFrame
<1>3. ASSUME NEW c \in Calls, Again(c) PROVE ClientRegistry'
  <2>1. /\ UNCHANGED csessions /\ call[c].pc = "over"
        /\ call'[c] = [pc |-> "idle", id |-> 0]
        /\ \A d \in Calls : d # c => call'[d] = call[d]
    BY <1>t, <1>3 DEF Again
  <2> QED
    BY <1>0, <1>t, <2>1
<1>4. CASE Background \/ UNCHANGED vars
  BY <1>0, <1>4, BackgroundFrame
<1> QED
  BY <1>1, <1>2, <1>3, <1>4, StepKinds

\* The server's registry: register adds under a free id, unregister removes.
LEMMA KeepsServerRegistry ==
  ASSUME StreamsAreFinite, UDPAssumption, IInv, [Next]_vars
  PROVE  ServerRegistry'
<1>0. ServerRegistry /\ TypeInv /\ HandlerInv
  BY DEF IInv
<1> USE DEF ServerRegistry, IsListed, Registered
<1>t. /\ session \in [Calls -> SessionStates] /\ ssessions \in Registries
      /\ DOMAIN ssessions \subseteq IDs /\ \A i \in DOMAIN ssessions : ssessions[i] \in Calls
  BY <1>0, ListsCalls DEF TypeInv
<1>1. ASSUME NEW c \in Calls, Client(c) PROVE ServerRegistry'
  BY <1>0, <1>1, ClientFrame
<1>2. ASSUME NEW c \in Calls, Handler(c) \/ Session(c) PROVE ServerRegistry'
  <2>1. CASE \/ Decline(c) \/ Acquire(c) \/ Respond(c) \/ LeaseEnds(c) \/ HandlerReturns(c)
             \/ Register(c) /\ Canceled(server)
    <3>1. UNCHANGED <<ssessions, session>>
      BY <2>1 DEF Decline, Acquire, Respond, LeaseEnds, HandlerReturns, Register, registryVars
    <3> QED
      BY <1>0, <3>1
  <2>2. CASE Register(c) /\ ~Canceled(server)
    <3>1. PICK i \in IDs \ DOMAIN ssessions :
            /\ nextSession' = i /\ ssessions' = With(ssessions, i, c)
            /\ session' = [session EXCEPT ![c] = [pc |-> "running", id |-> i]]
            /\ handler' = [handler EXCEPT ![c] = "respond"]
      BY <2>2, Registers
    <3>2. session[c].pc = "none"
      BY <1>0, <2>2 DEF HandlerInv, Register
    <3>3. /\ DOMAIN ssessions' = DOMAIN ssessions \cup {i}
          /\ ssessions'[i] = c
          /\ \A j \in DOMAIN ssessions : ssessions'[j] = ssessions[j]
      BY <1>t, <3>1 DEF With
    <3>4. /\ session'[c] = [pc |-> "running", id |-> i]
          /\ \A d \in Calls : d # c => session'[d] = session[d]
      BY <1>t, <3>1
    <3> QED
      BY <1>0, <1>t, <3>2, <3>3, <3>4
  <2>3. CASE HandlerCloses(c) \/ ShutdownCloses(c)
    <3>1. UNCHANGED ssessions /\ session[c].pc = "running" /\ SessionTo(c, "stopped")
      BY <2>3 DEF HandlerCloses, ShutdownCloses, Close, registryVars
    <3>2. /\ session'[c].pc = "stopped" /\ session'[c].id = session[c].id
          /\ \A d \in Calls : d # c => session'[d] = session[d]
      BY <1>t, <3>1, SessionMoves
    <3> QED
      BY <1>0, <1>t, <3>1, <3>2
  <2>4. CASE Unregister(c)
    <3>1. /\ session[c].pc = "stopped" /\ session[c].id \in DOMAIN ssessions
          /\ ssessions[session[c].id] = c
          /\ ssessions' = Without(ssessions, session[c].id) /\ SessionTo(c, "release")
      BY <2>4, Unregisters
    <3>2. /\ DOMAIN ssessions' = DOMAIN ssessions \ {session[c].id}
          /\ \A j \in DOMAIN ssessions' : ssessions'[j] = ssessions[j]
      BY <1>t, <3>1 DEF Without, Restrict
    <3>3. session'[c].pc = "release" /\ \A d \in Calls : d # c => session'[d] = session[d]
      BY <1>t, <3>1, SessionMoves
    <3>4. \A i \in DOMAIN ssessions' : ssessions'[i] # c
      BY <1>0, <3>2
    <3>5. \A d \in Calls : d # c /\ Registered(d) =>
            session[d].id \in DOMAIN ssessions' /\ ssessions'[session[d].id] = d
      BY <1>0, <3>1, <3>2
    <3> QED
      BY <1>0, <1>t, <3>2, <3>3, <3>4, <3>5
  <2>5. CASE Release(c)
    <3>1. UNCHANGED ssessions
      BY <2>5 DEF Release, registryVars
    <3>2. CASE UNCHANGED session
      BY <1>0, <3>1, <3>2
    <3>3. CASE /\ session[c].pc = "release"
               /\ session' = [session EXCEPT ![c] = [pc |-> "closed", id |-> 0]]
      <4>1. /\ session'[c].pc = "closed"
            /\ \A d \in Calls : d # c => session'[d] = session[d]
        BY <1>t, <3>3
      <4> QED
        BY <1>0, <1>t, <3>1, <3>3, <4>1
    <3> QED
      BY <2>5, <3>2, <3>3 DEF Release
  <2> QED
    BY <1>2, <2>1, <2>2, <2>3, <2>4, <2>5 DEF Handler, Session
<1>3. ASSUME NEW c \in Calls, Again(c) PROVE ServerRegistry'
  <2>1. /\ UNCHANGED ssessions /\ session'[c].pc = "none"
        /\ \A d \in Calls : d # c => session'[d] = session[d]
    BY <1>t, <1>3 DEF Again, registryVars
  <2>2. session[c].pc \in {"none", "closed"}
    BY <1>0, <1>3 DEF Again, HandlerInv
  <2> QED
    BY <1>0, <1>t, <2>1, <2>2
<1>4. CASE Background \/ UNCHANGED vars
  BY <1>0, <1>4, BackgroundFrame
<1> QED
  BY <1>1, <1>2, <1>3, <1>4, StepKinds

\* A handler and its session.
LEMMA KeepsHandlers ==
  ASSUME StreamsAreFinite, UDPAssumption, IInv, [Next]_vars
  PROVE  HandlerInv'
<1>0. HandlerInv /\ TypeInv
  BY DEF IInv
<1> USE DEF HandlerInv
<1>t. /\ call \in [Calls -> CallStates] /\ session \in [Calls -> SessionStates]
      /\ answer \in [Calls -> 0..MaxID] /\ handler \in [Calls -> HandlerPcs]
  BY <1>0 DEF TypeInv
<1>1. ASSUME NEW c \in Calls, Client(c) PROVE HandlerInv'
  <2>1. UNCHANGED <<handler, session>>
    BY <1>1, ClientFrame
  <2>2. /\ answer[c] # 0 => answer'[c] = 0 \/ call'[c].pc = "requested"
        /\ answer[c] = 0 => answer'[c] = 0
        /\ \A d \in Calls : d # c => answer'[d] = answer[d] /\ call'[d] = call[d]
    <3>1. CASE ReserveSession(c) \/ Request(c) \/ FinishStream(c) \/ Terminate(c)
      <4>1. UNCHANGED answer /\ answer[c] = 0
        BY <1>0, <3>1 DEF ReserveSession, Request, FinishStream, Terminate, serverVars
      <4>2. \A d \in Calls : d # c => call'[d] = call[d]
        BY <1>t, <3>1, CallMoves DEF ReserveSession, Request, FinishStream, Terminate
      <4> QED
        BY <4>1, <4>2
    <3>2. CASE ReleaseReservation(c) \/ RegisterAssigned(c)
      <4>1. answer'[c] = 0 /\ \A d \in Calls : d # c => answer'[d] = answer[d]
        BY <1>t, <3>2 DEF ReleaseReservation, RegisterAssigned
      <4>2. \A d \in Calls : d # c => call'[d] = call[d]
        BY <1>t, <3>2, CallMoves DEF ReleaseReservation, RegisterAssigned
      <4> QED
        BY <4>1, <4>2
    <3> QED
      BY <1>1, <3>1, <3>2 DEF Client
  <2>3. call'[c].pc \in {"idle", "reserved"} => call[c].pc \in {"idle", "reserved"}
    <3>1. CASE ReserveSession(c) \/ ReleaseReservation(c)
      BY <1>t, <3>1, CallMoves DEF ReserveSession, ReleaseReservation
    <3>2. CASE Request(c) \/ RegisterAssigned(c) \/ Terminate(c) \/ FinishStream(c)
      BY <1>t, <3>2, CallMoves DEF Request, RegisterAssigned, Terminate, FinishStream
    <3> QED
      BY <1>1, <3>1, <3>2 DEF Client
  <2> QED
    BY <1>0, <1>t, <2>1, <2>2, <2>3
<1>2. ASSUME NEW c \in Calls, Handler(c) \/ Session(c) PROVE HandlerInv'
  <2>1. UNCHANGED call
    BY <1>2, ServerFrame
  <2>2. CASE Decline(c) \/ Acquire(c)
    <3>1. /\ UNCHANGED <<session, answer>> /\ handler[c] = "none" /\ Requested(c)
          /\ \E pc \in {"refuse", "register", "release"} : HandlerTo(c, pc)
      BY <2>2 DEF Decline, Acquire, SourceFull
    <3> QED
      BY <1>0, <1>t, <2>1, <3>1 DEF HandlerTo, Requested
  <2>3. CASE Register(c) /\ Canceled(server)
    <3>1. /\ UNCHANGED <<session, answer>> /\ handler[c] = "register"
          /\ HandlerTo(c, "release")
      BY <2>3 DEF Register
    <3> QED
      BY <1>0, <1>t, <2>1, <3>1 DEF HandlerTo
  <2>4. CASE Register(c) /\ ~Canceled(server)
    <3>1. PICK i \in IDs \ DOMAIN ssessions :
            /\ nextSession' = i /\ ssessions' = With(ssessions, i, c)
            /\ session' = [session EXCEPT ![c] = [pc |-> "running", id |-> i]]
            /\ handler' = [handler EXCEPT ![c] = "respond"]
      BY <2>4, Registers
    <3>2. UNCHANGED answer /\ handler[c] = "register"
      BY <2>4 DEF Register
    <3> QED
      BY <1>0, <1>t, <2>1, <3>1, <3>2
  <2>5. CASE Respond(c)
    <3>1. /\ UNCHANGED session /\ handler[c] = "respond"
          /\ \/ HandlerTo(c, "lease") \/ HandlerTo(c, "close")
          /\ \A d \in Calls : d # c => answer'[d] = answer[d]
          /\ answer'[c] # 0 => call[c].pc = "requested" \/ answer[c] # 0
      BY <1>t, <2>5 DEF Respond
    <3> QED
      BY <1>0, <1>t, <2>1, <3>1 DEF HandlerTo
  <2>6. CASE LeaseEnds(c) \/ HandlerReturns(c)
    <3>1. UNCHANGED <<session, answer>>
      BY <2>6 DEF LeaseEnds, HandlerReturns
    <3> QED
      BY <1>0, <1>t, <2>1, <2>6, <3>1 DEF LeaseEnds, HandlerReturns, HandlerTo
  <2>7. CASE HandlerCloses(c) \/ ShutdownCloses(c) \/ Unregister(c)
    <3>1. /\ UNCHANGED <<handler, answer>> /\ session[c].pc \in {"running", "stopped"}
          /\ SessionTo(c, "stopped") \/ SessionTo(c, "release")
      BY <2>7 DEF HandlerCloses, ShutdownCloses, Unregister, Close
    <3>2. /\ session'[c].pc \in {"stopped", "release"}
          /\ \A d \in Calls : d # c => session'[d] = session[d]
      BY <1>t, <3>1, SessionMoves
    <3> QED
      BY <1>0, <1>t, <2>1, <3>1, <3>2
  <2>8. CASE Release(c)
    <3>1. UNCHANGED answer
      BY <2>8 DEF Release
    <3>2. CASE handler[c] = "release" /\ HandlerTo(c, "refuse") /\ UNCHANGED session
      BY <1>0, <1>t, <2>1, <3>1, <3>2 DEF HandlerTo
    <3>3. CASE /\ session[c].pc = "release" /\ UNCHANGED handler
               /\ session' = [session EXCEPT ![c] = [pc |-> "closed", id |-> 0]]
      BY <1>0, <1>t, <2>1, <3>1, <3>3
    <3> QED
      BY <2>8, <3>2, <3>3 DEF Release
  <2> QED
    BY <1>2, <2>2, <2>3, <2>4, <2>5, <2>6, <2>7, <2>8 DEF Handler, Session
<1>3. ASSUME NEW c \in Calls, Again(c) PROVE HandlerInv'
  <2>1. /\ UNCHANGED answer /\ answer[c] = 0
        /\ handler'[c] = "none" /\ session'[c].pc = "none"
        /\ \A d \in Calls : d # c => /\ session'[d] = session[d] /\ call'[d] = call[d]
                                     /\ handler'[d] = handler[d]
    BY <1>0, <1>t, <1>3 DEF Again
  <2> QED
    BY <1>0, <1>t, <2>1
<1>4. CASE Background \/ UNCHANGED vars
  BY <1>0, <1>4, BackgroundFrame
<1> QED
  BY <1>1, <1>2, <1>3, <1>4, StepKinds

\* The connection does not come back and a shutdown is not undone.
LEMMA LivesOn ==
  ASSUME TypeInv, [Next]_vars, link', server'.phase = "run"
  PROVE  link /\ server.phase = "run"
<1>1. CASE \E c \in Calls : Client(c)
  BY <1>1, ClientFrame
<1>2. CASE \E c \in Calls : Handler(c) \/ Session(c)
  BY <1>2, ServerFrame
<1>3. CASE \E c \in Calls : Again(c)
  <2>1. UNCHANGED <<link, server>>
    BY <1>3 DEF Again
  <2> QED
    BY <2>1
<1>4. CASE ClientShutdown \/ ClientSnapshot \/ ServerShutdown \/ ServerSnapshot
  <2>1. CASE ClientShutdown \/ ClientSnapshot
    BY <2>1 DEF ClientShutdown, ClientSnapshot, serverVars
  <2>2. CASE ServerShutdown
    BY <2>2 DEF ServerShutdown, TypeInv, Dispatchers
  <2>3. CASE ServerSnapshot
    BY <2>3 DEF ServerSnapshot
  <2> QED
    BY <1>4, <2>1, <2>2, <2>3
<1>5. CASE \/ \E i \in Followed : ClientReceives(i)
           \/ \E i \in Followed : ServerReceives(i)
           \/ LinkDies \/ OthersTake \/ OthersRelease
  BY <1>5 DEF ClientReceives, ServerReceives, LinkDies, OthersTake, OthersRelease, serverVars
<1>6. CASE UNCHANGED vars
  BY <1>6 DEF vars, serverVars
<1> QED
  BY <1>1, <1>2, <1>3, <1>4, <1>5, <1>6, StepKinds DEF Background

\* What both ends have agreed on.
LEMMA KeepsAgreement ==
  ASSUME StreamsAreFinite, UDPAssumption, IInv, [Next]_vars
  PROVE  AgreeInv'
<1> SUFFICES ASSUME link', server'.phase = "run" PROVE AgreeInv'
  BY DEF AgreeInv
<1>0. AgreeInv /\ HandlerInv /\ ShutdownInv /\ TypeInv
  BY DEF IInv
<1>a. link /\ server.phase = "run" /\ server.todo = {} /\ ~Canceled(server)
  BY <1>0, LivesOn DEF ShutdownInv, Canceled
<1> USE <1>a DEF AgreeInv
<1>t. /\ call \in [Calls -> CallStates] /\ session \in [Calls -> SessionStates]
      /\ answer \in [Calls -> 0..MaxID] /\ handler \in [Calls -> HandlerPcs]
  BY <1>0 DEF TypeInv
<1>1. ASSUME NEW c \in Calls, Client(c) PROVE AgreeInv'
  <2>1. UNCHANGED <<handler, session>>
    BY <1>1, ClientFrame
  <2>2. CASE ReserveSession(c) \/ Request(c) \/ FinishStream(c) \/ Terminate(c)
    <3>1. UNCHANGED answer /\ call'[c].pc # "open"
      BY <1>t, <2>2, CallMoves
      DEF ReserveSession, Request, FinishStream, Terminate, serverVars
    <3>2. \A d \in Calls : d # c => call'[d] = call[d]
      BY <1>t, <2>2, CallMoves DEF ReserveSession, Request, FinishStream, Terminate
    <3> QED
      BY <1>0, <2>1, <3>1, <3>2
  <2>3. CASE ReleaseReservation(c) \/ (RegisterAssigned(c) /\ ~CanRegister(answer[c]))
    <3>1. /\ answer'[c] = 0 /\ call'[c].pc # "open"
          /\ \A d \in Calls : d # c => answer'[d] = answer[d]
      BY <1>t, <2>3, CallMoves DEF ReleaseReservation, RegisterAssigned
    <3>2. \A d \in Calls : d # c => call'[d] = call[d]
      BY <1>t, <2>3, CallMoves DEF ReleaseReservation, RegisterAssigned
    <3> QED
      BY <1>0, <2>1, <3>1, <3>2
  <2>4. CASE RegisterAssigned(c) /\ CanRegister(answer[c])
    <3>1. /\ answer[c] # 0 /\ answer'[c] = 0
          /\ call'[c].id = answer[c]
          /\ \A d \in Calls : d # c => answer'[d] = answer[d] /\ call'[d] = call[d]
      BY <1>t, <2>4 DEF RegisterAssigned
    <3> QED
      BY <1>0, <2>1, <3>1
  <2> QED
    BY <1>1, <2>2, <2>3, <2>4 DEF Client
<1>2. ASSUME NEW c \in Calls, Handler(c) \/ Session(c) PROVE AgreeInv'
  <2>1. UNCHANGED call
    BY <1>2, ServerFrame
  <2>2. CASE Decline(c) \/ Acquire(c)
    <3>1. /\ UNCHANGED <<session, answer>> /\ handler[c] = "none"
          /\ \E pc \in {"refuse", "register", "release"} : HandlerTo(c, pc)
      BY <2>2 DEF Decline, Acquire, SourceFull
    <3> QED
      BY <1>0, <1>t, <2>1, <3>1 DEF HandlerTo
  <2>3. CASE Register(c)
    <3>1. PICK i \in IDs \ DOMAIN ssessions :
            /\ nextSession' = i /\ ssessions' = With(ssessions, i, c)
            /\ session' = [session EXCEPT ![c] = [pc |-> "running", id |-> i]]
            /\ handler' = [handler EXCEPT ![c] = "respond"]
      BY <2>3, Registers
    <3>2. UNCHANGED answer /\ handler[c] = "register"
      BY <2>3 DEF Register
    <3> QED
      BY <1>0, <1>t, <2>1, <3>1, <3>2
  <2>4. CASE Respond(c) /\ HandlerTo(c, "lease")
    <3>1. UNCHANGED session /\ handler[c] = "respond" /\ handler'[c] = "lease"
      BY <1>t, <2>4 DEF Respond, HandlerTo
    <3>2. answer'[c] \in {0, session[c].id}
      BY <1>0, <1>t, <2>4, <3>1 DEF Respond, HandlerTo
    <3>3. \A d \in Calls : d # c => answer'[d] = answer[d] /\ handler'[d] = handler[d]
      BY <1>t, <2>4 DEF Respond, HandlerTo
    <3> QED
      BY <1>0, <2>1, <3>1, <3>2, <3>3
  <2>5. CASE Respond(c) /\ HandlerTo(c, "close") /\ UNCHANGED answer
    <3>1. UNCHANGED session /\ handler[c] = "respond"
      BY <2>5 DEF Respond
    <3> QED
      BY <1>0, <1>t, <2>1, <2>5, <3>1 DEF HandlerTo
  <2>6. CASE LeaseEnds(c)
    <3>1. UNCHANGED <<session, answer>> /\ call[c].pc = "over"
      BY <2>6 DEF LeaseEnds, LeaseOver, Finished
    <3>2. answer[c] = 0
      BY <1>0, <3>1 DEF HandlerInv
    <3> QED
      BY <1>0, <1>t, <2>1, <2>6, <3>1, <3>2 DEF LeaseEnds, HandlerTo
  <2>7. CASE HandlerReturns(c)
    <3>1. UNCHANGED <<session, answer>>
      BY <2>7 DEF HandlerReturns
    <3> QED
      BY <1>0, <1>t, <2>1, <2>7, <3>1 DEF HandlerReturns, HandlerTo
  <2>8. CASE HandlerCloses(c) \/ Unregister(c)
    <3>1. /\ UNCHANGED <<handler, answer>>
          /\ handler[c] \notin {"respond", "lease"}
          /\ SessionTo(c, "stopped") \/ SessionTo(c, "release")
      BY <1>0, <2>8 DEF HandlerCloses, Unregister, Close
    <3>2. \A d \in Calls : d # c => session'[d] = session[d]
      BY <1>t, <3>1, SessionMoves
    <3> QED
      BY <1>0, <1>t, <2>1, <3>1, <3>2
  <2>9. CASE ShutdownCloses(c)
    BY <2>9 DEF ShutdownCloses
  <2>10. CASE Release(c)
    <3>1. UNCHANGED answer
      BY <2>10 DEF Release
    <3>2. CASE handler[c] = "release" /\ HandlerTo(c, "refuse") /\ UNCHANGED session
      BY <1>0, <1>t, <2>1, <3>1, <3>2 DEF HandlerTo
    <3>3. CASE /\ session[c].pc = "release" /\ UNCHANGED handler
               /\ session' = [session EXCEPT ![c] = [pc |-> "closed", id |-> 0]]
      BY <1>0, <1>t, <2>1, <3>1, <3>3
    <3> QED
      BY <2>10, <3>2, <3>3 DEF Release
  <2> QED
    BY <1>2, <2>2, <2>3, <2>4, <2>5, <2>6, <2>7, <2>8, <2>9, <2>10
    DEF Handler, Session, Respond
<1>3. ASSUME NEW c \in Calls, Again(c) PROVE AgreeInv'
  <2>1. /\ UNCHANGED answer /\ answer[c] = 0
        /\ handler'[c] = "none" /\ call'[c].pc = "idle"
        /\ \A d \in Calls : d # c => /\ session'[d] = session[d] /\ call'[d] = call[d]
                                     /\ handler'[d] = handler[d]
    BY <1>0, <1>t, <1>3 DEF Again, HandlerInv
  <2> QED
    BY <1>0, <1>t, <2>1
<1>4. CASE Background \/ UNCHANGED vars
  BY <1>0, <1>4, BackgroundFrame
<1> QED
  BY <1>1, <1>2, <1>3, <1>4, StepKinds

\* Shutdown's snapshots: nothing is registered after it.
LEMMA KeepsShutdown ==
  ASSUME StreamsAreFinite, UDPAssumption, IInv, [Next]_vars
  PROVE  ShutdownInv'
<1>0. ShutdownInv /\ TypeInv
  BY DEF IInv
<1> USE DEF ShutdownInv
<1>1. ASSUME NEW c \in Calls, Client(c) PROVE ShutdownInv'
  <2>1. UNCHANGED <<client, server, ssessions>>
    BY <1>1, ClientFrame
  <2>2. CASE UNCHANGED csessions
    BY <1>0, <2>1, <2>2
  <2>3. CASE RegisterAssigned(c) /\ CanRegister(answer[c])
    BY <1>0, <2>1, <2>3 DEF CanRegister, Canceled
  <2>4. CASE Terminate(c)
    <3>1. csessions' = Without(csessions, call[c].id)
      BY <2>4, Terminates
    <3>2. DOMAIN csessions' \subseteq DOMAIN csessions
          /\ \A j \in DOMAIN csessions' : csessions'[j] = csessions[j]
      BY <3>1 DEF Without, Restrict
    <3> QED
      BY <1>0, <2>1, <3>2
  <2> QED
    BY <1>1, <2>2, <2>3, <2>4
    DEF Client, ReserveSession, Request, ReleaseReservation, RegisterAssigned, FinishStream
<1>2. ASSUME NEW c \in Calls, Handler(c) \/ Session(c) PROVE ShutdownInv'
  <2>1. UNCHANGED <<client, server, csessions>>
    BY <1>2, ServerFrame
  <2>2. CASE UNCHANGED ssessions
    BY <1>0, <2>1, <2>2
  <2>3. CASE Register(c) /\ ~Canceled(server)
    BY <1>0, <2>1, <2>3 DEF Canceled
  <2>4. CASE Unregister(c)
    <3>1. ssessions' = Without(ssessions, session[c].id)
      BY <2>4, Unregisters
    <3>2. DOMAIN ssessions' \subseteq DOMAIN ssessions
          /\ \A j \in DOMAIN ssessions' : ssessions'[j] = ssessions[j]
      BY <3>1 DEF Without, Restrict
    <3> QED
      BY <1>0, <2>1, <3>2
  <2> QED
    BY <1>2, <2>2, <2>3, <2>4
    DEF Handler, Session, Decline, Acquire, Register, Respond, LeaseEnds, HandlerReturns,
        HandlerCloses, ShutdownCloses, Close, Release, registryVars
<1>3. ASSUME NEW c \in Calls, Again(c) PROVE ShutdownInv'
  <2>1. UNCHANGED <<client, server, csessions, ssessions>>
    BY <1>3 DEF Again, registryVars
  <2> QED
    BY <1>0, <2>1
<1>4. CASE ClientShutdown \/ ClientSnapshot
  <2>1. UNCHANGED <<server, csessions, ssessions>>
    BY <1>4 DEF ClientShutdown, ClientSnapshot, serverVars, registryVars
  <2>2. CASE ClientShutdown
    BY <1>0, <2>1, <2>2 DEF ClientShutdown, TypeInv, Dispatchers
  <2>3. CASE ClientSnapshot
    BY <1>0, <2>1, <2>3 DEF ClientSnapshot, Range
  <2> QED
    BY <1>4, <2>2, <2>3
<1>5. CASE ServerShutdown \/ ServerSnapshot
  <2>1. UNCHANGED <<client, csessions, ssessions>>
    BY <1>5 DEF ServerShutdown, ServerSnapshot, clientVars, registryVars
  <2>2. CASE ServerShutdown
    BY <1>0, <2>1, <2>2 DEF ServerShutdown, TypeInv, Dispatchers
  <2>3. CASE ServerSnapshot
    BY <1>0, <2>1, <2>3 DEF ServerSnapshot, Range
  <2> QED
    BY <1>5, <2>2, <2>3
<1>6. CASE \/ \E i \in Followed : ClientReceives(i)
           \/ \E i \in Followed : ServerReceives(i)
           \/ LinkDies \/ OthersTake \/ OthersRelease
  <2>1. UNCHANGED <<client, server, csessions, ssessions>>
    BY <1>6 DEF ClientReceives, ServerReceives, LinkDies, OthersTake, OthersRelease,
                clientVars, serverVars, registryVars
  <2> QED
    BY <1>0, <2>1
<1>7. CASE UNCHANGED vars
  BY <1>0, <1>7 DEF vars, clientVars, serverVars, registryVars
<1> QED
  BY <1>1, <1>2, <1>3, <1>4, <1>5, <1>6, <1>7, StepKinds DEF Background

\* The fragments that are kept are those of registered sessions.
LEMMA KeepsPartial ==
  ASSUME StreamsAreFinite, UDPAssumption, IInv, [Next]_vars
  PROVE  PartialInv'
<1>0. PartialInv /\ TypeInv
  BY DEF IInv
<1> USE DEF PartialInv
<1>1. ASSUME NEW c \in Calls, Client(c) PROVE PartialInv'
  <2>1. UNCHANGED <<ssessions, spartial>>
    BY <1>1, ClientFrame
  <2>2. CASE Terminate(c)
    <3>1. /\ csessions' = Without(csessions, call[c].id)
          /\ cpartial' = cpartial \ {call[c].id}
      BY <2>2, Terminates
    <3> QED
      BY <1>0, <2>1, <3>1 DEF Without, Restrict
  <2>3. CASE RegisterAssigned(c)
    <3>1. UNCHANGED cpartial /\ DOMAIN csessions \subseteq DOMAIN csessions'
      BY <2>3 DEF RegisterAssigned, With
    <3> QED
      BY <1>0, <2>1, <3>1
  <2>4. CASE UNCHANGED <<csessions, cpartial>>
    BY <1>0, <2>1, <2>4
  <2> QED
    BY <1>1, <2>2, <2>3, <2>4
    DEF Client, ReserveSession, Request, ReleaseReservation, FinishStream
<1>2. ASSUME NEW c \in Calls, Handler(c) \/ Session(c) PROVE PartialInv'
  <2>1. UNCHANGED <<csessions, cpartial>>
    BY <1>2, ServerFrame
  <2>2. CASE Unregister(c)
    <3>1. /\ ssessions' = Without(ssessions, session[c].id)
          /\ spartial' = spartial \ {session[c].id}
      BY <2>2, Unregisters
    <3> QED
      BY <1>0, <2>1, <3>1 DEF Without, Restrict
  <2>3. CASE Register(c) /\ ~Canceled(server)
    <3>1. UNCHANGED spartial /\ DOMAIN ssessions \subseteq DOMAIN ssessions'
      BY <2>3 DEF Register, With
    <3> QED
      BY <1>0, <2>1, <3>1
  <2>4. CASE UNCHANGED <<ssessions, spartial>>
    BY <1>0, <2>1, <2>4
  <2> QED
    BY <1>2, <2>2, <2>3, <2>4
    DEF Handler, Session, Decline, Acquire, Register, Respond, LeaseEnds, HandlerReturns,
        HandlerCloses, ShutdownCloses, Close, Release, registryVars
<1>3. ASSUME NEW c \in Calls, Again(c) PROVE PartialInv'
  <2>1. UNCHANGED <<csessions, cpartial, ssessions, spartial>>
    BY <1>3 DEF Again, registryVars
  <2> QED
    BY <1>0, <2>1
<1>4. ASSUME NEW i \in Followed, ClientReceives(i) PROVE PartialInv'
  BY <1>0, <1>4 DEF ClientReceives, serverVars, registryVars
<1>5. ASSUME NEW i \in Followed, ServerReceives(i) PROVE PartialInv'
  BY <1>0, <1>5 DEF ServerReceives, clientVars
<1>6. CASE \/ ClientShutdown \/ ClientSnapshot \/ ServerShutdown \/ ServerSnapshot
           \/ LinkDies \/ OthersTake \/ OthersRelease \/ UNCHANGED vars
  <2>1. UNCHANGED <<csessions, cpartial, ssessions, spartial>>
    BY <1>6 DEF ClientShutdown, ClientSnapshot, ServerShutdown, ServerSnapshot, LinkDies,
                OthersTake, OthersRelease, vars, clientVars, serverVars, registryVars
  <2> QED
    BY <1>0, <2>1
<1> QED
  BY <1>1, <1>2, <1>3, <1>4, <1>5, <1>6, StepKinds DEF Background

-----------------------------------------------------------------------------
(* The counters. *)

\* Adding a stream to a set of streams counts one more.
LEMMA CountUp ==
  ASSUME StreamsAreFinite, NEW S \in SUBSET Calls, NEW c \in Calls, c \notin S
  PROVE  Cardinality(S \cup {c}) = Cardinality(S) + 1 /\ Cardinality(S) \in Nat
BY FS_Subset, FS_AddElement, FS_CardinalityType DEF StreamsAreFinite

\* Removing one counts one less.
LEMMA CountDown ==
  ASSUME StreamsAreFinite, NEW S \in SUBSET Calls, NEW c \in Calls, c \in S
  PROVE  /\ Cardinality(S \ {c}) = Cardinality(S) - 1
         /\ Cardinality(S) \in Nat \ {0} /\ Cardinality(S \ {c}) \in Nat
<1>1. IsFiniteSet(S) /\ IsFiniteSet(S \ {c})
  BY FS_Subset, FS_RemoveElement DEF StreamsAreFinite
<1>2. Cardinality(S) \in Nat /\ Cardinality(S \ {c}) \in Nat
  BY <1>1, FS_CardinalityType
<1>3. Cardinality(S \ {c}) = Cardinality(S) - 1
  BY <1>1, FS_RemoveElement
<1> QED
  BY <1>2, <1>3

\* The counters count streams.
LEMMA CountersAreNumbers ==
  ASSUME StreamsAreFinite, IInv
  PROVE  /\ Cardinality(Holders) \in Nat /\ slots \in Nat /\ source \in Nat
         /\ Cardinality(Reserving) \in Nat /\ pending \in Nat
<1>1. IsFiniteSet(Holders) /\ IsFiniteSet(Reserving)
  BY FS_Subset DEF StreamsAreFinite, Holders, Reserving
<1>2. Cardinality(Holders) \in Nat /\ Cardinality(Reserving) \in Nat
  BY <1>1, FS_CardinalityType
<1> QED
  BY <1>2 DEF IInv, TypeInv, LimitsInv, ReservationsInv

\* A registry's size is a number, and changes with the registry by one.
LEMMA RegistrySize ==
  ASSUME UDPAssumption, NEW S \in Registries
  PROVE  /\ Cardinality(DOMAIN S) \in Nat
         /\ \A i \in IDs : i \notin DOMAIN S =>
              Cardinality(DOMAIN S \cup {i}) = Cardinality(DOMAIN S) + 1
         /\ \A i \in DOMAIN S : Cardinality(DOMAIN S \ {i}) = Cardinality(DOMAIN S) - 1
<1>1. IsFiniteSet(IDs)
  BY FS_Interval DEF IDs, UDPAssumption
<1>2. IsFiniteSet(DOMAIN S)
  BY <1>1, ListsCalls, FS_Subset
<1> QED
  BY <1>2, FS_CardinalityType, FS_AddElement, FS_RemoveElement

\* Whom a step of one stream's handler or session makes a holder.
LEMMA HoldersOf ==
  ASSUME NEW c \in Calls,
         \A d \in Calls : d # c => handler'[d] = handler[d] /\ session'[d] = session[d]
  PROVE  /\ Holds(c)' /\ Holds(c) => Holders' = Holders
         /\ ~Holds(c)' /\ ~Holds(c) => Holders' = Holders
         /\ Holds(c)' /\ ~Holds(c) => Holders' = Holders \cup {c} /\ c \notin Holders
         /\ ~Holds(c)' /\ Holds(c) => Holders' = Holders \ {c} /\ c \in Holders
<1>1. \A d \in Calls : d # c => (Holds(d)' <=> Holds(d))
  BY DEF Holds
<1> QED
  BY <1>1 DEF Holders

\* The limits: acquire takes a slot and a share for whom release gives it back.
LEMMA KeepsLimits ==
  ASSUME StreamsAreFinite, UDPAssumption, IInv, [Next]_vars
  PROVE  LimitsInv'
<1>0. LimitsInv /\ HandlerInv /\ TypeInv
  BY DEF IInv
<1>n. /\ Cardinality(Holders) \in Nat /\ others \in Nat
      /\ MaxSlots \in Nat /\ MaxSource \in Nat
  BY <1>0, CountersAreNumbers DEF TypeInv, UDPAssumption
<1>t. session \in [Calls -> SessionStates] /\ handler \in [Calls -> HandlerPcs]
  BY <1>0 DEF TypeInv
<1>u. ASSUME UNCHANGED <<slots, source, others, handler, session>> PROVE LimitsInv'
  <2>1. Holders' = Holders
    BY <1>u DEF Holders, Holds
  <2> QED
    BY <1>0, <1>u, <2>1 DEF LimitsInv
<1>1. ASSUME NEW c \in Calls, Client(c) PROVE LimitsInv'
  BY <1>1, <1>u, ClientFrame
<1>2. ASSUME NEW c \in Calls, Handler(c) \/ Session(c) PROVE LimitsInv'
  <2>1. UNCHANGED others
    BY <1>2, ServerFrame
  <2>2. ASSUME UNCHANGED <<slots, source>>, Holds(c)' <=> Holds(c),
               \A d \in Calls : d # c => handler'[d] = handler[d] /\ session'[d] = session[d]
        PROVE  LimitsInv'
    <3>1. Holders' = Holders
      BY <2>2, HoldersOf
    <3> QED
      BY <1>0, <2>1, <2>2, <3>1 DEF LimitsInv
  <2>3. CASE Decline(c) \/ LeaseEnds(c) \/ HandlerReturns(c) \/ Respond(c)
    <3>1. /\ UNCHANGED <<slots, source, session>>
          /\ handler[c] \notin {"register", "release"}
          /\ \E pc \in {"refuse", "lease", "close", "over"} : HandlerTo(c, pc)
      BY <2>3 DEF Decline, LeaseEnds, HandlerReturns, Respond, limitVars
    <3>2. /\ handler'[c] \notin {"register", "release"}
          /\ \A d \in Calls : d # c => handler'[d] = handler[d]
      BY <1>t, <3>1 DEF HandlerTo
    <3>3. Holds(c)' <=> Holds(c)
      BY <3>1, <3>2 DEF Holds
    <3> QED
      BY <2>2, <3>1, <3>2, <3>3
  <2>4. CASE Acquire(c)
    <3>1. handler[c] = "none" /\ session[c].pc = "none" /\ UNCHANGED session
      BY <1>0, <2>4 DEF Acquire, HandlerInv
    <3>2. CASE HandlerTo(c, "refuse") /\ UNCHANGED <<slots, source>>
      <4>1. Holds(c)' <=> Holds(c)
        BY <1>t, <3>1, <3>2 DEF Holds, HandlerTo
      <4> QED
        BY <1>t, <2>2, <3>1, <3>2, <4>1 DEF HandlerTo
    <3>3. CASE /\ slots < MaxSlots /\ source < MaxSource
               /\ slots' = slots + 1 /\ source' = source + 1
               /\ HandlerTo(c, "register") \/ HandlerTo(c, "release")
      <4>1. Holds(c)' /\ ~Holds(c)
        BY <1>t, <3>1, <3>3 DEF Holds, HandlerTo
      <4>2. \A d \in Calls : d # c => handler'[d] = handler[d] /\ session'[d] = session[d]
        BY <1>t, <3>1, <3>3 DEF HandlerTo
      <4>3. Holders' = Holders \cup {c} /\ c \notin Holders
        BY <4>1, <4>2, HoldersOf
      <4>4. Cardinality(Holders') = Cardinality(Holders) + 1
        BY <4>3, CountUp DEF Holders
      <4> QED
        BY <1>0, <1>n, <2>1, <3>3, <4>4 DEF LimitsInv
    <3> QED
      BY <2>4, <3>2, <3>3 DEF Acquire, SourceFull
  <2>5. CASE Register(c) /\ Canceled(server)
    <3>1. /\ handler[c] = "register" /\ HandlerTo(c, "release")
          /\ UNCHANGED <<slots, source, session>>
      BY <2>5 DEF Register, limitVars
    <3>2. Holds(c)' <=> Holds(c)
      BY <1>t, <3>1 DEF Holds, HandlerTo
    <3> QED
      BY <1>t, <2>2, <3>1, <3>2 DEF HandlerTo
  <2>6. CASE Register(c) /\ ~Canceled(server)
    <3>1. PICK i \in IDs \ DOMAIN ssessions :
            /\ nextSession' = i /\ ssessions' = With(ssessions, i, c)
            /\ session' = [session EXCEPT ![c] = [pc |-> "running", id |-> i]]
            /\ handler' = [handler EXCEPT ![c] = "respond"]
      BY <2>6, Registers
    <3>2. handler[c] = "register" /\ UNCHANGED <<slots, source>>
      BY <2>6 DEF Register, limitVars
    <3>3. Holds(c)' <=> Holds(c)
      BY <1>t, <3>1, <3>2 DEF Holds
    <3> QED
      BY <1>t, <2>2, <3>1, <3>2, <3>3
  <2>7. CASE HandlerCloses(c) \/ ShutdownCloses(c) \/ Unregister(c)
    <3>1. /\ UNCHANGED <<handler, slots, source>> /\ session[c].pc \in {"running", "stopped"}
          /\ SessionTo(c, "stopped") \/ SessionTo(c, "release")
      BY <2>7 DEF HandlerCloses, ShutdownCloses, Unregister, Close, limitVars
    <3>2. /\ session'[c].pc \in {"stopped", "release"}
          /\ \A d \in Calls : d # c => session'[d] = session[d]
      BY <1>t, <3>1, SessionMoves
    <3>3. Holds(c)' <=> Holds(c)
      BY <3>1, <3>2 DEF Holds
    <3> QED
      BY <2>2, <3>1, <3>2, <3>3
  <2>8. CASE Release(c)
    <3>1. Holds(c) /\ ~Holds(c)'
      <4>1. CASE handler[c] = "release" /\ HandlerTo(c, "refuse") /\ UNCHANGED session
        BY <1>0, <1>t, <4>1 DEF Holds, HandlerTo, HandlerInv
      <4>2. CASE /\ session[c].pc = "release" /\ UNCHANGED handler
                 /\ session' = [session EXCEPT ![c] = [pc |-> "closed", id |-> 0]]
        BY <1>0, <1>t, <4>2 DEF Holds, HandlerInv
      <4> QED
        BY <2>8, <4>1, <4>2 DEF Release
    <3>2. \A d \in Calls : d # c => handler'[d] = handler[d] /\ session'[d] = session[d]
      BY <1>t, <2>8 DEF Release, HandlerTo
    <3>3. Holders' = Holders \ {c} /\ c \in Holders
      BY <3>1, <3>2, HoldersOf
    <3>4. Cardinality(Holders') = Cardinality(Holders) - 1
      BY <3>3, CountDown DEF Holders
    <3>5. slots' = slots - 1 /\ source' = source - 1
      BY <2>8 DEF Release
    <3> QED
      BY <1>0, <1>n, <2>1, <3>4, <3>5 DEF LimitsInv
  <2> QED
    BY <1>2, <2>3, <2>4, <2>5, <2>6, <2>7, <2>8 DEF Handler, Session
<1>3. ASSUME NEW c \in Calls, Again(c) PROVE LimitsInv'
  <2>1. UNCHANGED <<slots, source, others>>
    BY <1>3 DEF Again, limitVars
  <2>2. \A d \in Calls : d # c => handler'[d] = handler[d] /\ session'[d] = session[d]
    BY <1>t, <1>3 DEF Again
  <2>3. ~Holds(c) /\ ~Holds(c)'
    BY <1>0, <1>t, <1>3 DEF Again, Holds, HandlerInv
  <2>4. Holders' = Holders
    BY <2>2, <2>3, HoldersOf
  <2> QED
    BY <1>0, <2>1, <2>4 DEF LimitsInv
<1>4. CASE OthersTake \/ OthersRelease
  <2>1. UNCHANGED <<handler, session>>
    BY <1>4, BackgroundFrame DEF Background
  <2>2. Holders' = Holders
    BY <2>1 DEF Holders, Holds
  <2> QED
    BY <1>0, <1>n, <1>4, <2>2 DEF LimitsInv, OthersTake, OthersRelease
<1>5. CASE \/ ClientShutdown \/ ClientSnapshot \/ ServerShutdown \/ ServerSnapshot
           \/ \E i \in Followed : ClientReceives(i)
           \/ \E i \in Followed : ServerReceives(i)
           \/ LinkDies \/ UNCHANGED vars
  <2>1. UNCHANGED <<slots, source, others, handler, session>>
    BY <1>5 DEF ClientShutdown, ClientSnapshot, ServerShutdown, ServerSnapshot, LinkDies,
                ClientReceives, ServerReceives, vars, serverVars, limitVars
  <2> QED
    BY <1>u, <2>1
<1> QED
  BY <1>1, <1>2, <1>3, <1>4, <1>5, StepKinds DEF Background

\* The client's reservations: one from reserveSession until the reservation is
\* released or registered.
LEMMA KeepsReservations ==
  ASSUME StreamsAreFinite, UDPAssumption, IInv, [Next]_vars
  PROVE  ReservationsInv'
<1>0. ReservationsInv /\ HandlerInv /\ TypeInv
  BY DEF IInv
<1>t. /\ call \in [Calls -> CallStates] /\ csessions \in Registries
      /\ DOMAIN csessions \subseteq IDs
  BY <1>0, ListsCalls DEF TypeInv
<1>n. /\ Cardinality(Reserving) \in Nat /\ Cardinality(DOMAIN csessions) \in Nat
      /\ MaxClient \in Nat
  BY <1>t, CountersAreNumbers, RegistrySize DEF UDPAssumption
<1>u. ASSUME UNCHANGED <<call, csessions, pending>> PROVE ReservationsInv'
  BY <1>0, <1>u DEF ReservationsInv, Reserving
<1>1. ASSUME NEW c \in Calls, Client(c) PROVE ReservationsInv'
  <2>1. CASE ReserveSession(c)
    <3>1. /\ call'[c].pc = "reserved" /\ call[c].pc = "idle"
          /\ \A d \in Calls : d # c => call'[d] = call[d]
      BY <1>t, <2>1, CallMoves DEF ReserveSession
    <3>2. Reserving' = Reserving \cup {c} /\ c \notin Reserving
      BY <3>1 DEF Reserving
    <3>3. Cardinality(Reserving') = Cardinality(Reserving) + 1
      BY <3>2, CountUp DEF Reserving
    <3>4. /\ pending' = pending + 1 /\ UNCHANGED csessions
          /\ Cardinality(DOMAIN csessions) + pending < MaxClient
      BY <2>1 DEF ReserveSession, HasRoom
    <3> QED
      BY <1>0, <1>n, <3>3, <3>4 DEF ReservationsInv
  <2>2. CASE Request(c) \/ FinishStream(c)
    <3>1. /\ call'[c].pc \in {"reserved", "requested"} <=> call[c].pc \in {"reserved", "requested"}
          /\ \A d \in Calls : d # c => call'[d] = call[d]
      BY <1>t, <2>2, CallMoves DEF Request, FinishStream
    <3>2. Reserving' = Reserving
      BY <3>1 DEF Reserving
    <3>3. UNCHANGED <<csessions, pending>>
      BY <2>2 DEF Request, FinishStream
    <3> QED
      BY <1>0, <3>2, <3>3 DEF ReservationsInv
  <2>3. ASSUME call[c].pc \in {"reserved", "requested"},
               call'[c].pc \notin {"reserved", "requested"},
               \A d \in Calls : d # c => call'[d] = call[d],
               pending' = pending - 1,
               \/ UNCHANGED csessions
               \/ Cardinality(DOMAIN csessions') = Cardinality(DOMAIN csessions) + 1
        PROVE  ReservationsInv'
    <3>1. Reserving' = Reserving \ {c} /\ c \in Reserving
      BY <2>3 DEF Reserving
    <3>2. Cardinality(Reserving') = Cardinality(Reserving) - 1
      BY <3>1, CountDown DEF Reserving
    <3> QED
      BY <1>0, <1>n, <2>3, <3>2 DEF ReservationsInv
  <2>4. CASE ReleaseReservation(c)
    <3>1. /\ call[c].pc \in {"reserved", "requested"}
          /\ call'[c].pc \notin {"reserved", "requested"}
          /\ \A d \in Calls : d # c => call'[d] = call[d]
      BY <1>t, <2>4, CallMoves DEF ReleaseReservation
    <3>2. pending' = pending - 1 /\ UNCHANGED csessions
      BY <2>4 DEF ReleaseReservation
    <3> QED
      BY <2>3, <3>1, <3>2
  <2>5. CASE RegisterAssigned(c)
    <3>1. /\ call[c].pc = "requested"
          /\ call'[c].pc \in {"open", "ending"}
          /\ \A d \in Calls : d # c => call'[d] = call[d]
      BY <1>t, <2>5, CallMoves DEF RegisterAssigned
    <3>2. pending' = pending - 1
      BY <2>5 DEF RegisterAssigned
    <3>3. CASE UNCHANGED csessions
      BY <2>3, <3>1, <3>2, <3>3
    <3>4. CASE CanRegister(answer[c]) /\ csessions' = With(csessions, answer[c], c)
      <4>1. answer[c] \in IDs /\ answer[c] \notin DOMAIN csessions
        BY <1>0, <3>4 DEF CanRegister, IDs, TypeInv
      <4>2. DOMAIN csessions' = DOMAIN csessions \cup {answer[c]}
        BY <3>4 DEF With
      <4>3. Cardinality(DOMAIN csessions') = Cardinality(DOMAIN csessions) + 1
        BY <1>t, <4>1, <4>2, RegistrySize
      <4> QED
        BY <2>3, <3>1, <3>2, <4>3
    <3> QED
      BY <2>5, <3>3, <3>4 DEF RegisterAssigned
  <2>6. CASE Terminate(c)
    <3>1. /\ call[c].pc = "open" /\ call[c].id \in DOMAIN csessions
          /\ csessions' = Without(csessions, call[c].id) /\ CallTo(c, "ending")
      BY <2>6, Terminates DEF IsListed
    <3>2. call'[c].pc = "ending" /\ \A d \in Calls : d # c => call'[d] = call[d]
      BY <1>t, <3>1, CallMoves
    <3>3. Reserving' = Reserving
      BY <3>1, <3>2 DEF Reserving
    <3>4. DOMAIN csessions' = DOMAIN csessions \ {call[c].id}
      BY <3>1 DEF Without, Restrict
    <3>5. Cardinality(DOMAIN csessions') = Cardinality(DOMAIN csessions) - 1
      BY <1>t, <3>1, <3>4, RegistrySize
    <3>6. UNCHANGED pending
      BY <2>6 DEF Terminate
    <3> QED
      BY <1>0, <1>n, <3>3, <3>5, <3>6 DEF ReservationsInv
  <2> QED
    BY <1>1, <2>1, <2>2, <2>4, <2>5, <2>6 DEF Client
<1>2. ASSUME NEW c \in Calls, Handler(c) \/ Session(c) PROVE ReservationsInv'
  BY <1>2, <1>u, ServerFrame
<1>3. ASSUME NEW c \in Calls, Again(c) PROVE ReservationsInv'
  <2>1. /\ call[c].pc = "over" /\ call'[c].pc = "idle"
        /\ \A d \in Calls : d # c => call'[d] = call[d]
    BY <1>t, <1>3 DEF Again
  <2>2. Reserving' = Reserving
    BY <2>1 DEF Reserving
  <2>3. UNCHANGED <<csessions, pending>>
    BY <1>3 DEF Again
  <2> QED
    BY <1>0, <2>2, <2>3 DEF ReservationsInv
<1>4. CASE Background \/ UNCHANGED vars
  BY <1>u, <1>4, BackgroundFrame
<1> QED
  BY <1>1, <1>2, <1>3, <1>4, StepKinds

-----------------------------------------------------------------------------
(* The theorems. *)

\* At first nobody has anything.
LEMMA Initially ==
  ASSUME StreamsAreFinite, UDPAssumption, Init
  PROVE  IInv
<1>1. 0 \in 0..MaxID /\ MaxClient \in Nat /\ MaxSlots \in Nat /\ MaxSource \in Nat
  BY DEF UDPAssumption
<1>2. DOMAIN csessions = {} /\ DOMAIN ssessions = {}
  BY DEF Init
<1>3. csessions \in Registries /\ ssessions \in Registries
  <2>1. csessions \in [{} -> Calls] /\ ssessions \in [{} -> Calls]
    BY DEF Init
  <2> QED
    BY <2>1 DEF Registries
<1>4. TypeInv
  BY <1>1, <1>3 DEF Init, TypeInv, Dispatcher, Dispatchers, CallStates, SessionStates,
                    HandlerPcs, IDs
<1>5. ClientRegistry /\ ServerRegistry /\ HandlerInv /\ AgreeInv
  BY <1>2 DEF Init, ClientRegistry, ServerRegistry, Registered, HandlerInv, AgreeInv
<1>6. ShutdownInv /\ PartialInv
  BY <1>2 DEF Init, Dispatcher, ShutdownInv, PartialInv
<1>7. Holders = {} /\ Reserving = {}
  BY DEF Init, Holders, Holds, Reserving
<1>8. Cardinality(Holders) = 0 /\ Cardinality(Reserving) = 0
      /\ Cardinality(DOMAIN csessions) = 0
  BY <1>2, <1>7, FS_EmptySet
<1>9. LimitsInv /\ ReservationsInv
  BY <1>1, <1>8 DEF Init, LimitsInv, ReservationsInv
<1> QED
  BY <1>4, <1>5, <1>6, <1>9 DEF IInv

\* No step of either end, of the environment or of a shutdown breaks it.
LEMMA StepKeeps ==
  ASSUME StreamsAreFinite, UDPAssumption, IInv, [Next]_vars
  PROVE  IInv'
BY KeepsTypes, KeepsClientRegistry, KeepsServerRegistry, KeepsHandlers, KeepsAgreement,
   KeepsShutdown, KeepsLimits, KeepsReservations, KeepsPartial DEF IInv

\* The inductive invariant.
THEOREM Invariance == StreamsAreFinite => (Spec => []IInv)
<1> SUFFICES ASSUME StreamsAreFinite PROVE Spec => []IInv
  OBVIOUS
<1>1. Init => IInv
  BY Initially, UDPAssumption
<1>2. IInv /\ [Next]_vars => IInv'
  BY StepKeeps, UDPAssumption
<1> QED
  BY <1>1, <1>2, PTL DEF Spec, Safety

\* Both ends agree which association an id names: the server has a session of
\* that id for every association the client holds open, and grants no id the
\* client still uses, as long as the connection and its dispatcher live.
THEOREM EndsAgree == StreamsAreFinite => (Spec => []SessionsAgree)
<1>1. ASSUME IInv PROVE SessionsAgree
  <2> SUFFICES ASSUME link, server.phase = "run", NEW c \in Calls
               PROVE  /\ call[c].pc = "open" => /\ IsListed(csessions, call[c].id, c)
                                                /\ IsListed(ssessions, call[c].id, c)
                      /\ call[c].pc = "requested" /\ answer[c] # 0 =>
                           answer[c] \notin DOMAIN csessions
    BY DEF SessionsAgree
  <2>0. ClientRegistry /\ ServerRegistry /\ AgreeInv /\ TypeInv
    BY <1>1 DEF IInv
  <2>1. \A d \in Calls : handler[d] = "lease" => IsListed(ssessions, session[d].id, d)
    BY <2>0 DEF AgreeInv, ServerRegistry, Registered
  <2>2. call[c].pc = "open" => /\ IsListed(csessions, call[c].id, c)
                               /\ IsListed(ssessions, call[c].id, c)
    BY <2>0, <2>1 DEF AgreeInv, ClientRegistry
  <2>3. ASSUME call[c].pc = "requested", answer[c] # 0, answer[c] \in DOMAIN csessions
        PROVE  FALSE
    <3>1. PICK d \in Calls : d = csessions[answer[c]]
      BY <2>0, <2>3, ListsCalls DEF TypeInv
    <3>2. call[d].pc = "open" /\ call[d].id = answer[c]
      BY <2>0, <2>3, <3>1 DEF ClientRegistry
    <3>3. IsListed(ssessions, answer[c], d)
      BY <2>0, <2>1, <3>2 DEF AgreeInv
    <3>4. IsListed(ssessions, answer[c], c)
      BY <2>0, <2>1, <2>3 DEF AgreeInv
    <3> QED
      BY <2>3, <3>2, <3>3, <3>4 DEF IsListed
  <2> QED
    BY <2>2, <2>3
<1> QED
  BY <1>1, Invariance, PTL

\* No limit, session or fragment leaks at either end: slots, the source's share
\* and the client's reservations count exactly what is held, fragments belong to
\* registered sessions, and a dispatcher that is done has none.
THEOREM LimitsAreExact == StreamsAreFinite => (Spec => []NothingLeaks)
<1>1. ASSUME IInv PROVE NothingLeaks
  <2>1. Balanced
    BY <1>1 DEF IInv, LimitsInv, ReservationsInv, Balanced, Holders, Reserving
  <2>2. csessions \in Registries /\ ssessions \in Registries
    BY <1>1 DEF IInv, TypeInv
  <2>3. ClientDone => DOMAIN csessions = {}
    <3> SUFFICES ASSUME ClientDone, NEW i \in DOMAIN csessions PROVE FALSE
      OBVIOUS
    <3>1. call[csessions[i]].pc = "open"
      BY <1>1 DEF IInv, ClientRegistry
    <3>2. csessions[i] \in client.todo
      BY <1>1 DEF IInv, ShutdownInv, ClientDone
    <3> QED
      BY <3>1, <3>2 DEF ClientDone
  <2>4. ServerDone => DOMAIN ssessions = {}
    <3> SUFFICES ASSUME ServerDone, NEW i \in DOMAIN ssessions PROVE FALSE
      OBVIOUS
    <3>1. session[ssessions[i]].pc \in {"running", "stopped"}
      BY <1>1 DEF IInv, ServerRegistry, Registered
    <3>2. ssessions[i] \in server.todo
      BY <1>1 DEF IInv, ShutdownInv, ServerDone
    <3> QED
      BY <3>1, <3>2 DEF ServerDone
  <2>5. \A S \in Registries : DOMAIN S = {} => S = << >>
    BY DEF Registries
  <2> QED
    BY <1>1, <2>1, <2>2, <2>3, <2>4, <2>5 DEF IInv, PartialInv, NothingLeaks, NothingLeft
<1> QED
  BY <1>1, Invariance, PTL
================================================================================
