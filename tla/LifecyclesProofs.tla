----------------------------- MODULE LifecyclesProofs -----------------------------
(***************************************************************************)
(* Proofs about the machines of MCLifecycles, for any number of clients,   *)
(* goroutines, dispatchers, listeners, writers and rates, any timeout,     *)
(* burst and budget, and whatever the bounds.                              *)
(*                                                                         *)
(* Each machine has an inductive invariant of its own; all are about who   *)
(* may still act: connections the tracker has not let go (LocalProxy),     *)
(* directions that still copy (Relay), who holds the write lock and which  *)
(* wait a deadline may interrupt (StreamWriter), the one right to dispatch *)
(* (ClientEvents), who was told to stop (Supervisor), which callback is    *)
(* the current one (StreamTimers), and what the bucket owes (Pacer).       *)
(***************************************************************************)
EXTENDS MCLifecycles, Sequences, TLAPS

(* The local proxy. *)

\* The connection was added to the tracker.
Entered(c) == handler[c] \notin {"none", "accepted", "refused"}

\* How far Shutdown has come; from "waiting" on it has the tracker's channel.
ShutdownSteps == {"idle", "listener", "http", "wait", "waiting", "drained", "closing", "forced"}
WaitSteps == {"waiting", "drained", "closing", "forced"}

\* What the tracker and Close know of a connection.
ClientRecord ==
  [open : BOOLEAN, closing : {"no", "once", "marked", "done"}, registered : BOOLEAN,
   canceled : BOOLEAN]
ClientRecords == [Conns -> ClientRecord]
ProxyTypes ==
  /\ stopped \in BOOLEAN
  /\ tracked \subseteq Conns
  /\ zero \in [channel : Nat, closed : BOOLEAN]
  /\ shutdown \in [step : ShutdownSteps, channel : Nat]
  /\ DOMAIN handler = Conns
  /\ client \in ClientRecords
  /\ DOMAIN http = Conns

\* The tracker holds the connections that were added and whose Close has not
\* come to its end; its channel is closed when it holds none.
TrackerInv ==
  /\ tracked = {c \in Conns : Entered(c) /\ client[c].closing # "done"}
  /\ zero.closed <=> tracked = {}
  /\ \A c \in Conns : /\ ~Entered(c) => client[c].closing = "no"
                      /\ http[c] = "idle" => Entered(c)
  /\ doomed \subseteq {c \in Conns : Entered(c)}

\* Nothing is added once Shutdown has begun, so that the channel it waits for is
\* the last one.
ShutdownInv ==
  /\ shutdown.step # "idle" <=> stopped
  /\ shutdown.step \notin {"idle", "listener"} => listener # "open"
  /\ shutdown.step \in WaitSteps => shutdown.channel = zero.channel
  /\ shutdown.step = "drained" => tracked = {}
  /\ shutdown.step \in {"closing", "forced"} => tracked \subseteq doomed
  /\ shutdown.step = "forced" => doomed = {}

\* The proxy's inductive invariant.
ProxyInv == ProxyTypes /\ TrackerInv /\ ShutdownInv

\* Nobody has connected and Shutdown has not begun.
LEMMA ProxyInitially == Proxy!Init => ProxyInv
<1> SUFFICES ASSUME Proxy!Init PROVE ProxyInv
  OBVIOUS
<1>1. /\ client \in ClientRecords /\ \A c \in Conns : client[c].closing = "no"
      /\ shutdown = [step |-> "idle", channel |-> 0] /\ zero = [channel |-> 0, closed |-> TRUE]
  BY DEF Proxy!Init, ClientRecords, ClientRecord
<1>2. ProxyTypes
  <2>1. shutdown \in [step : ShutdownSteps, channel : Nat]
          /\ zero \in [channel : Nat, closed : BOOLEAN]
    BY <1>1 DEF ShutdownSteps
  <2>2. DOMAIN handler = Conns /\ DOMAIN http = Conns /\ stopped \in BOOLEAN
          /\ tracked \subseteq Conns
    BY DEF Proxy!Init
  <2> QED BY <1>1, <2>1, <2>2 DEF ProxyTypes
<1>3. \A c \in Conns : ~Entered(c)
  BY DEF Proxy!Init, Entered
<1>4. TrackerInv
  BY <1>1, <1>3 DEF Proxy!Init, TrackerInv
<1>5. ShutdownInv
  BY <1>1 DEF Proxy!Init, ShutdownInv, WaitSteps
<1> QED BY <1>2, <1>4, <1>5 DEF ProxyInv

\* trackedConn.Close begins: what changes of the connection.
LEMMA ShutClient ==
  ASSUME ProxyTypes, NEW c \in Conns
  PROVE  /\ Proxy!Shut(c) \in ClientRecords
         /\ \A d \in Conns : d # c => Proxy!Shut(c)[d] = client[d]
         /\ Proxy!Shut(c)[c].closing =
              IF client[c].closing = "no" THEN "once" ELSE client[c].closing
<1> DEFINE r == [client[c] EXCEPT !.open = FALSE, !.closing = IF @ = "no" THEN "once" ELSE @]
<1>1. Proxy!Shut(c) = [client EXCEPT ![c] = r]
  BY DEF Proxy!Shut, ProxyTypes, ClientRecords, ClientRecord
<1>2. /\ r \in [open : BOOLEAN, closing : {"no", "once", "marked", "done"},
               registered : BOOLEAN, canceled : BOOLEAN]
      /\ r.closing = IF client[c].closing = "no" THEN "once" ELSE client[c].closing
  BY DEF ProxyTypes, ClientRecords, ClientRecord
<1> HIDE DEF r
<1> QED BY <1>1, <1>2 DEF ProxyTypes, ClientRecords, ClientRecord

\* The handler of a connection in the tracker goes on, and its client may be
\* closed, but its Close does not end.
HandlersStay ==
  /\ UNCHANGED <<Proxy!serverVars, Proxy!trackerVars, Proxy!downVars>>
  /\ DOMAIN handler' = Conns /\ DOMAIN http' = Conns
  /\ client' \in ClientRecords
  /\ \A c \in Conns :
       /\ Entered(c)' <=> Entered(c)
       /\ client'[c].closing = "done" <=> client[c].closing = "done"
       /\ ~Entered(c) => client'[c].closing = client[c].closing
       /\ http'[c] = "idle" => Entered(c)

\* What neither adds, removes nor shuts a connection keeps the invariant.
LEMMA StayKeeps ==
  ASSUME ProxyInv, HandlersStay
  PROVE  ProxyInv'
<1>1. /\ tracked' = tracked /\ zero' = zero /\ shutdown' = shutdown /\ doomed' = doomed
      /\ stopped' = stopped /\ listener' = listener
  BY DEF HandlersStay, Proxy!serverVars, Proxy!trackerVars, Proxy!downVars
<1>2. ProxyTypes'
  BY <1>1 DEF ProxyInv, ProxyTypes, HandlersStay
<1>3. ShutdownInv'
  BY <1>1 DEF ProxyInv, ShutdownInv
<1>4. TrackerInv'
  BY <1>1 DEF ProxyInv, TrackerInv, HandlersStay
<1> QED BY <1>2, <1>3, <1>4 DEF ProxyInv

\* Serve and the listener.
LEMMA ServeKeeps ==
  ASSUME ProxyInv,
         Proxy!Serve \/ Proxy!ServeReturns
           \/ (\E c \in Conns : Proxy!Arrive(c) \/ Proxy!Refuse(c))
  PROVE  ProxyInv'
<1>1. CASE Proxy!Serve \/ Proxy!ServeReturns
  BY <1>1 DEF Proxy!Serve, Proxy!ServeReturns, Proxy!trackerVars, Proxy!downVars,
     Proxy!workVars, ProxyInv, ProxyTypes, TrackerInv, ShutdownInv, Entered, ShutdownSteps
<1>2. ASSUME NEW c \in Conns, Proxy!Arrive(c) PROVE ProxyInv'
  <2>1. HandlersStay
    BY <1>2 DEF Proxy!Arrive, HandlersStay, ProxyInv, ProxyTypes, ClientRecords, ClientRecord, TrackerInv,
       Entered
  <2> QED BY <2>1, StayKeeps
<1>3. ASSUME NEW c \in Conns, Proxy!Refuse(c) PROVE ProxyInv'
  <2>1. /\ handler[c] = "accepted" /\ handler' = [handler EXCEPT ![c] = "refused"]
        /\ client' = [client EXCEPT ![c].open = FALSE]
        /\ UNCHANGED <<listener, stopped, Proxy!trackerVars, Proxy!downVars, http>>
    BY <1>3 DEF Proxy!Refuse
  <2>2. \A d \in Conns : (Entered(d)' <=> Entered(d)) /\ client'[d].closing = client[d].closing
    BY <2>1 DEF ProxyInv, ProxyTypes, ClientRecords, ClientRecord, Entered
  <2>3. ProxyTypes'
    BY <2>1 DEF ProxyInv, ProxyTypes, ClientRecords, ClientRecord, Proxy!trackerVars, Proxy!downVars
  <2>4. TrackerInv'
    BY <2>1, <2>2 DEF ProxyInv, TrackerInv, Proxy!trackerVars, Proxy!downVars
  <2>5. ShutdownInv'
    BY <2>1 DEF ProxyInv, ShutdownInv, Proxy!trackerVars, Proxy!downVars
  <2> QED BY <2>3, <2>4, <2>5 DEF ProxyInv
<1> QED BY <1>1, <1>2, <1>3

\* tracker.add, under its mutex.
LEMMA AddKeeps ==
  ASSUME ProxyInv, NEW c \in Conns, Proxy!Add(c)
  PROVE  ProxyInv'
<1>1. /\ handler[c] = "accepted" /\ ~stopped /\ shutdown.step = "idle"
      /\ tracked' = tracked \cup {c}
      /\ zero' = IF tracked = {} THEN [channel |-> zero.channel + 1, closed |-> FALSE] ELSE zero
      /\ UNCHANGED <<Proxy!serverVars, Proxy!downVars>>
  BY DEF Proxy!Add, Proxy!MayAdd, ProxyInv, ShutdownInv
<1>2. /\ \E to \in {"read", "start"} : handler' = [handler EXCEPT ![c] = to]
      /\ client' \in ClientRecords
      /\ \A d \in Conns : client'[d].closing = client[d].closing
      /\ DOMAIN http' = Conns /\ \A d \in Conns : d # c => http'[d] = http[d]
  <2>1. CASE front = "http"
    <3>1. client' = [client EXCEPT ![c].registered = TRUE] /\ http' = [http EXCEPT ![c] = "idle"]
          /\ handler' = [handler EXCEPT ![c] = "read"]
      BY <2>1 DEF Proxy!Add
    <3>2. client' \in ClientRecords /\ \A d \in Conns : client'[d].closing = client[d].closing
      BY <3>1 DEF ProxyInv, ProxyTypes, ClientRecords, ClientRecord
    <3> QED BY <3>1, <3>2 DEF ProxyInv, ProxyTypes
  <2>2. CASE front # "http"
    BY <2>2 DEF Proxy!Add, ProxyInv, ProxyTypes, ClientRecords, ClientRecord
  <2> QED BY <2>1, <2>2
<1>3. /\ DOMAIN handler' = Conns /\ Entered(c)' /\ ~Entered(c)
      /\ \A d \in Conns : d # c => (Entered(d)' <=> Entered(d))
  BY <1>1, <1>2 DEF ProxyInv, ProxyTypes, Entered
<1>4. ProxyTypes'
  BY <1>1, <1>2, <1>3 DEF ProxyInv, ProxyTypes, Proxy!serverVars, Proxy!downVars
<1>5. TrackerInv'
  <2>1. client[c].closing = "no"
    BY <1>3 DEF ProxyInv, TrackerInv
  <2>2. tracked' = {d \in Conns : Entered(d)' /\ client'[d].closing # "done"}
    BY <1>1, <1>2, <1>3, <2>1 DEF ProxyInv, TrackerInv
  <2>3. zero'.closed <=> tracked' = {}
    BY <1>1 DEF ProxyInv, ProxyTypes, TrackerInv
  <2>4. doomed' \subseteq {d \in Conns : Entered(d)'}
    BY <1>1, <1>3 DEF ProxyInv, TrackerInv, Proxy!downVars
  <2> QED BY <1>2, <1>3, <2>2, <2>3, <2>4 DEF ProxyInv, TrackerInv
<1>6. ShutdownInv'
  BY <1>1 DEF ProxyInv, ShutdownInv, Proxy!serverVars, Proxy!downVars, WaitSteps
<1> QED BY <1>4, <1>5, <1>6 DEF ProxyInv

\* tracker.remove, at the end of trackedConn.Close.
LEMMA RemoveKeeps ==
  ASSUME ProxyInv, NEW c \in Conns, Proxy!Remove(c)
  PROVE  ProxyInv'
<1>1. /\ client[c].closing = "marked" /\ client' = [client EXCEPT ![c].closing = "done"]
      /\ tracked' = tracked \ {c}
      /\ zero' = IF tracked = {c} THEN [zero EXCEPT !.closed = TRUE] ELSE zero
      /\ UNCHANGED <<Proxy!serverVars, Proxy!downVars, Proxy!workVars>>
  BY DEF Proxy!Remove
<1>2. Entered(c) /\ c \in tracked /\ \A d \in Conns : Entered(d)' <=> Entered(d)
  BY <1>1 DEF ProxyInv, TrackerInv, Proxy!workVars, Entered
<1>3. ProxyTypes'
  BY <1>1 DEF ProxyInv, ProxyTypes, ClientRecords, ClientRecord, Proxy!serverVars, Proxy!downVars,
     Proxy!workVars
<1>4. TrackerInv'
  <2>1. client'[c].closing = "done" /\ \A d \in Conns : d # c => client'[d] = client[d]
    BY <1>1 DEF ProxyInv, ProxyTypes, ClientRecords, ClientRecord
  <2>2. tracked' = {d \in Conns : Entered(d)' /\ client'[d].closing # "done"}
    BY <1>1, <1>2, <2>1 DEF ProxyInv, TrackerInv
  <2>3. zero'.closed <=> tracked' = {}
    BY <1>1, <1>2 DEF ProxyInv, ProxyTypes, TrackerInv
  <2> QED BY <1>1, <1>2, <2>1, <2>2, <2>3 DEF ProxyInv, TrackerInv, Proxy!downVars,
       Proxy!workVars
<1>5. ShutdownInv'
  BY <1>1 DEF ProxyInv, ProxyTypes, ShutdownInv, Proxy!serverVars, Proxy!downVars
<1> QED BY <1>3, <1>4, <1>5 DEF ProxyInv

\* The steps of Shutdown.
LEMMA ShutdownKeeps ==
  ASSUME ProxyInv,
         \/ Proxy!StopAccepting \/ Proxy!CloseListener \/ Proxy!HTTPDone \/ Proxy!TakeZero
              \/ Proxy!Drained
         \/ Proxy!CloseAll \/ Proxy!ShutdownReturns \/ Proxy!Expire
         \/ \E c \in Conns : Proxy!CloseIdle(c) \/ Proxy!CloseOne(c)
  PROVE  ProxyInv'
<1>1. CASE \/ Proxy!StopAccepting \/ Proxy!CloseListener \/ Proxy!HTTPDone \/ Proxy!TakeZero
                \/ Proxy!CloseAll \/ Proxy!ShutdownReturns \/ Proxy!Expire
  <2>1. UNCHANGED <<Proxy!trackerVars, client, Proxy!workVars>>
          /\ (doomed' = doomed \/ doomed' = tracked)
    BY <1>1 DEF Proxy!StopAccepting, Proxy!CloseListener, Proxy!HTTPDone, Proxy!TakeZero,
       Proxy!CloseAll, Proxy!ShutdownReturns, Proxy!Expire, Proxy!downVars
  <2>2. TrackerInv'
    BY <2>1 DEF ProxyInv, TrackerInv, Proxy!trackerVars, Proxy!workVars, Entered
  <2>3. ProxyTypes'
    <3>1. stopped' \in BOOLEAN /\ shutdown' \in [step : ShutdownSteps, channel : Nat]
      <4> USE DEF ProxyInv, ProxyTypes, Proxy!serverVars, Proxy!trackerVars, Proxy!Step,
                  ShutdownSteps
      <4>1. CASE Proxy!StopAccepting \/ Proxy!CloseListener
        BY <4>1 DEF Proxy!StopAccepting, Proxy!CloseListener
      <4>2. CASE Proxy!HTTPDone \/ Proxy!TakeZero
        BY <4>2 DEF Proxy!HTTPDone, Proxy!TakeZero
      <4>3. CASE Proxy!CloseAll \/ Proxy!ShutdownReturns \/ Proxy!Expire
        BY <4>3 DEF Proxy!CloseAll, Proxy!ShutdownReturns, Proxy!Expire
      <4> QED BY <1>1, <4>1, <4>2, <4>3
    <3> QED BY <2>1, <3>1 DEF ProxyInv, ProxyTypes, Proxy!trackerVars, Proxy!workVars
  <2>4. ShutdownInv'
    BY <1>1, <2>1 DEF ProxyInv, ProxyTypes, ShutdownInv, Proxy!StopAccepting,
       Proxy!CloseListener, Proxy!HTTPDone, Proxy!TakeZero, Proxy!CloseAll,
       Proxy!ShutdownReturns, Proxy!Expire, Proxy!serverVars, Proxy!trackerVars, Proxy!Step,
       ShutdownSteps, WaitSteps
  <2> QED BY <2>2, <2>3, <2>4 DEF ProxyInv
<1>2. CASE Proxy!Drained
  <2>1. tracked = {}
    BY <1>2 DEF Proxy!Drained, Proxy!ZeroClosed, ProxyInv, ProxyTypes, TrackerInv, ShutdownInv,
       WaitSteps
  <2> QED BY <1>2, <2>1 DEF Proxy!Drained, Proxy!Step, ProxyInv, ProxyTypes, TrackerInv,
       ShutdownInv, Entered, ShutdownSteps, WaitSteps, Proxy!serverVars, Proxy!trackerVars,
       Proxy!workVars
<1>3. ASSUME NEW c \in Conns, Proxy!CloseIdle(c) PROVE ProxyInv'
  <2>1. HandlersStay
    BY <1>3, ShutClient DEF Proxy!CloseIdle, HandlersStay, ProxyInv, ProxyTypes, TrackerInv,
       Entered, Proxy!workVars
  <2> QED BY <2>1, StayKeeps
<1>4. ASSUME NEW c \in Conns, Proxy!CloseOne(c) PROVE ProxyInv'
  <2>1. /\ shutdown.step = "closing" /\ c \in doomed /\ Entered(c)
        /\ UNCHANGED <<Proxy!serverVars, Proxy!trackerVars, shutdown, expired, Proxy!workVars>>
    BY <1>4 DEF Proxy!CloseOne, ProxyInv, TrackerInv
  <2>2. CASE client[c].closing = "no"
    <3>1. HandlersStay
      BY <1>4, <2>1, <2>2, ShutClient DEF Proxy!CloseOne, HandlersStay, ProxyInv, ProxyTypes,
         TrackerInv, Entered, Proxy!downVars, Proxy!workVars
    <3> QED BY <3>1, StayKeeps
  <2>3. CASE client[c].closing # "no"
    <3>1. client[c].closing = "done" /\ doomed' = doomed \ {c} /\ client' = client
      BY <1>4, <2>3 DEF Proxy!CloseOne
    <3>2. c \notin tracked
      BY <3>1 DEF ProxyInv, TrackerInv
    <3> QED BY <2>1, <3>1, <3>2 DEF ProxyInv, ProxyTypes, TrackerInv, ShutdownInv, Entered,
         Proxy!serverVars, Proxy!trackerVars, Proxy!workVars
  <2> QED BY <2>2, <2>3
<1> QED BY <1>1, <1>2, <1>3, <1>4

\* What becomes of one client's record, and of the others'.
LEMMA OneClient ==
  ASSUME client \in ClientRecords, NEW c \in Conns, NEW r \in ClientRecord,
         client' = [client EXCEPT ![c] = r]
  PROVE  /\ client' \in ClientRecords
         /\ \A d \in Conns : d # c => client'[d] = client[d]
         /\ client'[c] = r
BY DEF ClientRecords

\* A connection's registration and its mark, as changes of one record.
LEMMA RecordMarked ==
  ASSUME NEW x \in ClientRecord, NEW b \in BOOLEAN
  PROVE  LET r == [x EXCEPT !.closing = "marked", !.canceled = b]
         IN  r \in ClientRecord /\ r.closing = "marked"
BY DEF ClientRecord

\* connectionContext changes no mark of a connection.
LEMMA RecordRegistered ==
  ASSUME NEW x \in ClientRecord, NEW b \in BOOLEAN
  PROVE  LET r == [x EXCEPT !.registered = TRUE, !.canceled = b]
         IN  r \in ClientRecord /\ r.closing = x.closing
BY DEF ClientRecord

\* The end of a socket alone changes no mark of a connection.
LEMMA SocketEnds ==
  ASSUME client \in ClientRecords, NEW c \in Conns,
         client' = [client EXCEPT ![c].open = FALSE]
  PROVE  /\ client' \in ClientRecords
         /\ \A d \in Conns : d # c => client'[d] = client[d]
         /\ \A d \in Conns : client'[d].closing = client[d].closing
<1>1. ASSUME NEW x \in ClientRecord
      PROVE  /\ [x EXCEPT !.open = FALSE] \in ClientRecord
             /\ [x EXCEPT !.open = FALSE].closing = x.closing
  BY DEF ClientRecord
<1>2. client[c] \in ClientRecord
  BY DEF ClientRecords
<1> DEFINE r == [client[c] EXCEPT !.open = FALSE]
<1>3. client' = [client EXCEPT ![c] = r]
  BY DEF ClientRecords
<1>4. r \in ClientRecord /\ r.closing = client[c].closing
  BY <1>1, <1>2
<1> HIDE DEF r
<1> QED BY <1>3, <1>4, OneClient

\* What a handler, and whoever closes for it, do to a client.
LEMMA ClientKeeps ==
  ASSUME ProxyTypes, NEW c \in Conns,
         \/ Proxy!Mark(c) \/ Proxy!Register(c) \/ Proxy!OwnerCloses(c) \/ Proxy!RelayAborts(c)
              \/ Proxy!Closes(c) \/ Proxy!Leaves(c)
  PROVE  /\ client' \in ClientRecords
         /\ \A d \in Conns : d # c => client'[d] = client[d]
         /\ client'[c].closing = "done" <=> client[c].closing = "done"
<1> USE DEF ProxyTypes
<1>0. client[c] \in ClientRecord
  BY DEF ClientRecords
<1>1. CASE Proxy!Mark(c)
  <2> DEFINE r == [client[c] EXCEPT !.closing = "marked", !.canceled = client[c].registered]
  <2>1. client' = [client EXCEPT ![c] = r]
    BY <1>1 DEF Proxy!Mark, ClientRecords
  <2>2. client[c].closing = "once" /\ client[c].registered \in BOOLEAN
    BY <1>0, <1>1 DEF Proxy!Mark, ClientRecord
  <2>3. r \in ClientRecord /\ r.closing = "marked"
    BY <1>0, <2>2, RecordMarked
  <2> HIDE DEF r
  <2> QED BY <2>1, <2>2, <2>3, OneClient
<1>2. CASE Proxy!Register(c)
  <2> DEFINE r == [client[c] EXCEPT !.registered = TRUE,
                                    !.canceled = client[c].closing \in {"marked", "done"}]
  <2>1. client' = [client EXCEPT ![c] = r]
    BY <1>2 DEF Proxy!Register, ClientRecords
  <2>2. (client[c].closing \in {"marked", "done"}) \in BOOLEAN
    OBVIOUS
  <2>3. r \in ClientRecord /\ r.closing = client[c].closing
    BY <1>0, <2>2, RecordRegistered
  <2> HIDE DEF r
  <2> QED BY <2>1, <2>3, OneClient
<1>3. CASE Proxy!OwnerCloses(c) \/ Proxy!RelayAborts(c)
  <2>1. client' = Proxy!Shut(c)
    BY <1>3 DEF Proxy!OwnerCloses, Proxy!RelayAborts
  <2> QED BY <2>1, ShutClient
<1>4. CASE Proxy!Closes(c)
  <2>1. client' = Proxy!Shut(c) \/ client' = [client EXCEPT ![c].open = FALSE]
    BY <1>4 DEF Proxy!Closes
  <2>2. CASE client' = Proxy!Shut(c)
    BY <2>2, ShutClient
  <2>3. CASE client' = [client EXCEPT ![c].open = FALSE]
    BY <2>3, SocketEnds
  <2> QED BY <2>1, <2>2, <2>3
<1>5. CASE Proxy!Leaves(c)
  <2>1. client' = [client EXCEPT ![c].open = FALSE]
    BY <1>5 DEF Proxy!Leaves
  <2> QED BY <2>1, SocketEnds
<1> QED BY <1>1, <1>2, <1>3, <1>4, <1>5

\* The handlers of connections in the tracker.
LEMMA HandlersKeep ==
  ASSUME ProxyInv, NEW c \in Conns,
         \/ Proxy!Mark(c) \/ Proxy!Register(c) \/ Proxy!Requests(c) \/ Proxy!ReadFails(c)
              \/ Proxy!Dialed(c) \/ Proxy!Replies(c)
         \/ Proxy!OwnerCloses(c) \/ Proxy!RelayAborts(c) \/ Proxy!RelayEnds(c)
              \/ Proxy!Exchanged(c) \/ Proxy!Closes(c) \/ Proxy!Done(c)
         \/ Proxy!Leaves(c)
  PROVE  HandlersStay
<1> USE DEF ProxyInv, ProxyTypes, TrackerInv, HandlersStay, Entered, Proxy!To, Proxy!outside,
            Proxy!workVars, Proxy!serverVars, Proxy!trackerVars, Proxy!downVars
<1>1. CASE Proxy!Mark(c)
  BY <1>1, ClientKeeps DEF Proxy!Mark
<1>2. CASE Proxy!Register(c)
  BY <1>2, ClientKeeps DEF Proxy!Register
<1>3. CASE Proxy!Requests(c)
  BY <1>3 DEF Proxy!Requests
<1>4. CASE Proxy!ReadFails(c) \/ Proxy!RelayEnds(c) \/ Proxy!Dialed(c)
  BY <1>4 DEF Proxy!ReadFails, Proxy!RelayEnds, Proxy!Dialed
<1>5. CASE Proxy!Replies(c)
  BY <1>5 DEF Proxy!Replies
<1>6. CASE Proxy!OwnerCloses(c) \/ Proxy!RelayAborts(c)
  BY <1>6, ClientKeeps DEF Proxy!OwnerCloses, Proxy!RelayAborts
<1>7. CASE Proxy!Exchanged(c)
  BY <1>7 DEF Proxy!Exchanged
<1>8. CASE Proxy!Closes(c)
  BY <1>8, ClientKeeps DEF Proxy!Closes
<1>9. CASE Proxy!Done(c)
  BY <1>9 DEF Proxy!Done
<1>10. CASE Proxy!Leaves(c)
  <2>1. client' \in ClientRecords /\ \A d \in Conns : client'[d].closing = client[d].closing
    <3>1. client' = [client EXCEPT ![c].open = FALSE]
      BY <1>10 DEF Proxy!Leaves
    <3> QED BY <3>1, SocketEnds
  <2> QED BY <1>10, <2>1 DEF Proxy!Leaves
<1> QED BY <1>1, <1>2, <1>3, <1>4, <1>5, <1>6, <1>7, <1>8, <1>9, <1>10

\* The handler of a SOCKS UDP association.
LEMMA AssociationsKeep ==
  ASSUME ProxyInv, NEW c \in Conns,
         \/ Proxy!Watch(c) \/ Proxy!ControlEnds(c) \/ Proxy!Listens(c) \/ Proxy!DialsPacket(c)
              \/ Proxy!RepliesUDP(c)
         \/ Proxy!Undo(c) \/ Proxy!JoinsWorkers(c) \/ Proxy!JoinsControl(c)
              \/ Proxy!AssociationEnds(c)
         \/ \E w \in {"out", "in"} : Proxy!WorkerEnds(c, w)
  PROVE  HandlersStay
<1>1. UNCHANGED <<Proxy!serverVars, Proxy!trackerVars, Proxy!downVars, client, http>>
  BY DEF Proxy!Watch, Proxy!ControlEnds, Proxy!Listens, Proxy!DialsPacket, Proxy!RepliesUDP,
     Proxy!Undo, Proxy!JoinsWorkers, Proxy!JoinsControl, Proxy!AssociationEnds,
     Proxy!WorkerEnds, Proxy!udpOnly, Proxy!outside
<1>2. DOMAIN handler' = Conns /\ \A d \in Conns : Entered(d)' <=> Entered(d)
  <2> USE DEF ProxyInv, ProxyTypes, Entered, Proxy!To
  <2>1. CASE Proxy!Watch(c) \/ Proxy!Listens(c) \/ Proxy!DialsPacket(c)
    BY <2>1 DEF Proxy!Watch, Proxy!Listens, Proxy!DialsPacket
  <2>2. CASE Proxy!ControlEnds(c) \/ \E w \in {"out", "in"} : Proxy!WorkerEnds(c, w)
    BY <2>2 DEF Proxy!ControlEnds, Proxy!WorkerEnds
  <2>3. CASE Proxy!RepliesUDP(c) \/ Proxy!Undo(c) \/ Proxy!JoinsWorkers(c)
               \/ Proxy!JoinsControl(c) \/ Proxy!AssociationEnds(c)
    BY <2>3 DEF Proxy!RepliesUDP, Proxy!Undo, Proxy!JoinsWorkers, Proxy!JoinsControl,
       Proxy!AssociationEnds
  <2> QED BY <2>1, <2>2, <2>3
<1> QED BY <1>1, <1>2 DEF HandlersStay, ProxyInv, ProxyTypes, TrackerInv

\* Serve, the handlers and Shutdown keep the invariant, however they interleave.
LEMMA ProxyStep ==
  ASSUME ProxyInv, [Proxy!Next]_Proxy!vars
  PROVE  ProxyInv'
<1>1. CASE UNCHANGED Proxy!vars
  BY <1>1 DEF Proxy!vars, Proxy!serverVars, Proxy!trackerVars, Proxy!downVars, Proxy!workVars,
     ProxyInv, ProxyTypes, TrackerInv, ShutdownInv, Entered
<1>2. CASE Proxy!Serve \/ Proxy!StopAccepting \/ Proxy!Expire \/ Proxy!Down
  BY <1>2, ServeKeeps, ShutdownKeeps DEF Proxy!Down
<1>3. ASSUME NEW c \in Conns,
             Proxy!Arrive(c) \/ Proxy!Handles(c) \/ Proxy!Requests(c) \/ Proxy!Ends(c)
               \/ Proxy!Leaves(c)
      PROVE  ProxyInv'
  <2>1. CASE Proxy!Arrive(c) \/ Proxy!Add(c) \/ Proxy!Refuse(c) \/ Proxy!Remove(c)
    BY <2>1, ServeKeeps, AddKeeps, RemoveKeeps
  <2>2. CASE \/ Proxy!Mark(c) \/ Proxy!Register(c) \/ Proxy!Requests(c) \/ Proxy!ReadFails(c)
                  \/ Proxy!Dialed(c) \/ Proxy!Replies(c)
             \/ Proxy!OwnerCloses(c) \/ Proxy!RelayAborts(c) \/ Proxy!RelayEnds(c)
                  \/ Proxy!Exchanged(c) \/ Proxy!Closes(c) \/ Proxy!Done(c)
             \/ Proxy!Leaves(c)
    BY <2>2, HandlersKeep, StayKeeps
  <2>3. CASE \/ Proxy!Watch(c) \/ Proxy!ControlEnds(c) \/ Proxy!Listens(c)
                  \/ Proxy!DialsPacket(c) \/ Proxy!RepliesUDP(c)
             \/ Proxy!Undo(c) \/ Proxy!JoinsWorkers(c) \/ Proxy!JoinsControl(c)
                  \/ Proxy!AssociationEnds(c)
             \/ \E w \in {"out", "in"} : Proxy!WorkerEnds(c, w)
    BY <2>3, AssociationsKeep, StayKeeps
  <2> QED BY <1>3, <2>1, <2>2, <2>3 DEF Proxy!Handles, Proxy!Ends
<1> QED BY <1>1, <1>2, <1>3 DEF Proxy!Next

\* A behaviour of the composition is one of its proxy.
LEMMA ProxyBehaves == Safety => Proxy!Init /\ [][Proxy!Next]_Proxy!vars
<1>1. Init => Proxy!Init
  BY DEF Init
<1>2. [Next]_vars => [Proxy!Next]_Proxy!vars
  BY DEF Next, ButProxy, ButTunnel, ButWriter, ButEvents, ButMain, ButTimers, ButPacer, ButDatagrams, vars,
         proxyVars, Proxy!vars, Proxy!serverVars, Proxy!trackerVars, Proxy!downVars, Proxy!workVars
<1> QED BY <1>1, <1>2, PTL DEF Safety

\* The proxy's inductive invariant holds in every state.
LEMMA ProxyInvariance == Safety => []ProxyInv
BY ProxyInitially, ProxyStep, ProxyBehaves, PTL

\* When the local proxy's Shutdown returns without an error no connection is
\* left, none is still to come, and no handler runs on one (shutdown,
\* connTracker): nothing is added once stopped, so the channel that Shutdown
\* waits for is the last.
THEOREM ShutdownDrains == Safety => []DrainedMeansEmpty
<1>1. ProxyInv => Proxy!DrainedMeansEmpty
  BY DEF ProxyInv, TrackerInv, ShutdownInv, Proxy!DrainedMeansEmpty, Entered
<1> QED BY <1>1, ProxyInvariance, PTL DEF DrainedMeansEmpty
-----------------------------------------------------------------------------
(* A relay. *)

\* A pump that has ended does not write again, and how it ended still holds as
\* long as the owner is there; only an abort closes an end before it goes.
EndsInv ==
  /\ pump \in [Tunnel!Ends -> {"read", "write", "got", "gave", "report", "done"}]
  /\ out \in [Tunnel!Ends -> {"none", "closed", "hard", "eof", "idle"}]
  /\ put \in [Tunnel!Ends -> Nat] /\ sent \in [Tunnel!Ends -> Nat]
  /\ fin \in [Tunnel!Ends -> BOOLEAN] /\ shut \in [Tunnel!Ends -> BOOLEAN]
  /\ DOMAIN end = Tunnel!Ends
  /\ owner = "live" => (shut["a"] <=> shut["b"])
  /\ \A e \in Tunnel!Ends :
       /\ out[e] # "none" => pump[e] \in {"report", "done"}
       /\ out[e] = "closed" => shut[e] \/ shut[Tunnel!Other(e)]
       /\ owner = "live" /\ out[e] = "eof" => end[e] = "eof" /\ put[Tunnel!Other(e)] = sent[e]
       /\ fin[e] => pump[Tunnel!Other(e)] = "done"

\* While nothing is closed, a direction that is not about to refresh the
\* deadlines has been idle for what is gone of them.
ClockInv ==
  /\ left \in Nat /\ age \in [Tunnel!Ends -> Nat]
  /\ kind = "proxy" /\ ~shut["a"] /\ ~shut["b"] =>
       \A x \in Tunnel!Ends : Tunnel!Touching(x) \/ age[x] + left >= Idle

\* The relay's inductive invariant.
RelayInv == EndsInv /\ ClockInv /\ Tunnel!CleanEnd

\* A direction that times out finds both idle (IdleIsWholeTunnel).
IdleStep ==
  \A e \in Tunnel!Ends : out'[e] = "idle" /\ out[e] # "idle" /\ ~(shut["a"] \/ shut["b"])
    => \A x \in Tunnel!Ends : Tunnel!Touching(x) \/ age[x] >= Idle

\* Both directions are open and no time has passed.
LEMMA RelayInitially == Tunnel!Init => RelayInv
BY LifecyclesAssumption DEF Tunnel!Init, RelayInv, EndsInv, ClockInv, Tunnel!CleanEnd,
   Tunnel!Ends, Tunnel!Other

\* There are two ends.
LEMMA OtherEnd ==
  ASSUME NEW e \in Tunnel!Ends
  PROVE  Tunnel!Other(e) \in Tunnel!Ends /\ Tunnel!Other(e) # e
           /\ Tunnel!Other(Tunnel!Other(e)) = e /\ Tunnel!Ends = {e, Tunnel!Other(e)}
BY DEF Tunnel!Ends, Tunnel!Other

\* A pump ends.
LEMMA TunnelStopKeeps ==
  ASSUME RelayInv, NEW e \in Tunnel!Ends, NEW how \in {"closed", "hard", "eof", "idle"},
         Tunnel!Stop(e, how),
         pump[e] \notin {"report", "done"},
         how = "closed" => shut[e] \/ shut[Tunnel!Other(e)],
         how = "eof" => end[e] = "eof" /\ put[Tunnel!Other(e)] = sent[e],
         how = "idle" => kind = "proxy" /\ left = 0,
         Tunnel!Touching(e) => shut[e] \/ shut[Tunnel!Other(e)]
  PROVE  RelayInv' /\ IdleStep
<1>1. /\ pump' = [pump EXCEPT ![e] = "report"] /\ out' = [out EXCEPT ![e] = how]
      /\ UNCHANGED <<kind, sent, end, put, fin, shut, owner, left, age>>
  BY DEF Tunnel!Stop, Tunnel!To, Tunnel!outside
<1>2. EndsInv'
  BY <1>1, OtherEnd DEF RelayInv, EndsInv
<1>3. ClockInv'
  BY <1>1 DEF RelayInv, EndsInv, ClockInv, Tunnel!Touching, Tunnel!Ends, Tunnel!Other
<1>4. IdleStep
  BY <1>1 DEF RelayInv, EndsInv, ClockInv, IdleStep
<1> QED BY <1>1, <1>2, <1>3, <1>4 DEF RelayInv, Tunnel!CleanEnd

\* The pumps, their owner and the clock keep the invariant, and a time-out is the
\* whole tunnel's.
LEMMA RelayStep ==
  ASSUME RelayInv, [Tunnel!Next]_Tunnel!vars
  PROVE  RelayInv' /\ IdleStep
<1> USE DEF RelayInv, EndsInv, Tunnel!outside, Tunnel!Touching
<1>1. CASE UNCHANGED Tunnel!vars
  BY <1>1 DEF Tunnel!vars, ClockInv, Tunnel!CleanEnd, IdleStep
<1>2. ASSUME NEW e \in Tunnel!Ends, Tunnel!PeerSends(e) PROVE RelayInv' /\ IdleStep
  <2>1. /\ end[e] = "open" /\ sent' = [sent EXCEPT ![e] = @ + 1]
        /\ UNCHANGED <<kind, end, put, fin, shut, pump, out, owner, left, age, returned>>
    BY <1>2 DEF Tunnel!PeerSends
  <2> QED BY <2>1, OtherEnd DEF ClockInv, Tunnel!CleanEnd, IdleStep
<1>3. ASSUME NEW e \in Tunnel!Ends, NEW how, Tunnel!PeerEnds(e, how) PROVE RelayInv' /\ IdleStep
  <2>1. /\ end[e] = "open" /\ end' = [end EXCEPT ![e] = how]
        /\ UNCHANGED <<kind, sent, put, fin, shut, pump, out, owner, left, age, returned>>
    BY <1>3 DEF Tunnel!PeerEnds
  <2> QED BY <2>1, OtherEnd DEF ClockInv, Tunnel!CleanEnd, IdleStep
<1>4. CASE Tunnel!Tick
  <2>1. /\ left' = left - 1 /\ left > 0
        /\ age' = [e \in Tunnel!Ends |-> IF age[e] < Idle THEN age[e] + 1 ELSE Idle]
        /\ UNCHANGED <<kind, sent, end, put, fin, shut, pump, out, owner, returned>>
    BY <1>4 DEF Tunnel!Tick
  <2>2. ClockInv'
    BY <2>1, LifecyclesAssumption DEF ClockInv
  <2> QED BY <2>1, <2>2 DEF Tunnel!CleanEnd, IdleStep
<1>5. ASSUME NEW e \in Tunnel!Ends, Tunnel!Read(e) PROVE RelayInv' /\ IdleStep
  <2>1. /\ pump[e] = "read" /\ UNCHANGED <<kind, sent, end, put, fin, shut, out, owner, left>>
        /\ \/ kind = "proxy" /\ pump' = [pump EXCEPT ![e] = "got"] /\ age' = [age EXCEPT ![e] = 0]
           \/ kind # "proxy" /\ pump' = [pump EXCEPT ![e] = "write"] /\ age' = age
    BY <1>5 DEF Tunnel!Read, Tunnel!Moved, Tunnel!To
  <2> QED BY <2>1, OtherEnd DEF ClockInv, Tunnel!CleanEnd, IdleStep
<1>6. ASSUME NEW e \in Tunnel!Ends, Tunnel!Wrote(e) PROVE RelayInv' /\ IdleStep
  <2>1. /\ pump[e] = "write" /\ put' = [put EXCEPT ![Tunnel!Other(e)] = @ + 1]
        /\ UNCHANGED <<kind, sent, end, fin, shut, out, owner, left>>
        /\ \/ kind = "proxy" /\ pump' = [pump EXCEPT ![e] = "gave"]
                /\ age' = [age EXCEPT ![e] = 0]
           \/ kind # "proxy" /\ pump' = [pump EXCEPT ![e] = "read"] /\ age' = age
    BY <1>6 DEF Tunnel!Wrote, Tunnel!Moved, Tunnel!To
  <2> QED BY <2>1, OtherEnd DEF ClockInv, Tunnel!CleanEnd, IdleStep
<1>7. ASSUME NEW e \in Tunnel!Ends, Tunnel!Refresh(e) PROVE RelayInv' /\ IdleStep
  <2>1. /\ pump[e] \in {"got", "gave"} /\ left' = Idle
        /\ pump' = [pump EXCEPT ![e] = IF pump[e] = "got" THEN "write" ELSE "read"]
        /\ UNCHANGED <<kind, sent, end, put, fin, shut, out, owner, age>>
    BY <1>7 DEF Tunnel!Refresh, Tunnel!To, Tunnel!DeadlineFrom
  <2> QED BY <2>1, OtherEnd, LifecyclesAssumption DEF ClockInv, Tunnel!CleanEnd, IdleStep
<1>8. ASSUME NEW e \in Tunnel!Ends,
             Tunnel!ReadEnds(e) \/ Tunnel!ReadTimesOut(e) \/ Tunnel!WriteFails(e)
      PROVE  RelayInv' /\ IdleStep
  <2>1. CASE Tunnel!ReadEnds(e)
    BY <2>1, TunnelStopKeeps DEF Tunnel!ReadEnds
  <2>2. CASE Tunnel!ReadTimesOut(e)
    BY <2>2, TunnelStopKeeps DEF Tunnel!ReadTimesOut
  <2>3. CASE Tunnel!WriteFails(e)
    <3>1. (shut["a"] \/ shut["b"]) => (shut[e] \/ shut[Tunnel!Other(e)])
      BY DEF Tunnel!Ends, Tunnel!Other
    <3> QED BY <2>3, <3>1, TunnelStopKeeps DEF Tunnel!WriteFails, Tunnel!WriteShut
  <2> QED BY <1>8, <2>1, <2>2, <2>3
<1>9. ASSUME NEW e \in Tunnel!Ends, Tunnel!Finish(e) PROVE RelayInv' /\ IdleStep
  <2>1. /\ pump[e] = "report" /\ pump' = [pump EXCEPT ![e] = "done"]
        /\ UNCHANGED <<kind, sent, end, put, out, owner, left, age>>
    BY <1>9 DEF Tunnel!Finish, Tunnel!To
  <2>2. CASE Tunnel!InOrder(e) /\ Tunnel!HalfClose(Tunnel!Other(e))
    <3>1. /\ shut' = shut
          /\ fin' = [fin EXCEPT ![Tunnel!Other(e)] = @ \/ ~shut[Tunnel!Other(e)]]
      BY <2>2 DEF Tunnel!HalfClose
    <3>2. EndsInv' /\ ClockInv' /\ IdleStep
      BY <2>1, <3>1, OtherEnd DEF ClockInv, IdleStep
    <3>3. Tunnel!CleanEnd'
      <4> SUFFICES ASSUME NEW x \in Tunnel!Ends, fin'[x], owner' = "live", ~shut'[x]
                   PROVE  end'[Tunnel!Other(x)] = "eof" /\ put'[x] = sent'[Tunnel!Other(x)]
        BY DEF Tunnel!CleanEnd
      <4>1. CASE x = e
        BY <2>1, <3>1, <4>1, OtherEnd DEF Tunnel!CleanEnd
      <4>2. CASE x = Tunnel!Other(e)
        <5>1. ~shut["a"] /\ ~shut["b"]
          BY <2>1, <3>1 DEF Tunnel!Ends
        <5>2. out[e] = "eof"
          BY <2>2, <5>1, OtherEnd DEF Tunnel!InOrder, Tunnel!Ends
        <5> QED BY <2>1, <4>2, <5>2, OtherEnd
      <4> QED BY <4>1, <4>2, OtherEnd
    <3> QED BY <3>2, <3>3
  <2>3. CASE Tunnel!Abort(Tunnel!Other(e))
    <3>1. shut' = [x \in Tunnel!Ends |-> TRUE] /\ fin' = fin
      BY <2>3 DEF Tunnel!Abort
    <3> QED BY <2>1, <3>1, OtherEnd DEF ClockInv, Tunnel!CleanEnd, IdleStep, Tunnel!Ends
  <2> QED BY <1>9, <2>2, <2>3 DEF Tunnel!Finish, Tunnel!Abort
<1>10. CASE Tunnel!OwnerGone
  BY <1>10 DEF Tunnel!OwnerGone, ClockInv, Tunnel!CleanEnd, IdleStep, Tunnel!Ends
<1>11. CASE Tunnel!OwnerCloses
  <2>1. /\ owner \in {"gone", "closing"} /\ owner' \in {"closing", "closed"}
        /\ \E x \in Tunnel!Ends : shut' = [shut EXCEPT ![x] = TRUE]
        /\ UNCHANGED <<kind, sent, end, put, fin, pump, out, left, age>>
    BY <1>11 DEF Tunnel!OwnerCloses, Tunnel!Ends
  <2> QED BY <2>1 DEF ClockInv, Tunnel!CleanEnd, IdleStep, Tunnel!Ends
<1>12. CASE Tunnel!Return
  BY <1>12 DEF Tunnel!Return, ClockInv, Tunnel!CleanEnd, IdleStep
<1> QED
  BY <1>1, <1>2, <1>3, <1>4, <1>5, <1>6, <1>7, <1>8, <1>9, <1>10, <1>11, <1>12
     DEF Tunnel!Next, Tunnel!Acts

\* A behaviour of the composition is one of its relay.
LEMMA TunnelBehaves == Safety => Tunnel!Init /\ [][Tunnel!Next]_Tunnel!vars
<1>1. Init => Tunnel!Init
  BY DEF Init
<1>2. [Next]_vars => [Tunnel!Next]_Tunnel!vars
  BY DEF Next, ButProxy, ButTunnel, ButWriter, ButEvents, ButMain, ButTimers, ButPacer, ButDatagrams, vars,
         relayVars, Tunnel!vars
<1> QED BY <1>1, <1>2, PTL DEF Safety

\* A half-close ends the whole stream and never a part of it (copyHalf), and a
\* relay of the proxy times out only when no byte has moved in either direction
\* for the whole timeout (relayActivity.refresh), whatever was sent.
THEOREM RelaysAreFaithful == Safety => RelaysFaithfully
<1>1. RelayInv /\ [Tunnel!Next]_Tunnel!vars => RelayInv' /\ [IdleStep]_Tunnel!vars
  BY RelayStep
<1>2. RelayInv => Tunnel!CleanEnd
  BY DEF RelayInv
<1> QED BY <1>1, <1>2, RelayInitially, TunnelBehaves, PTL
     DEF RelaysFaithfully, Tunnel!IdleIsWholeTunnel, IdleStep
-----------------------------------------------------------------------------
(* The writer of a paced stream. *)

\* "nobody" is no goroutine.
LEMMA WriterNobody == Writer!Nobody \notin Callers
BY LifecyclesAssumption DEF Writer!Nobody

\* Between taking writeMu and giving it back.
Holding == {"pace", "wait", "judge", "send", "fin"}

\* writeMu is held by whoever is inside a Write or CloseWrite.
WriterHolderInv ==
  /\ pc \in [Callers -> {"idle", "write", "half"} \cup Holding]
  /\ \A c \in Callers : pc[c] \in Holding <=> mu = c
  /\ \A c \in Callers : pc[c] = "judge" => wait.err \in {"ok", "canceled", "expired"}
  /\ DOMAIN result = Callers

\* A wait ended by its deadline has seen the current one pass, or one that moved;
\* a canceled one has seen the deadline move, or the end of pacing.
WaitInv ==
  /\ gen \in Nat
  /\ wait \in [gen : Nat, timed : BOOLEAN, ctx : {"none", "live", "expired", "canceled"},
               err : {"none", "ok", "expired", "canceled"}]
  /\ wait.gen <= gen
  /\ "expired" \in {wait.ctx, wait.err} /\ wait.gen = gen => deadline = "passed"
  /\ "canceled" \in {wait.ctx, wait.err} /\ paceable => wait.gen # gen
  /\ paceable \in BOOLEAN

\* The writer's inductive invariant.
WriterInv == WriterHolderInv /\ WaitInv

\* What a step may report (HonestErrors).
HonestStep ==
  \A c \in Callers : /\ result'[c] # "canceled"
                     /\ result'[c] = "timeout" /\ result[c] # "timeout"
                          => deadline = "passed"
\* No operation has ended with its wait's own error.
NoBareError == \A c \in Callers : result[c] # "canceled"

\* Nobody writes.
LEMMA WriterInitially == Writer!Init => WriterInv /\ NoBareError
<1> SUFFICES ASSUME Writer!Init PROVE WriterInv /\ NoBareError
  OBVIOUS
<1>1. wait \in [gen : Nat, timed : BOOLEAN, ctx : {"none", "live", "expired", "canceled"},
                err : {"none", "ok", "expired", "canceled"}]
  BY DEF Writer!Init, Writer!NoWait
<1> QED BY <1>1, WriterNobody DEF Writer!Init, Writer!NoWait, WriterInv, WriterHolderInv,
     WaitInv, NoBareError, Holding

\* A wait that is over is in nobody's way.
LEMMA NoWaitKeeps ==
  ASSUME WaitInv, wait' = Writer!NoWait, UNCHANGED <<gen, deadline, paceable>>
  PROVE  WaitInv'
<1>1. /\ wait' \in [gen : Nat, timed : BOOLEAN, ctx : {"none", "live", "expired", "canceled"},
                    err : {"none", "ok", "expired", "canceled"}]
      /\ wait'.gen = 0 /\ wait'.ctx = "none" /\ wait'.err = "none"
  BY DEF Writer!NoWait
<1> QED BY <1>1 DEF WaitInv

\* An operation that ends leaves its lock and the wait.
LEMMA ReturnKeeps ==
  ASSUME WriterInv, NoBareError, NEW c \in Callers, NEW r, Writer!Return(c, r), r # "canceled",
         r = "timeout" => deadline = "passed", mu \in {Writer!Nobody, c},
         UNCHANGED <<gen, deadline, paceable>>
  PROVE  WriterInv' /\ HonestStep
<1>1. /\ pc' = [pc EXCEPT ![c] = "idle"] /\ result' = [result EXCEPT ![c] = r]
      /\ mu' = Writer!Nobody /\ (wait' = wait \/ wait' = Writer!NoWait)
  BY DEF Writer!Return, Writer!To
<1>2. WriterHolderInv'
  BY <1>1, WriterNobody DEF WriterInv, WriterHolderInv, Holding
<1>3. WaitInv'
  BY <1>1, NoWaitKeeps DEF WriterInv, WaitInv
<1>4. HonestStep
  BY <1>1 DEF WriterInv, WriterHolderInv, HonestStep, NoBareError
<1> QED BY <1>2, <1>3, <1>4 DEF WriterInv

\* The end of paceCtx ends a live wait.
LEMMA WriterStopKeeps ==
  ASSUME WriterInv, Writer!StopPacing, UNCHANGED <<gen, deadline>>
  PROVE  WaitInv' /\ wait'.err = wait.err
BY DEF Writer!StopPacing, WriterInv, WaitInv

\* Whoever writes, waits, sets deadlines, cancels or closes keeps the invariant,
\* and what is reported is true.
LEMMA WriterStep ==
  ASSUME WriterInv, NoBareError, [Writer!Next]_Writer!vars
  PROVE  WriterInv' /\ HonestStep
<1> USE DEF NoBareError, HonestStep
<1>1. CASE UNCHANGED Writer!vars
  BY <1>1 DEF Writer!vars, WriterInv, WriterHolderInv, WaitInv
<1>2. ASSUME NEW c \in Callers, Writer!Write(c) PROVE WriterInv' /\ HonestStep
  BY <1>2 DEF Writer!Write, Writer!To, Writer!locks, WriterInv, WriterHolderInv, WaitInv,
     Holding
<1>3. ASSUME NEW c \in Callers, Writer!WriteEnters(c) PROVE WriterInv' /\ HonestStep
  <2>1. CASE closed \/ aborted
    BY <1>3, <2>1, ReturnKeeps DEF Writer!WriteEnters
  <2>2. CASE ~(closed \/ aborted)
    BY <1>3, <2>2, WriterNobody DEF Writer!WriteEnters, Writer!To, WriterInv, WriterHolderInv,
       WaitInv, Holding
  <2> QED BY <2>1, <2>2
<1>4. ASSUME NEW c \in Callers, Writer!BeginWait(c) PROVE WriterInv' /\ HonestStep
  <2>1. WaitInv' /\ wait'.err = "none"
    BY <1>4 DEF Writer!BeginWait, Writer!locks, WriterInv, WaitInv
  <2> QED BY <1>4, <2>1 DEF Writer!BeginWait, Writer!To, Writer!locks, WriterInv,
       WriterHolderInv, Holding
<1>5. ASSUME NEW c \in Callers, NEW e \in {"ok", "canceled", "expired"}, Writer!PacerReturns(c, e)
      PROVE  WriterInv' /\ HonestStep
  <2>1. WaitInv' /\ wait'.err = e
    BY <1>5 DEF Writer!PacerReturns, Writer!locks, WriterInv, WaitInv
  <2> QED BY <1>5, <2>1 DEF Writer!PacerReturns, Writer!To, Writer!locks, WriterInv,
       WriterHolderInv, Holding
<1>6. ASSUME NEW c \in Callers, Writer!Judge(c) PROVE WriterInv' /\ HonestStep
  <2>1. pc[c] = "judge" /\ mu = c /\ wait.err \in {"ok", "canceled", "expired"}
        /\ UNCHANGED <<gen, deadline, paceable>>
    BY <1>6 DEF Writer!Judge, WriterInv, WriterHolderInv, Holding
  <2>2. CASE wait.err = "ok"
    <3>1. /\ pc' = [pc EXCEPT ![c] = "send"] /\ wait' = Writer!NoWait
          /\ UNCHANGED <<result, mu>>
      BY <1>6, <2>2 DEF Writer!Judge, Writer!To
    <3>2. WaitInv'
      BY <2>1, <3>1, NoWaitKeeps DEF WriterInv
    <3>3. WriterHolderInv'
      BY <2>1, <3>1 DEF WriterInv, WriterHolderInv, Holding
    <3> QED BY <3>1, <3>2, <3>3 DEF WriterInv
  <2>3. CASE wait.err # "ok" /\ Writer!DeadlineMoved /\ paceable
    BY <1>6, <2>1, <2>3 DEF Writer!Judge, Writer!To, WriterInv, WriterHolderInv, WaitInv,
       Holding
  <2>4. CASE wait.err # "ok" /\ ~(Writer!DeadlineMoved /\ paceable)
    <3> DEFINE r == IF ~paceable THEN "closed"
                    ELSE IF wait.err = "expired" THEN "timeout" ELSE "canceled"
    <3>1. Writer!Return(c, r)
      BY <1>6, <2>4 DEF Writer!Judge
    <3>2. r # "canceled" /\ (r = "timeout" => deadline = "passed")
      BY <2>1, <2>4 DEF WriterInv, WaitInv, Writer!DeadlineMoved
    <3> HIDE DEF r
    <3> QED BY <2>1, <3>1, <3>2, ReturnKeeps
  <2> QED BY <2>2, <2>3, <2>4
<1>7. ASSUME NEW c \in Callers, Writer!Sent(c) PROVE WriterInv' /\ HonestStep
  <2>1. pc[c] = "send" /\ mu = c /\ UNCHANGED <<gen, deadline, paceable>>
    BY <1>7 DEF Writer!Sent, WriterInv, WriterHolderInv, Holding
  <2>2. CASE chunks[c] = 1
    BY <1>7, <2>1, <2>2, ReturnKeeps DEF Writer!Sent
  <2>3. CASE chunks[c] # 1
    BY <1>7, <2>1, <2>3 DEF Writer!Sent, Writer!To, WriterInv, WriterHolderInv, WaitInv, Holding
  <2> QED BY <2>2, <2>3
<1>8. ASSUME NEW c \in Callers, Writer!SendFails(c) PROVE WriterInv' /\ HonestStep
  <2>1. pc[c] = "send" /\ mu = c /\ UNCHANGED <<gen, deadline, paceable>>
    BY <1>8 DEF Writer!SendFails, WriterInv, WriterHolderInv, Holding
  <2> QED BY <1>8, <2>1, ReturnKeeps DEF Writer!SendFails
<1>9. ASSUME NEW d, Writer!SetDeadline(d) PROVE WriterInv' /\ HonestStep
  <2>1. WaitInv' /\ wait'.err = wait.err
    BY <1>9 DEF Writer!SetDeadline, WriterInv, WaitInv
  <2> QED BY <1>9, <2>1 DEF Writer!SetDeadline, Writer!locks, WriterInv, WriterHolderInv
<1>10. CASE Writer!DeadlinePasses
  <2>1. WaitInv' /\ wait'.err = wait.err
    BY <1>10 DEF Writer!DeadlinePasses, WriterInv, WaitInv
  <2> QED BY <1>10, <2>1 DEF Writer!DeadlinePasses, Writer!locks, WriterInv, WriterHolderInv
<1>11. ASSUME NEW c \in Callers, Writer!CloseWrite(c) PROVE WriterInv' /\ HonestStep
  <2>1. WaitInv' /\ wait'.err = wait.err
    BY <1>11, WriterStopKeeps DEF Writer!CloseWrite
  <2> QED BY <1>11, <2>1 DEF Writer!CloseWrite, Writer!To, Writer!locks, WriterInv,
       WriterHolderInv, Holding
<1>12. ASSUME NEW c \in Callers, Writer!CloseWriteEnters(c) PROVE WriterInv' /\ HonestStep
  <2>1. CASE aborted \/ closed
    <3>1. PICK r \in {"closed", "ok"} : Writer!Return(c, r)
      BY <1>12, <2>1 DEF Writer!CloseWriteEnters
    <3> QED BY <1>12, <3>1, ReturnKeeps DEF Writer!CloseWriteEnters
  <2>2. CASE ~(aborted \/ closed)
    BY <1>12, <2>2, WriterNobody DEF Writer!CloseWriteEnters, Writer!To, WriterInv,
       WriterHolderInv, WaitInv, Holding
  <2> QED BY <2>1, <2>2
<1>13. ASSUME NEW c \in Callers, Writer!Fin(c) PROVE WriterInv' /\ HonestStep
  <2>1. mu = c
    BY <1>13 DEF Writer!Fin, WriterInv, WriterHolderInv, Holding
  <2> QED BY <1>13, <2>1, ReturnKeeps DEF Writer!Fin
<1>14. CASE Writer!Close \/ Writer!StreamDies
  <2>1. WaitInv' /\ wait'.err = wait.err
    BY <1>14, WriterStopKeeps DEF Writer!Close, Writer!StreamDies
  <2> QED BY <1>14, <2>1 DEF Writer!Close, Writer!StreamDies, Writer!locks, WriterInv,
       WriterHolderInv
<1>15. CASE Writer!CloseMarks \/ Writer!CancelWrite
  BY <1>15 DEF Writer!CloseMarks, Writer!CancelWrite, WriterInv, WriterHolderInv, WaitInv
<1> HIDE DEF NoBareError, HonestStep
<1> QED
  BY <1>1, <1>2, <1>3, <1>4, <1>5, <1>6, <1>7, <1>8, <1>9, <1>10, <1>11, <1>12,
     <1>13, <1>14, <1>15 DEF Writer!Next, Writer!Runs

\* A behaviour of the composition is one of its writer.
LEMMA WriterBehaves == Safety => Writer!Init /\ [][Writer!Next]_Writer!vars
<1>1. Init => Writer!Init
  BY DEF Init
<1>2. [Next]_vars => [Writer!Next]_Writer!vars
  BY DEF Next, ButProxy, ButTunnel, ButWriter, ButEvents, ButMain, ButTimers, ButPacer, ButDatagrams, vars,
         writerVars, Writer!vars
<1> QED BY <1>1, <1>2, PTL DEF Safety

\* A Write that pacing interrupted reports the deadline that is set when it is
\* judged, or that the stream is closed, and never the bare cancelation of its
\* wait (waitForPacing, SetWriteDeadline).
THEOREM ErrorsAreHonest == Safety => HonestErrors
<1>1. WriterInv /\ NoBareError /\ [Writer!Next]_Writer!vars => WriterInv' /\ NoBareError'
  BY WriterStep DEF HonestStep, NoBareError
<1>2. WriterInv /\ NoBareError /\ [Writer!Next]_Writer!vars => [HonestStep]_Writer!vars
  BY WriterStep
<1> QED BY <1>1, <1>2, WriterInitially, WriterBehaves, PTL
     DEF HonestErrors, Writer!HonestErrors, HonestStep
-----------------------------------------------------------------------------
(* The event dispatcher. *)

\* The queue: increasing numbers above what was delivered, up to the latest.
Increasing(q) == \A i, j \in 1..Len(q) : i < j => q[i].n < q[j].n
QueueInv ==
  /\ Increasing(eventQueue)
  /\ \A i \in 1..Len(eventQueue) : eventQueue[i].n > delivered.n
  /\ IF eventQueue = <<>> THEN delivered = lastEvent
                          ELSE eventQueue[Len(eventQueue)] = lastEvent
  /\ ~dispatching => eventQueue = <<>>

\* What was selected last is what the latest event says.
SelectedInv ==
  /\ lastFallback <=> lastEvent.kind = "fallback"
  /\ lastFallback <=> selected = "tls"

\* Whoever has the right to dispatch.
Running(d) == dispatcher[d] # "off"
Spawning(c) == caller[c] = "spawn"
TokenInv ==
  /\ \A c \in Callers : Spawning(c) => dispatching
  /\ \A d \in Dispatchers : Running(d) => dispatching
  /\ \A c \in Callers, d \in Dispatchers : ~(Spawning(c) /\ Running(d))
  /\ \A c1, c2 \in Callers : Spawning(c1) /\ Spawning(c2) => c1 = c2
  /\ \A d1, d2 \in Dispatchers : Running(d1) /\ Running(d2) => d1 = d2

\* The inductive invariant of the events.
EventsInv == Events!TypeOK /\ QueueInv /\ SelectedInv /\ TokenInv

\* No event, and nobody dispatches.
LEMMA EventsInitially == Events!Init => EventsInv
<1> SUFFICES ASSUME Events!Init PROVE EventsInv
  OBVIOUS
<1>1. /\ eventQueue = <<>> /\ eventQueue \in Seq(Events!Event) /\ Len(eventQueue) = 0
      /\ Events!NoEvent \in Events!Event /\ Events!NoEvent.kind = "recovery"
  BY DEF Events!Init, Events!Event, Events!NoEvent
<1>2. Events!TypeOK
  <2>1. Len(eventQueue) <= MaxPending
    BY <1>1, LifecyclesAssumption
  <2>2. caller \in [Callers -> {"idle", "spawn"}]
          /\ dispatcher \in [Dispatchers -> {"off", "head", "handler"}]
    BY DEF Events!Init
  <2> QED BY <1>1, <2>1, <2>2 DEF Events!Init, Events!TypeOK
<1>3. QueueInv
  BY <1>1 DEF Events!Init, QueueInv, Increasing
<1>4. SelectedInv /\ TokenInv
  BY <1>1 DEF Events!Init, SelectedInv, TokenInv, Running, Spawning
<1> QED BY <1>2, <1>3, <1>4 DEF EventsInv

\* With an empty queue the latest event is the one delivered.
LEMMA LatestKnown == EventsInv => Events!LatestTold
BY DEF EventsInv, QueueInv, SelectedInv, Events!LatestTold, Events!TypeOK

\* Queueing the next event.
LEMMA QueueGrows ==
  ASSUME EventsInv, NEW what \in {"fallback", "recovery"}, NEW c \in Callers,
         Events!Commit(c, what)
  PROVE  /\ lastEvent' \in Events!Event /\ lastEvent'.kind = what
         /\ eventQueue' \in Seq(Events!Event) /\ Len(eventQueue') <= MaxPending
         /\ eventQueue' # <<>> /\ eventQueue'[Len(eventQueue')] = lastEvent'
         /\ Increasing(eventQueue')
         /\ \A i \in 1..Len(eventQueue') : eventQueue'[i].n > delivered.n
<1> DEFINE e == [n |-> lastEvent.n + 1, kind |-> what]
<1>1. lastEvent' = e /\ eventQueue' = Events!Queued(e)
  BY DEF Events!Commit
<1>2. /\ lastEvent \in Events!Event /\ delivered \in Events!Event
      /\ e \in Events!Event /\ e.kind = what
      /\ eventQueue \in Seq(Events!Event) /\ Len(eventQueue) <= MaxPending
      /\ e.n = lastEvent.n + 1 /\ lastEvent.n \in Nat /\ delivered.n \in Nat
  BY DEF EventsInv, Events!TypeOK, Events!Event
<1>3. \A i \in 1..Len(eventQueue) :
        eventQueue[i].n \in Nat /\ eventQueue[i].n <= lastEvent.n
  <2>1. \A i \in 1..Len(eventQueue) : eventQueue[i] \in Events!Event
    BY <1>2
  <2> QED BY <1>2, <2>1 DEF EventsInv, QueueInv, Increasing, Events!Event
<1>4. delivered.n <= lastEvent.n
  BY <1>2, <1>3 DEF EventsInv, QueueInv
<1> HIDE DEF e
<1>5. CASE Len(eventQueue) = MaxPending
  <2>1. eventQueue' = [eventQueue EXCEPT ![MaxPending] = e] /\ MaxPending \in 1..Len(eventQueue)
    <3>1. MaxPending \in 1..Len(eventQueue)
      BY <1>5, LifecyclesAssumption
    <3> QED BY <1>1, <1>5, <3>1 DEF Events!Queued
  <2>2. eventQueue' \in Seq(Events!Event) /\ Len(eventQueue') = MaxPending
        /\ eventQueue'[MaxPending] = e
        /\ \A i \in 1..Len(eventQueue) : i # MaxPending => eventQueue'[i] = eventQueue[i]
    BY <1>2, <1>5, <2>1
  <2>3. \A i, j \in 1..Len(eventQueue') : i < j => eventQueue'[i].n < eventQueue'[j].n
    <3> SUFFICES ASSUME NEW i \in 1..MaxPending, NEW j \in 1..MaxPending, i < j
                 PROVE  eventQueue'[i].n < eventQueue'[j].n
      BY <2>2
    <3>1. i # MaxPending /\ eventQueue'[i] = eventQueue[i]
      BY <1>5, <2>2, LifecyclesAssumption
    <3>2. CASE j = MaxPending
      BY <1>2, <1>3, <1>5, <2>2, <3>1, <3>2
    <3>3. CASE j # MaxPending
      BY <1>5, <2>2, <3>1, <3>3 DEF EventsInv, QueueInv, Increasing
    <3> QED BY <3>2, <3>3
  <2>4. \A i \in 1..Len(eventQueue') : eventQueue'[i].n > delivered.n
    <3> SUFFICES ASSUME NEW i \in 1..MaxPending PROVE eventQueue'[i].n > delivered.n
      BY <2>2
    <3>1. CASE i = MaxPending
      BY <1>2, <1>4, <2>2, <3>1
    <3>2. CASE i # MaxPending
      BY <1>5, <2>2, <3>2 DEF EventsInv, QueueInv
    <3> QED BY <3>1, <3>2
  <2>5. eventQueue' # <<>>
    BY <2>2, LifecyclesAssumption
  <2>6. lastEvent' = e
    BY <1>1
  <2>7. /\ lastEvent' \in Events!Event /\ lastEvent'.kind = what
        /\ eventQueue'[Len(eventQueue')] = lastEvent'
    BY <1>2, <2>2, <2>6
  <2> QED BY <2>2, <2>3, <2>4, <2>5, <2>7, LifecyclesAssumption DEF Increasing
<1>6. CASE Len(eventQueue) # MaxPending
  <2>1. eventQueue' = Append(eventQueue, e)
    BY <1>1, <1>6 DEF Events!Queued
  <2>2. eventQueue' \in Seq(Events!Event) /\ Len(eventQueue') = Len(eventQueue) + 1
        /\ eventQueue'[Len(eventQueue) + 1] = e
        /\ \A i \in 1..Len(eventQueue) : eventQueue'[i] = eventQueue[i]
    BY <1>2, <2>1
  <2>3. \A i, j \in 1..Len(eventQueue') : i < j => eventQueue'[i].n < eventQueue'[j].n
    <3> SUFFICES ASSUME NEW i \in 1..(Len(eventQueue) + 1),
                        NEW j \in 1..(Len(eventQueue) + 1), i < j
                 PROVE  eventQueue'[i].n < eventQueue'[j].n
      BY <2>2
    <3>1. i \in 1..Len(eventQueue) /\ eventQueue'[i] = eventQueue[i]
      BY <1>2, <2>2
    <3>2. CASE j = Len(eventQueue) + 1
      BY <1>2, <1>3, <2>2, <3>1, <3>2
    <3>3. CASE j # Len(eventQueue) + 1
      <4>1. j \in 1..Len(eventQueue)
        BY <1>2, <3>3
      <4> QED BY <2>2, <3>1, <4>1 DEF EventsInv, QueueInv, Increasing
    <3> QED BY <3>2, <3>3
  <2>4. \A i \in 1..Len(eventQueue') : eventQueue'[i].n > delivered.n
    <3> SUFFICES ASSUME NEW i \in 1..(Len(eventQueue) + 1) PROVE eventQueue'[i].n > delivered.n
      BY <2>2
    <3>1. CASE i = Len(eventQueue) + 1
      BY <1>2, <1>4, <2>2, <3>1
    <3>2. CASE i # Len(eventQueue) + 1
      <4>1. i \in 1..Len(eventQueue)
        BY <1>2, <3>2
      <4> QED BY <2>2, <4>1 DEF EventsInv, QueueInv
    <3> QED BY <3>1, <3>2
  <2>5. eventQueue' # <<>>
    BY <1>2, <2>2
  <2>6. Len(eventQueue') <= MaxPending
    BY <1>2, <1>6, <2>2, LifecyclesAssumption
  <2>7. lastEvent' = e
    BY <1>1
  <2>8. /\ lastEvent' \in Events!Event /\ lastEvent'.kind = what
        /\ eventQueue'[Len(eventQueue')] = lastEvent'
    BY <1>2, <2>2, <2>7
  <2> QED BY <2>2, <2>3, <2>4, <2>5, <2>6, <2>8 DEF Increasing
<1> QED BY <1>5, <1>6

\* A commit that claims the dispatcher's place claims it once.
LEMMA ClaimOnce ==
  ASSUME EventsInv, NEW c \in Callers, Events!ClaimDispatch(c), UNCHANGED dispatcher
  PROVE  dispatching' /\ dispatching' \in BOOLEAN /\ caller' \in [Callers -> {"idle", "spawn"}]
           /\ TokenInv'
<1>1. CASE dispatching
  BY <1>1 DEF EventsInv, Events!TypeOK, Events!ClaimDispatch, TokenInv, Running, Spawning
<1>2. CASE ~dispatching
  <2>1. /\ caller' = [caller EXCEPT ![c] = "spawn"] /\ dispatching' = TRUE
        /\ \A x \in Callers : caller[x] = "idle"
        /\ \A d \in Dispatchers : ~Running(d)
    BY <1>2 DEF Events!ClaimDispatch, EventsInv, TokenInv, Spawning, Events!TypeOK
  <2> QED BY <2>1 DEF EventsInv, Events!TypeOK, TokenInv, Running, Spawning
<1> QED BY <1>1, <1>2

\* Commits, enqueues and dispatchers keep the invariant, and deliver upwards.
LEMMA EventsStep ==
  ASSUME EventsInv, [Events!Next]_Events!vars
  PROVE  /\ EventsInv'
         /\ delivered' # delivered => delivered'.n > delivered.n
<1>1. CASE UNCHANGED Events!vars
  BY <1>1 DEF Events!vars, EventsInv, Events!TypeOK, QueueInv, SelectedInv, TokenInv,
     Increasing, Running, Spawning
<1>2. ASSUME NEW c \in Callers, Events!PrimarySucceeded(c)
      PROVE  EventsInv' /\ delivered' = delivered
  <2>1. selected' = "quic" /\ lastFallback' = FALSE /\ UNCHANGED <<dispatcher, delivered>>
    BY <1>2 DEF Events!PrimarySucceeded
  <2>2. CASE lastFallback
    <3>1. Events!Commit(c, "recovery") /\ Events!ClaimDispatch(c)
      BY <1>2, <2>2 DEF Events!PrimarySucceeded, Events!Commit
    <3> QED BY <2>1, <3>1, QueueGrows, ClaimOnce DEF EventsInv, Events!TypeOK, QueueInv,
         SelectedInv
  <2>3. CASE ~lastFallback
    BY <1>2, <2>1, <2>3 DEF Events!PrimarySucceeded, EventsInv, Events!TypeOK, QueueInv,
       SelectedInv, TokenInv, Increasing, Running, Spawning
  <2> QED BY <2>1, <2>2, <2>3
<1>3. ASSUME NEW c \in Callers, Events!RecordFallback(c)
      PROVE  EventsInv' /\ delivered' = delivered
  <2>1. selected' = "tls" /\ lastFallback' = TRUE /\ UNCHANGED <<dispatcher, delivered>>
    BY <1>3 DEF Events!RecordFallback
  <2>2. CASE ~lastFallback
    <3>1. Events!Commit(c, "fallback") /\ Events!ClaimDispatch(c)
      BY <1>3, <2>2 DEF Events!RecordFallback, Events!Commit
    <3> QED BY <2>1, <3>1, QueueGrows, ClaimOnce DEF EventsInv, Events!TypeOK, QueueInv,
         SelectedInv
  <2>3. CASE lastFallback
    BY <1>3, <2>1, <2>3 DEF Events!RecordFallback, EventsInv, Events!TypeOK, QueueInv,
       SelectedInv, TokenInv, Increasing, Running, Spawning
  <2> QED BY <2>1, <2>2, <2>3
<1>4. ASSUME NEW c \in Callers, Events!Spawn(c) PROVE EventsInv' /\ delivered' = delivered
  <2>1. PICK d \in Dispatchers : dispatcher[d] = "off"
          /\ dispatcher' = [dispatcher EXCEPT ![d] = "head"]
    BY <1>4 DEF Events!Spawn
  <2>2. /\ caller[c] = "spawn" /\ caller' = [caller EXCEPT ![c] = "idle"]
        /\ UNCHANGED <<selected, lastFallback, lastEvent, eventQueue, dispatching, delivered>>
    BY <1>4 DEF Events!Spawn
  <2>3. TokenInv'
    BY <2>1, <2>2 DEF EventsInv, Events!TypeOK, TokenInv, Running, Spawning
  <2>4. Events!TypeOK'
    BY <2>1, <2>2 DEF EventsInv, Events!TypeOK
  <2> QED BY <2>2, <2>3, <2>4 DEF EventsInv, QueueInv, SelectedInv, Increasing
<1>5. ASSUME NEW d \in Dispatchers, Events!Deliver(d)
      PROVE  EventsInv' /\ delivered'.n > delivered.n
  <2>1. /\ dispatcher[d] = "head" /\ eventQueue # <<>>
        /\ delivered' = Head(eventQueue) /\ eventQueue' = Tail(eventQueue)
        /\ dispatcher' = [dispatcher EXCEPT ![d] = "handler"]
        /\ UNCHANGED <<selected, lastFallback, lastEvent, dispatching, caller>>
    BY <1>5 DEF Events!Deliver
  <2>2. /\ eventQueue \in Seq(Events!Event) /\ Len(eventQueue) >= 1 /\ delivered' = eventQueue[1]
        /\ delivered' \in Events!Event
        /\ eventQueue' \in Seq(Events!Event) /\ Len(eventQueue') = Len(eventQueue) - 1
        /\ \A i \in 1..Len(eventQueue') : eventQueue'[i] = eventQueue[i + 1]
    BY <2>1 DEF EventsInv, Events!TypeOK
  <2>3. delivered'.n > delivered.n
    BY <2>2 DEF EventsInv, QueueInv
  <2>4. Increasing(eventQueue') /\ \A i \in 1..Len(eventQueue') : eventQueue'[i].n > delivered'.n
    <3>1. \A i, j \in 1..Len(eventQueue) : i < j => eventQueue[i].n < eventQueue[j].n
      BY DEF EventsInv, QueueInv, Increasing
    <3>2. \A i \in 1..Len(eventQueue') : i + 1 \in 1..Len(eventQueue) /\ 1 < i + 1
      BY <2>2
    <3>3. ASSUME NEW i \in 1..Len(eventQueue'), NEW j \in 1..Len(eventQueue'), i < j
          PROVE  eventQueue'[i].n < eventQueue'[j].n
      <4>1. i + 1 < j + 1
        BY <3>3
      <4> QED BY <2>2, <3>1, <3>2, <4>1
    <3>4. ASSUME NEW i \in 1..Len(eventQueue')
          PROVE  eventQueue'[i].n > delivered'.n
      <4>1. /\ 1 \in 1..Len(eventQueue) /\ i + 1 \in 1..Len(eventQueue) /\ 1 < i + 1
            /\ eventQueue'[i] = eventQueue[i + 1]
        BY <2>2, <3>2
      <4>2. eventQueue[1].n < eventQueue[i + 1].n
        BY <3>1, <4>1
      <4>3. eventQueue[1] \in Events!Event /\ eventQueue[i + 1] \in Events!Event
        BY <2>2, <4>1
      <4> QED BY <2>2, <4>1, <4>2, <4>3 DEF Events!Event
    <3> QED BY <3>3, <3>4 DEF Increasing
  <2>5. IF eventQueue' = <<>> THEN delivered' = lastEvent'
                              ELSE eventQueue'[Len(eventQueue')] = lastEvent'
    <3>1. eventQueue[Len(eventQueue)] = lastEvent
      BY <2>1 DEF EventsInv, QueueInv
    <3>2. CASE Len(eventQueue) = 1
      BY <2>1, <2>2, <3>1, <3>2
    <3>3. CASE Len(eventQueue) # 1
      BY <2>1, <2>2, <3>1, <3>3
    <3> QED BY <3>2, <3>3
  <2>6. dispatching'
    BY <2>1 DEF EventsInv, TokenInv, Running
  <2>7. TokenInv'
    BY <2>1 DEF EventsInv, Events!TypeOK, TokenInv, Running, Spawning
  <2>8. Events!TypeOK'
    <3>1. Len(eventQueue') <= MaxPending
      BY <2>2, LifecyclesAssumption DEF EventsInv, Events!TypeOK
    <3> QED BY <2>1, <2>2, <3>1 DEF EventsInv, Events!TypeOK
  <2>9. QueueInv'
    BY <2>4, <2>5, <2>6 DEF QueueInv, Increasing
  <2> QED BY <2>1, <2>3, <2>7, <2>8, <2>9 DEF EventsInv, SelectedInv
<1>6. ASSUME NEW d \in Dispatchers, Events!HandlerReturns(d)
      PROVE  EventsInv' /\ delivered' = delivered
  <2>1. TokenInv'
    BY <1>6 DEF Events!HandlerReturns, EventsInv, Events!TypeOK, TokenInv, Running, Spawning
  <2> QED BY <1>6, <2>1 DEF Events!HandlerReturns, EventsInv, Events!TypeOK, QueueInv,
       SelectedInv, Increasing
<1>7. ASSUME NEW d \in Dispatchers, Events!Drained(d) PROVE EventsInv' /\ delivered' = delivered
  <2>1. TokenInv'
    BY <1>7 DEF Events!Drained, Events!Unclaim, EventsInv, Events!TypeOK, TokenInv, Running,
       Spawning
  <2> QED BY <1>7, <2>1 DEF Events!Drained, Events!Unclaim, EventsInv, Events!TypeOK, QueueInv,
       SelectedInv, Increasing
<1> QED BY <1>1, <1>2, <1>3, <1>4, <1>5, <1>6, <1>7 DEF Events!Next, Events!Dispatch

\* A behaviour of the composition is one of its events.
LEMMA EventsBehaves == Safety => Events!Init /\ [][Events!Next]_Events!vars
<1>1. Init => Events!Init
  BY DEF Init
<1>2. [Next]_vars => [Events!Next]_Events!vars
  BY DEF Next, ButProxy, ButTunnel, ButWriter, ButEvents, ButMain, ButTimers, ButPacer, ButDatagrams, vars,
         eventVars, Events!vars
<1> QED BY <1>1, <1>2, PTL DEF Safety

\* The handler sees transitions in commit order, each at most once, whatever the
\* queue drops; and whenever nobody has the right to dispatch, it has seen the
\* latest (enqueueClientEvent, dispatchClientEvents).
THEOREM EventsStayInOrder == Safety => EventsInOrder
<1>1. EventsInv /\ [Events!Next]_Events!vars => EventsInv'
  BY EventsStep
<1>2. EventsInv /\ [Events!Next]_Events!vars =>
        [/\ delivered' # delivered => delivered'.n > delivered.n
         /\ Events!LatestTold']_Events!vars
  <2>1. EventsInv' => Events!LatestTold'
    BY LatestKnown, PTL
  <2> QED BY <2>1, EventsStep
<1> QED BY <1>1, <1>2, EventsInitially, EventsBehaves, PTL
     DEF EventsInOrder, Events!EventsInOrder
-----------------------------------------------------------------------------
(* The main goroutine. *)

\* A goroutine reports what broke by itself: it is told to stop only once ctx is
\* done, and looks at ctx before it reports.
ReportInv ==
  /\ told \in Nat /\ (main = "waiting" => told = 0)
  /\ main # "waiting" => canceled
  /\ canceled \in BOOLEAN /\ parent \in BOOLEAN /\ broken \subseteq Listeners
  /\ goroutine \in [Listeners -> {"serving", "broken", "closed", "exit", "done"}]
  /\ \A l \in Listeners :
       /\ goroutine[l] = "broken" /\ ~canceled => l \in broken
       /\ goroutine[l] = "closed" => canceled
       /\ goroutine[l] = "exit" => errorsCh # <<>>
  /\ errorsCh \in Seq(broken)
  /\ canceled /\ ~parent => errorsCh # <<>>

\* The inductive invariant of the main goroutine.
MainInv == ReportInv /\ Main!FirstError

\* All listeners serve.
LEMMA MainInitially == Main!Init => MainInv
<1> SUFFICES ASSUME Main!Init PROVE MainInv
  OBVIOUS
<1>1. errorsCh \in Seq(broken)
  BY DEF Main!Init
<1> QED BY <1>1 DEF Main!Init, MainInv, ReportInv, Main!FirstError

\* A sequence over a set is one over any larger set.
LEMMA BrokenGrows ==
  ASSUME NEW S, NEW T, S \subseteq T, NEW q \in Seq(S)
  PROVE  q \in Seq(T)
OBVIOUS

\* Listeners that break, stop and report, signals and the main goroutine keep the
\* invariant.
LEMMA MainStep ==
  ASSUME MainInv, [Main!Next]_Main!supervisorVars
  PROVE  MainInv'
<1> USE DEF MainInv, ReportInv, Main!FirstError
<1>1. CASE UNCHANGED Main!supervisorVars
  BY <1>1 DEF Main!supervisorVars
<1>2. CASE Main!Signal
  BY <1>2 DEF Main!Signal
<1>3. ASSUME NEW l \in Listeners, Main!Breaks(l) PROVE MainInv'
  <2>1. errorsCh' \in Seq(broken')
    BY <1>3, BrokenGrows DEF Main!Breaks
  <2> QED BY <1>3, <2>1 DEF Main!Breaks
<1>4. ASSUME NEW l \in Listeners, Main!Stops(l) PROVE MainInv'
  <2>1. canceled
    BY <1>4, LifecyclesAssumption DEF Main!Stops, Main!Told
  <2> QED BY <1>4, <2>1 DEF Main!Stops
<1>5. ASSUME NEW l \in Listeners, Main!Reports(l) PROVE MainInv'
  <2>1. CASE Main!OnItsOwn
    <3>1. l \in broken /\ errorsCh' = Append(errorsCh, l)
      BY <1>5, <2>1 DEF Main!Reports, Main!OnItsOwn
    <3>2. errorsCh' \in Seq(broken) /\ errorsCh' # <<>>
      BY <3>1
    <3> QED BY <1>5, <2>1, <3>2 DEF Main!Reports, Main!OnItsOwn
  <2>2. CASE ~Main!OnItsOwn
    BY <1>5, <2>2 DEF Main!Reports, Main!OnItsOwn
  <2> QED BY <2>1, <2>2
<1>6. ASSUME NEW l \in Listeners, Main!Exits(l) PROVE MainInv'
  BY <1>6 DEF Main!Exits, Main!CancelAll
<1>7. CASE Main!Wakes
  BY <1>7 DEF Main!Wakes
<1>8. CASE Main!Closes
  BY <1>8 DEF Main!Closes
<1>9. CASE Main!Joins
  <2>1. errorsCh # <<>> => Head(errorsCh) \in broken
    OBVIOUS
  <2> QED BY <1>9, <2>1 DEF Main!Joins
<1> QED BY <1>1, <1>2, <1>3, <1>4, <1>5, <1>6, <1>7, <1>8, <1>9 DEF Main!Next, Main!Progress

\* A behaviour of the composition is one of its main goroutine.
LEMMA MainBehaves == Safety => Main!Init /\ [][Main!Next]_Main!supervisorVars
<1>1. Init => Main!Init
  BY DEF Init
<1>2. [Next]_vars => [Main!Next]_Main!supervisorVars
  BY DEF Next, ButProxy, ButTunnel, ButWriter, ButEvents, ButMain, ButTimers, ButPacer, ButDatagrams, vars,
         mainVars, Main!supervisorVars
<1> QED BY <1>1, <1>2, PTL DEF Safety

\* A process that no signal ended returns the error of a listener that broke by
\* itself, and none returns that of a listener it closed (runServer, runClient).
THEOREM FirstErrorReturned == Safety => []FirstError
<1>1. MainInv => Main!FirstError
  BY DEF MainInv
<1> QED BY <1>1, MainInitially, MainStep, MainBehaves, PTL DEF FirstError
-----------------------------------------------------------------------------
(* The timers of a web stream. *)

\* A callback that waits for mu serves a deadline that has passed, or one that
\* was overtaken since.
TimerInv ==
  /\ seq \in [Timers!Sides -> Nat]
  /\ DOMAIN due = Timers!Sides
  /\ armed \subseteq Timers!Sides
  /\ fired \subseteq [side : Timers!Sides, seq : Nat]
  /\ \A t \in fired : /\ t.seq <= seq[t.side]
                      /\ t.seq = seq[t.side] => due[t.side] = "passed"

\* What a step may end (TimersCurrent).
CurrentStep ==
  \A s \in Timers!Sides : late'[s] /\ ~late[s] => open /\ due[s] = "passed"

\* No timer is armed.
LEMMA TimersInitially == Timers!Init => TimerInv
BY DEF Timers!Init, TimerInv

\* Settings, firings, late callbacks and Close keep the invariant, and only a
\* current callback ends something.
LEMMA TimerStep ==
  ASSUME TimerInv, [Timers!Next]_Timers!vars
  PROVE  TimerInv' /\ CurrentStep
<1> USE DEF TimerInv, CurrentStep
<1>0. \A t \in fired : t.side \in Timers!Sides /\ t.seq \in Nat
  OBVIOUS
<1>1. CASE UNCHANGED Timers!vars
  BY <1>1 DEF Timers!vars
<1>2. ASSUME NEW sides \in SUBSET Timers!Sides, NEW d, Timers!Set(sides, d)
      PROVE  TimerInv' /\ CurrentStep
  BY <1>0, <1>2 DEF Timers!Set
<1>3. ASSUME NEW s \in Timers!Sides, Timers!Passes(s) PROVE TimerInv' /\ CurrentStep
  BY <1>0, <1>3 DEF Timers!Passes
<1>4. ASSUME NEW s \in Timers!Sides, Timers!Fires(s) PROVE TimerInv' /\ CurrentStep
  BY <1>0, <1>4 DEF Timers!Fires
<1>5. ASSUME NEW t \in fired, Timers!Expire(t) PROVE TimerInv' /\ CurrentStep
  <2>1. CASE Timers!Counts(t)
    <3>1. due[t.side] = "passed" /\ open
      BY <1>0, <2>1 DEF Timers!Counts
    <3>2. /\ fired' = fired \ {t} /\ armed' = {} /\ due' = due
          /\ seq' = [s \in Timers!Sides |-> seq[s] + 1]
          /\ late' = [s \in Timers!Sides |-> late[s] \/ s = t.side \/ due[s] = "passed"]
      BY <1>5, <2>1 DEF Timers!Expire, Timers!StopTimers
    <3>3. TimerInv'
      BY <1>0, <3>2
    <3>4. ASSUME NEW s \in Timers!Sides, late'[s], ~late[s] PROVE due[s] = "passed"
      BY <3>1, <3>2, <3>4
    <3> QED BY <3>1, <3>3, <3>4
  <2>2. CASE ~Timers!Counts(t)
    BY <1>0, <1>5, <2>2 DEF Timers!Expire
  <2> QED BY <2>1, <2>2
<1>6. CASE Timers!Close
  BY <1>0, <1>6 DEF Timers!Close, Timers!StopTimers
<1>7. CASE Timers!CloseStream
  BY <1>7 DEF Timers!CloseStream
<1> HIDE DEF TimerInv, CurrentStep
<1> QED BY <1>1, <1>2, <1>3, <1>4, <1>5, <1>6, <1>7 DEF Timers!Next

\* A behaviour of the composition is one of its timers.
LEMMA TimersBehaves == Safety => Timers!Init /\ [][Timers!Next]_Timers!vars
<1>1. Init => Timers!Init
  BY DEF Init
<1>2. [Next]_vars => [Timers!Next]_Timers!vars
  BY DEF Next, ButProxy, ButTunnel, ButWriter, ButEvents, ButMain, ButTimers, ButPacer, ButDatagrams, vars,
         timerVars, Timers!vars
<1> QED BY <1>1, <1>2, PTL DEF Safety

\* A timer that was replaced or stopped after it fired ends nothing, and whoever
\* ends a direction has its deadline behind it (expireRead, expireWrite).
THEOREM TimersKeptCurrent == Safety => TimersCurrent
<1>1. TimerInv /\ [Timers!Next]_Timers!vars => TimerInv' /\ [CurrentStep]_Timers!vars
  BY TimerStep
<1> QED BY <1>1, TimersInitially, TimersBehaves, PTL
     DEF TimersCurrent, Timers!TimersCurrent, CurrentStep
-----------------------------------------------------------------------------
(* The pacer. *)

\* What the pacer's parameters are.
LEMMA PacerParameters ==
  /\ Pace!Nobody \notin Writers /\ Burst \in Nat \ {0} /\ Rates \subseteq Nat \ {0}
  /\ Allowance \in Nat /\ MaxWait \in Nat
BY LifecyclesAssumption DEF Pace!Nobody

\* Products, over the integers.
LEMMA OneMore ==
  ASSUME NEW a \in Int, NEW b \in Int
  PROVE  (a + 1) * b = a * b + b
OBVIOUS

\* Multiplying by a natural number keeps the order.
LEMMA MoreIsMore ==
  ASSUME NEW a \in Int, NEW b \in Int, NEW d \in Nat, a <= b
  PROVE  a * d <= b * d
OBVIOUS

\* Division rounds down.
LEMMA DivBound ==
  ASSUME NEW n \in Nat, NEW d \in Nat \ {0}
  PROVE  (n \div d) * d <= n /\ n \div d \in Nat
OBVIOUS

\* Before the sleep that is computed for it is over, what is missing is missing.
LEMMA Sleeps ==
  ASSUME NEW m \in Nat \ {0}, NEW d \in Nat \ {0}, NEW k \in Nat, k < (m + d - 1) \div d
  PROVE k * d < m
<1> DEFINE q == (m + d - 1) \div d
<1>1. q * d <= m + d - 1 /\ q \in Nat
  BY DivBound
<1> HIDE DEF q
<1>2. k + 1 <= q
  BY <1>1 DEF q
<1>3. (k + 1) * d <= q * d
  BY <1>1, <1>2, MoreIsMore
<1>4. (k + 1) * d = k * d + d
  BY OneMore
<1>5. k * d \in Int /\ q * d \in Int
  BY <1>1
<1> QED BY <1>1, <1>3, <1>4, <1>5

\* A capacity probe.
Probes == [active : BOOLEAN, pending : BOOLEAN, left : Nat, until : Nat, rate : Nat]

\* Types, and a clock that was last looked at in the past.
PacerTypes ==
  /\ turn \in [Writers -> {"idle", "queue", "admit", "sleep"}]
  /\ need \in [Writers -> Nat] /\ got \in [Writers -> Nat]
  /\ holder \in Writers \cup {Pace!Nobody}
  /\ nap \in [until : Int, woken : BOOLEAN]
  /\ tokens \in Int /\ refilled \in Nat /\ now \in Nat /\ refilled <= now
  /\ rate \in Nat \ {0} /\ probe \in Probes /\ (probe.active => probe.rate # 0)
  /\ credit \in Int

\* One writer at a time looks at the bucket or sleeps.
PaceHolderInv == \A w \in Writers : turn[w] \in {"admit", "sleep"} <=> holder = w

\* What the next look at the clock will earn is covered by what was granted.
CoveredInv == tokens <= Burst /\ tokens + Pace!EarnedBy <= Burst + credit

\* A sleep that nobody has cut short ends with the probe that it counts on.
NapInv ==
  \A w \in Writers : turn[w] = "sleep" /\ ~nap.woken =>
    /\ probe.active => nap.until <= probe.until
    /\ \A t \in now..(nap.until - 1) : Pace!Capacity(t) < Pace!Chunk(w)

\* The pacer's inductive invariant.
PacerInv == PacerTypes /\ PaceHolderInv /\ CoveredInv /\ NapInv

\* What is earned is an integer, and so is what the bucket holds then.
LEMMA EarnedType ==
  ASSUME PacerTypes
  PROVE  /\ Pace!EarnedBy \in Int /\ Pace!Refilled.tokens \in Int /\ Pace!Refilled.tokens <= Burst
         /\ Pace!Refilled.tokens <= tokens + Pace!EarnedBy
         /\ Pace!Refilled.probe \in Probes
         /\ Pace!Refilled.probe.active => Pace!Refilled.probe.rate # 0
         /\ Pace!Refilled.probe.active => ~Pace!PastDeadline /\ Pace!Refilled.probe = probe
         /\ ~Pace!PastDeadline => Pace!Refilled.probe = probe
<1>1. \A a \in Int, b \in Int : a * b \in Int
  OBVIOUS
<1>2. probe.rate \in Int /\ probe.until \in Int /\ now \in Int /\ rate \in Int
        /\ refilled \in Int /\ probe.active \in BOOLEAN
  BY DEF PacerTypes, Probes
<1>3. Pace!EarnedBy \in Int
  BY <1>1, <1>2 DEF Pace!EarnedBy, Pace!PastDeadline
<1>4. Pace!Refilled.tokens = Pace!Lower(Burst, tokens + Pace!EarnedBy)
  BY DEF Pace!Refilled
<1>5. Pace!Refilled.probe = IF Pace!PastDeadline THEN Pace!Finished(probe) ELSE probe
  BY DEF Pace!Refilled
<1>6. Pace!Finished(probe) \in Probes /\ Pace!Finished(probe).active = FALSE
  BY DEF PacerTypes, Probes, Pace!Finished
<1>7. tokens \in Int
  BY DEF PacerTypes
<1>8. Pace!Refilled.tokens \in Int /\ Pace!Refilled.tokens <= Burst
        /\ Pace!Refilled.tokens <= tokens + Pace!EarnedBy
  BY <1>3, <1>4, <1>7, PacerParameters DEF Pace!Lower
<1> QED BY <1>3, <1>5, <1>6, <1>8 DEF PacerTypes

\* A full bucket and nobody asleep.
LEMMA PacerInitially == Pace!Init => PacerInv
<1> SUFFICES ASSUME Pace!Init PROVE PacerInv
  OBVIOUS
<1>1. probe \in Probes /\ probe.active = FALSE /\ nap \in [until : Int, woken : BOOLEAN]
  BY DEF Pace!Init, Pace!NoProbe, Probes, Pace!Awake
<1>2. PacerTypes
  BY <1>1, PacerParameters DEF Pace!Init, PacerTypes
<1>3. Pace!EarnedBy = 0
  <2>1. Pace!EarnedBy = 0 * rate
    BY <1>1 DEF Pace!Init, Pace!EarnedBy, Pace!PastDeadline
  <2> QED BY <1>2, <2>1 DEF PacerTypes
<1>4. CoveredInv
  BY <1>3, PacerParameters DEF Pace!Init, CoveredInv
<1> QED BY <1>2, <1>4, PacerParameters DEF Pace!Init, PaceHolderInv, NapInv, PacerInv

\* After a look at the clock nothing more is earned.
LEMMA NothingEarned ==
  ASSUME PacerTypes', refilled' = now', ~Pace!PastDeadline'
  PROVE  Pace!EarnedBy' = 0
<1>1. Pace!EarnedBy' = (now' - refilled') * (IF probe'.active THEN probe'.rate ELSE rate')
  BY DEF Pace!EarnedBy
<1>2. (IF probe'.active THEN probe'.rate ELSE rate') \in Int
  BY DEF PacerTypes, Probes
<1> QED BY <1>1, <1>2 DEF PacerTypes

\* The clock.
LEMMA TickKeeps ==
  ASSUME PacerInv, Pace!Tick
  PROVE  PacerInv'
<1>1. /\ now' = now + 1 /\ credit' = credit + Pace!RateDue
      /\ UNCHANGED <<turn, need, got, holder, nap, tokens, refilled, rate, probe>>
  BY DEF Pace!Tick
<1>2. /\ now \in Nat /\ refilled \in Nat /\ refilled <= now /\ rate \in Nat \ {0}
      /\ tokens \in Int
      /\ probe.active \in BOOLEAN /\ probe.rate \in Nat /\ probe.until \in Nat /\ credit \in Int
  BY DEF PacerInv, PacerTypes, Probes
<1>3. Pace!RateDue \in Nat
  BY <1>2 DEF Pace!RateDue
<1>4. Pace!EarnedBy' = Pace!EarnedBy + Pace!RateDue /\ Pace!EarnedBy \in Int
  <2>0. Pace!EarnedBy \in Int
    BY EarnedType DEF PacerInv
  <2>a. Pace!EarnedBy = IF Pace!PastDeadline
            THEN (IF probe.until > refilled THEN (probe.until - refilled) * probe.rate ELSE 0)
                 + (IF probe.until > refilled THEN now - probe.until ELSE now - refilled) * rate
            ELSE (now - refilled) * (IF probe.active THEN probe.rate ELSE rate)
    BY DEF Pace!EarnedBy
  <2>b. Pace!EarnedBy' = IF Pace!PastDeadline'
            THEN (IF probe.until > refilled THEN (probe.until - refilled) * probe.rate ELSE 0)
                 + (IF probe.until > refilled THEN now' - probe.until ELSE now' - refilled) * rate
            ELSE (now' - refilled) * (IF probe.active THEN probe.rate ELSE rate)
    <3>1. probe' = probe /\ rate' = rate /\ refilled' = refilled
      BY <1>1
    <3> QED BY <3>1 DEF Pace!EarnedBy
  <2>1. CASE ~probe.active
    <3>1. Pace!EarnedBy = (now - refilled) * rate /\ Pace!EarnedBy' = (now' - refilled) * rate
            /\ Pace!RateDue = rate
      BY <1>1, <2>1, <2>a, <2>b DEF Pace!PastDeadline, Pace!RateDue
    <3>2. (now' - refilled) * rate = ((now - refilled) + 1) * rate
      <4>1. now' - refilled = (now - refilled) + 1
        BY <1>1, <1>2
      <4> QED BY <4>1
    <3>3. ((now - refilled) + 1) * rate = (now - refilled) * rate + rate
      BY <1>2, OneMore
    <3> QED BY <2>0, <3>1, <3>2, <3>3
  <2>2. CASE probe.active /\ now < probe.until
    <3>1. Pace!EarnedBy = (now - refilled) * probe.rate /\ Pace!RateDue = probe.rate
      BY <1>2, <2>2, <2>a DEF Pace!PastDeadline, Pace!RateDue
    <3>2. Pace!EarnedBy' = (now' - refilled) * probe.rate
      <4>1. CASE now + 1 < probe.until
        BY <1>1, <1>2, <2>2, <2>b, <4>1 DEF Pace!PastDeadline
      <4>2. CASE now + 1 = probe.until
        <5>1. Pace!PastDeadline' /\ probe.until > refilled
          BY <1>1, <1>2, <2>2, <4>2 DEF Pace!PastDeadline
        <5>2. Pace!EarnedBy' = (probe.until - refilled) * probe.rate + (now' - probe.until) * rate
          BY <2>b, <5>1
        <5>3. (now' - probe.until) * rate = 0
          BY <1>1, <1>2, <4>2
        <5>4. (probe.until - refilled) * probe.rate \in Int
          BY <1>2
        <5>5. probe.until = now'
          BY <1>1, <4>2
        <5> QED BY <5>2, <5>3, <5>4, <5>5
      <4> QED BY <1>2, <2>2, <4>1, <4>2
    <3>3. (now' - refilled) * probe.rate = ((now - refilled) + 1) * probe.rate
      <4>1. now' - refilled = (now - refilled) + 1
        BY <1>1, <1>2
      <4> QED BY <4>1
    <3>4. ((now - refilled) + 1) * probe.rate = (now - refilled) * probe.rate + probe.rate
      BY <1>2, OneMore
    <3> QED BY <2>0, <3>1, <3>2, <3>3, <3>4
  <2>3. CASE probe.active /\ now >= probe.until
    <3>1. Pace!PastDeadline /\ Pace!PastDeadline' /\ Pace!RateDue = rate
      BY <1>1, <1>2, <2>3 DEF Pace!PastDeadline, Pace!RateDue
    <3>2. CASE probe.until > refilled
      <4>1. Pace!EarnedBy = (probe.until - refilled) * probe.rate + (now - probe.until) * rate
        BY <2>a, <3>1, <3>2
      <4>2. Pace!EarnedBy' = (probe.until - refilled) * probe.rate + (now' - probe.until) * rate
        BY <2>b, <3>1, <3>2
      <4>3. (now' - probe.until) * rate = ((now - probe.until) + 1) * rate
        <5>1. now' - probe.until = (now - probe.until) + 1
          BY <1>1, <1>2
        <5> QED BY <5>1
      <4>4. ((now - probe.until) + 1) * rate = (now - probe.until) * rate + rate
        BY <1>2, OneMore
      <4>5. (probe.until - refilled) * probe.rate \in Int /\ (now - probe.until) * rate \in Int
        BY <1>2
      <4> QED BY <1>2, <2>0, <3>1, <4>1, <4>2, <4>3, <4>4, <4>5
    <3>3. CASE ~(probe.until > refilled)
      <4>1. Pace!EarnedBy = 0 + (now - refilled) * rate
        BY <2>a, <3>1, <3>3
      <4>2. Pace!EarnedBy' = 0 + (now' - refilled) * rate
        BY <2>b, <3>1, <3>3
      <4>3. (now' - refilled) * rate = ((now - refilled) + 1) * rate
        <5>1. now' - refilled = (now - refilled) + 1
          BY <1>1, <1>2
        <5> QED BY <5>1
      <4>4. ((now - refilled) + 1) * rate = (now - refilled) * rate + rate
        BY <1>2, OneMore
      <4>5. (now - refilled) * rate \in Int
        BY <1>2
      <4> QED BY <1>2, <2>0, <3>1, <4>1, <4>2, <4>3, <4>4, <4>5
    <3> QED BY <3>2, <3>3
  <2> QED BY <1>2, <2>1, <2>2, <2>3
<1>5. PacerTypes'
  BY <1>1, <1>2, <1>3 DEF PacerInv, PacerTypes
<1>6. PaceHolderInv'
  BY <1>1 DEF PacerInv, PaceHolderInv
<1>7. CoveredInv'
  BY <1>1, <1>2, <1>3, <1>4, PacerParameters DEF PacerInv, CoveredInv
<1>8. NapInv'
  <2> SUFFICES ASSUME NEW w \in Writers, turn[w] = "sleep", ~nap.woken
               PROVE  /\ probe.active => nap.until <= probe.until
                      /\ \A t \in (now + 1)..(nap.until - 1) : Pace!Capacity(t)' < Pace!Chunk(w)'
    BY <1>1 DEF NapInv
  <2>1. /\ probe.active => nap.until <= probe.until
        /\ \A t \in now..(nap.until - 1) : Pace!Capacity(t) < Pace!Chunk(w)
    BY DEF PacerInv, NapInv
  <2>2. ASSUME NEW t \in (now + 1)..(nap.until - 1) PROVE Pace!Capacity(t)' < Pace!Chunk(w)'
    <3>1. nap.until \in Int /\ t \in Int /\ t \in now..(nap.until - 1)
      BY <1>2, <2>2 DEF PacerInv, PacerTypes
    <3>2. Pace!RateDue' = Pace!RateDue
      BY <1>1, <1>2, <2>1, <2>2, <3>1 DEF Pace!RateDue
    <3>3. Pace!Capacity(t) = Pace!Lower(Burst, tokens + Pace!EarnedBy) + (t - now) * Pace!RateDue
      BY DEF Pace!Capacity, Pace!Refilled
    <3>4. Pace!Capacity(t)' = Pace!Lower(Burst, tokens + Pace!EarnedBy + Pace!RateDue)
                                + (t - (now + 1)) * Pace!RateDue
      BY <1>1, <1>2, <1>3, <1>4, <3>2 DEF Pace!Capacity, Pace!Refilled
    <3>5. (t - now) * Pace!RateDue = ((t - (now + 1)) + 1) * Pace!RateDue
      BY <1>2, <1>3, <3>1
    <3>6. ((t - (now + 1)) + 1) * Pace!RateDue = (t - (now + 1)) * Pace!RateDue + Pace!RateDue
      BY <1>2, <1>3, <3>1, OneMore
    <3>7. (t - (now + 1)) * Pace!RateDue \in Int
      BY <1>2, <1>3, <3>1
    <3>8. Pace!Capacity(t)' <= Pace!Capacity(t)
      BY <1>2, <1>3, <1>4, <3>3, <3>4, <3>5, <3>6, <3>7, PacerParameters DEF Pace!Lower
    <3>9. Pace!Chunk(w)' = Pace!Chunk(w) /\ Pace!Chunk(w) \in Int /\ Pace!Capacity(t) \in Int
            /\ Pace!Capacity(t)' \in Int
      BY <1>1, <1>2, <1>3, <1>4, <3>3, <3>4, <3>5, <3>6, <3>7, PacerParameters DEF Pace!Chunk,
         Pace!Lower, PacerInv, PacerTypes
    <3> QED BY <2>1, <3>1, <3>8, <3>9
  <2> QED BY <2>1, <2>2
<1> QED BY <1>5, <1>6, <1>7, <1>8 DEF PacerInv

\* A step that looks at the clock and lets through no more than it says.
LEMMA LookKeeps ==
  ASSUME PacerInv, PacerTypes', now' = now, refilled' = now',
         ~Pace!PastDeadline', tokens' <= Burst,
         tokens' + credit <= Pace!Refilled.tokens + credit'
  PROVE  CoveredInv'
<1>1. Pace!EarnedBy' = 0
  BY NothingEarned
<1>2. Pace!Refilled.tokens \in Int /\ Pace!EarnedBy \in Int
        /\ Pace!Refilled.tokens <= tokens + Pace!EarnedBy
  BY EarnedType DEF PacerInv
<1>3. tokens \in Int /\ tokens' \in Int /\ credit \in Int /\ credit' \in Int
  BY DEF PacerInv, PacerTypes
<1>4. tokens + Pace!EarnedBy <= Burst + credit
  BY DEF PacerInv, CoveredInv
<1>5. tokens' + credit <= Pace!Refilled.tokens + credit'
  OBVIOUS
<1>6. tokens' + 0 <= Burst + credit'
  <2>1. ASSUME NEW a \in Int, NEW b \in Int, NEW x \in Int, NEW y \in Int, NEW t \in Int,
               NEW d \in Int, NEW m \in Int,
               x <= t + y, t + y <= m + d, a + d <= x + b
        PROVE  a + 0 <= m + b
    BY <2>1
  <2>2. Burst \in Int
    BY PacerParameters
  <2> DEFINE x == Pace!Refilled.tokens
             y == Pace!EarnedBy
  <2>3. x \in Int /\ y \in Int /\ x <= tokens + y /\ tokens + y <= Burst + credit
          /\ tokens' + credit <= x + credit'
    BY <1>2, <1>4, <1>5
  <2> HIDE DEF x, y
  <2> QED BY <1>3, <2>1, <2>2, <2>3
<1>7. tokens' + Pace!EarnedBy' <= Burst + credit'
  <2> QED BY <1>1, <1>6
<1>8. tokens' <= Burst
  OBVIOUS
<1> QED BY <1>7, <1>8 DEF CoveredInv

\* A step that leaves the bucket, the clock and the rates alone.
LEMMA BucketKept ==
  ASSUME PacerInv, UNCHANGED <<tokens, refilled, probe, rate, now, credit>>
  PROVE  CoveredInv' /\ Pace!Refilled' = Pace!Refilled /\ Pace!RateDue' = Pace!RateDue
<1>1. Pace!PastDeadline' = Pace!PastDeadline
  BY DEF Pace!PastDeadline
<1>2. Pace!EarnedBy' = Pace!EarnedBy
  BY <1>1 DEF Pace!EarnedBy
<1>3. Pace!Refilled' = Pace!Refilled
  BY <1>1, <1>2 DEF Pace!Refilled, Pace!Finished
<1> QED BY <1>2, <1>3 DEF Pace!RateDue, PacerInv, CoveredInv

\* The sleeper is not disturbed by what leaves it and the bucket alone.
LEMMA NapKept ==
  ASSUME PacerInv, UNCHANGED <<tokens, refilled, probe, rate, now, credit, nap>>,
         \A w \in Writers : turn'[w] = "sleep" => turn[w] = "sleep" /\ need'[w] = need[w]
  PROVE  NapInv'
<1> SUFFICES ASSUME NEW w \in Writers, turn'[w] = "sleep", ~nap.woken
             PROVE  /\ probe.active => nap.until <= probe.until
                    /\ \A t \in now..(nap.until - 1) : Pace!Capacity(t)' < Pace!Chunk(w)'
  BY DEF NapInv
<1>1. turn[w] = "sleep" /\ Pace!Chunk(w)' = Pace!Chunk(w)
  BY DEF Pace!Chunk
<1>2. ASSUME NEW t PROVE Pace!Capacity(t)' = Pace!Capacity(t)
  BY BucketKept DEF Pace!Capacity
<1> QED BY <1>1, <1>2 DEF PacerInv, NapInv

\* Only the holder sleeps.
LEMMA NobodySleeps ==
  ASSUME PacerTypes', PaceHolderInv', holder' = Pace!Nobody
  PROVE  NapInv'
BY PacerParameters DEF PaceHolderInv, NapInv

\* Asking, canceling, taking the token and waking do not touch the bucket.
LEMMA QueueKeeps ==
  ASSUME PacerInv, NEW w \in Writers,
         Pace!Wait(w) \/ Pace!Cancel(w) \/ Pace!Admission(w) \/ Pace!Slept(w)
  PROVE  PacerInv'
<1>1. UNCHANGED <<tokens, refilled, probe, rate, now, credit, nap>>
  BY DEF Pace!Wait, Pace!Cancel, Pace!Admission, Pace!Slept, Pace!bucket
<1>2. PacerTypes'
  <2>1. CASE Pace!Wait(w)
    <3>1. PICK n \in {1, MaxWait} : need' = [need EXCEPT ![w] = n]
      BY <2>1 DEF Pace!Wait
    <3>2. n \in Nat
      BY PacerParameters
    <3> QED BY <1>1, <2>1, <3>1, <3>2 DEF Pace!Wait, PacerInv, PacerTypes
  <2>2. CASE Pace!Cancel(w) \/ Pace!Admission(w) \/ Pace!Slept(w)
    BY <1>1, <2>2 DEF Pace!Cancel, Pace!Admission, Pace!Slept, PacerInv, PacerTypes
  <2> QED BY <2>1, <2>2
<1>3. /\ PaceHolderInv'
      /\ \A v \in Writers : turn'[v] = "sleep" => turn[v] = "sleep" /\ need'[v] = need[v]
  BY PacerParameters DEF Pace!Wait, Pace!Cancel, Pace!Admission, Pace!Slept, PacerInv,
     PacerTypes, PaceHolderInv
<1>4. NapInv'
  BY <1>1, <1>3, NapKept
<1> QED BY <1>1, <1>2, <1>3, <1>4, BucketKept DEF PacerInv

\* One look at the bucket.
LEMMA AdmitKeeps ==
  ASSUME PacerInv, NEW w \in Writers, Pace!Admit(w)
  PROVE  PacerInv'
<1> DEFINE r == Pace!Refilled
           p == IF r.probe.active /\ Pace!Chunk(w) > r.probe.left
                THEN Pace!Finished(r.probe) ELSE r.probe
           target == IF p.active THEN p.rate ELSE rate
           missing == Pace!Chunk(w) - r.tokens
           sleep == (missing + target - 1) \div target
<1>1. /\ turn[w] = "admit" /\ holder = w /\ refilled' = now
      /\ UNCHANGED <<rate, now>>
  BY DEF Pace!Admit
<1>2. /\ r.tokens \in Int /\ r.tokens <= Burst /\ r.probe \in Probes
      /\ r.probe.active => ~Pace!PastDeadline /\ r.probe = probe /\ r.probe.rate # 0
  BY EarnedType DEF PacerInv
<1>3. p \in Probes /\ (p.active => p = r.probe)
  BY <1>2 DEF Pace!Finished, Probes
<1>4. target \in Nat \ {0}
  BY <1>2, <1>3 DEF Probes, PacerInv, PacerTypes
<1>5. Pace!Chunk(w) \in Nat /\ Pace!Chunk(w) <= Burst /\ Pace!Chunk(w) <= need[w]
  BY PacerParameters DEF Pace!Chunk, Pace!Lower, PacerInv, PacerTypes
<1>6. now \in Nat /\ p.until \in Nat /\ p.left \in Nat /\ (p.active => now < p.until)
  BY <1>2, <1>3 DEF Pace!PastDeadline, Probes, PacerInv, PacerTypes
<1>a. CASE missing <= 0
  <2>1. /\ tokens' = r.tokens - Pace!Chunk(w) /\ credit' = credit - Pace!Chunk(w)
        /\ probe' = IF p.active
                    THEN IF p.left = Pace!Chunk(w) THEN Pace!Finished(p)
                         ELSE [p EXCEPT !.left = @ - Pace!Chunk(w)]
                    ELSE p
        /\ got' = [got EXCEPT ![w] = IF need[w] = Pace!Chunk(w) THEN 0 ELSE @ + Pace!Chunk(w)]
        /\ need' = [need EXCEPT ![w] = @ - Pace!Chunk(w)]
        /\ turn' = [turn EXCEPT ![w] = IF need[w] = Pace!Chunk(w) THEN "idle" ELSE "queue"]
        /\ holder' = Pace!Nobody /\ nap' = Pace!Awake
    BY <1>a DEF Pace!Admit
  <2> HIDE DEF r, p, target, missing, sleep
  <2>2. probe' \in Probes
          /\ (probe'.active => p.active /\ probe'.until = p.until /\ probe'.rate = p.rate)
    <3>1. CASE p.active /\ p.left # Pace!Chunk(w)
      <4>1. p.left - Pace!Chunk(w) \in Nat
        <5>1. r.probe.active /\ ~(Pace!Chunk(w) > r.probe.left) /\ p.left = r.probe.left
          BY <1>3, <3>1 DEF p, Pace!Finished, Probes
        <5> QED BY <1>5, <1>6, <5>1
      <4> QED BY <1>3, <2>1, <3>1, <4>1 DEF Probes
    <3>2. CASE p.active /\ p.left = Pace!Chunk(w)
      BY <1>3, <2>1, <3>2 DEF Pace!Finished, Probes
    <3>3. CASE ~p.active
      BY <1>3, <2>1, <3>3
    <3> QED BY <3>1, <3>2, <3>3
  <2>3. ~Pace!PastDeadline'
    BY <1>1, <1>6, <2>2 DEF Pace!PastDeadline
  <2>4. PacerTypes'
    <3>1. need[w] - Pace!Chunk(w) \in Nat /\ got[w] + Pace!Chunk(w) \in Nat
            /\ credit - Pace!Chunk(w) \in Int /\ r.tokens - Pace!Chunk(w) \in Int
      BY <1>2, <1>5 DEF PacerInv, PacerTypes, r
    <3>2. nap' \in [until : Int, woken : BOOLEAN]
      BY <2>1 DEF Pace!Awake
    <3>3. probe'.active => probe'.rate # 0
      BY <1>2, <1>3, <2>2
    <3> QED BY <1>1, <2>1, <2>2, <3>1, <3>2, <3>3 DEF PacerInv, PacerTypes
  <2>5. CoveredInv'
    <3>1. tokens' <= Burst /\ tokens' + credit <= r.tokens + credit'
      BY <1>2, <1>5, <2>1, PacerParameters DEF PacerInv, PacerTypes, r
    <3> QED BY <1>1, <2>3, <2>4, <3>1, LookKeeps DEF r
  <2>6. PaceHolderInv'
    BY <1>1, <2>1, PacerParameters DEF PacerInv, PacerTypes, PaceHolderInv
  <2> QED BY <2>1, <2>4, <2>5, <2>6, NobodySleeps DEF PacerInv
<1>b. CASE ~(missing <= 0)
  <2>1. /\ tokens' = r.tokens /\ probe' = p
        /\ nap' = [until |-> now + (IF p.active THEN Pace!Lower(sleep, p.until - now)
                                                ELSE sleep),
                    woken |-> FALSE]
        /\ turn' = [turn EXCEPT ![w] = "sleep"]
        /\ UNCHANGED <<need, got, holder, credit>>
    BY <1>b DEF Pace!Admit
  <2>2. missing \in Nat \ {0}
    BY <1>2, <1>5, <1>b
  <2>3. missing + target - 1 \in Nat
    BY <1>4, <2>2
  <2>4. sleep \in Nat
    <3> HIDE DEF missing, target
    <3> QED BY <1>4, <2>3, DivBound
  <2>5. /\ nap'.until \in Int /\ nap'.until <= now + sleep
        /\ nap' \in [until : Int, woken : BOOLEAN]
        /\ p.active => nap'.until <= p.until
    <3> HIDE DEF sleep, p, r
    <3> QED BY <1>6, <2>1, <2>4 DEF Pace!Lower
  <2> HIDE DEF sleep
  <2>6. ~Pace!PastDeadline'
    BY <1>1, <1>6, <2>1 DEF Pace!PastDeadline
  <2> HIDE DEF r, p, target
  <2>7. PacerTypes'
    <3>1. p.active => p.rate # 0
      BY <1>2, <1>3
    <3> QED BY <1>1, <1>2, <1>3, <2>1, <2>5, <3>1 DEF PacerInv, PacerTypes
  <2>8. CoveredInv'
    <3>1. tokens' <= Burst /\ tokens' + credit <= r.tokens + credit'
      BY <1>2, <2>1 DEF PacerInv, PacerTypes
    <3> QED BY <1>1, <2>6, <2>7, <3>1, LookKeeps DEF r
  <2>9. PaceHolderInv'
    BY <1>1, <2>1 DEF PacerInv, PacerTypes, PaceHolderInv
  <2>10. NapInv'
    <3> SUFFICES ASSUME NEW v \in Writers, turn'[v] = "sleep"
                 PROVE  /\ probe'.active => nap'.until <= probe'.until
                        /\ \A t \in now'..(nap'.until - 1) : Pace!Capacity(t)' < Pace!Chunk(v)'
      BY DEF NapInv
    <3>1. v = w
      BY <1>1, <2>1, <2>9 DEF PaceHolderInv
    <3>2. Pace!RateDue' = target
      BY <1>1, <1>6, <2>1 DEF Pace!RateDue, target
    <3>3. Pace!Refilled'.tokens = r.tokens
      <4>1. Pace!EarnedBy' = 0
        BY <1>1, <2>6, <2>7, NothingEarned
      <4>2. Pace!Refilled'.tokens = Pace!Lower(Burst, tokens' + Pace!EarnedBy')
        BY DEF Pace!Refilled
      <4> QED BY <1>2, <2>1, <4>1, <4>2, PacerParameters DEF Pace!Lower
    <3>4. ASSUME NEW t \in now'..(nap'.until - 1) PROVE Pace!Capacity(t)' < Pace!Chunk(w)'
      <4>1. t - now \in Nat /\ t - now < sleep
        BY <1>1, <1>6, <2>4, <2>5
      <4>2. (t - now) * target < missing
        <5> HIDE DEF missing
        <5> QED BY <1>4, <2>2, <4>1, Sleeps DEF sleep
      <4>3. Pace!Capacity(t)' = r.tokens + (t - now) * target
        BY <1>1, <3>2, <3>3 DEF Pace!Capacity
      <4>4. Pace!Chunk(w)' = Pace!Chunk(w)
        BY <2>1 DEF Pace!Chunk
      <4>5. (t - now) * target \in Int
        BY <1>4, <4>1
      <4> QED BY <1>2, <1>5, <4>2, <4>3, <4>4, <4>5
    <3> QED BY <2>1, <2>5, <3>1, <3>4
  <2> QED BY <2>7, <2>8, <2>9, <2>10 DEF PacerInv
<1> QED BY <1>a, <1>b

\* Wait gives up, and gives back.
LEMMA InterruptedKeeps ==
  ASSUME PacerInv, NEW w \in Writers, Pace!Interrupted(w)
  PROVE  PacerInv'
<1>1. /\ turn[w] \in {"queue", "admit", "sleep"} /\ turn' = [turn EXCEPT ![w] = "idle"]
      /\ holder' = IF holder = w THEN Pace!Nobody ELSE holder
      /\ got' = [got EXCEPT ![w] = 0] /\ need' = [need EXCEPT ![w] = 0]
      /\ UNCHANGED <<rate, now>>
  BY DEF Pace!Interrupted
<1>2. PaceHolderInv'
  BY <1>1, PacerParameters DEF PacerInv, PacerTypes, PaceHolderInv
<1>3. CASE got[w] = 0
  <2>1. UNCHANGED <<tokens, refilled, probe, credit>>
          /\ nap' = IF holder = w THEN Pace!Awake ELSE nap
    BY <1>3 DEF Pace!Interrupted, Pace!bucket
  <2>2. nap' \in [until : Int, woken : BOOLEAN]
    BY <2>1 DEF Pace!Awake, PacerInv, PacerTypes
  <2>3. PacerTypes'
    BY <1>1, <2>1, <2>2 DEF PacerInv, PacerTypes
  <2>4. NapInv'
    <3>1. CASE holder = w
      BY <1>1, <1>2, <2>3, <3>1, NobodySleeps
    <3>2. CASE holder # w
      <4>1. nap' = nap
        BY <2>1, <3>2
      <4>2. \A v \in Writers : turn'[v] = "sleep" => turn[v] = "sleep" /\ need'[v] = need[v]
        BY <1>1 DEF PacerInv, PacerTypes
      <4> QED BY <1>1, <2>1, <4>1, <4>2, NapKept
    <3> QED BY <3>1, <3>2
  <2> QED BY <1>1, <1>2, <2>1, <2>3, <2>4, BucketKept DEF PacerInv
<1>4. CASE got[w] # 0
  <2>1. /\ tokens' = Pace!Lower(Burst, Pace!Refilled.tokens + got[w]) /\ refilled' = now
        /\ probe' = Pace!Refilled.probe /\ credit' = credit + got[w]
        /\ IF holder = w THEN nap' = Pace!Awake ELSE Pace!Wake(TRUE)
    BY <1>4 DEF Pace!Interrupted, Pace!Refunded
  <2>2. Pace!Refilled.tokens \in Int /\ got[w] \in Nat /\ credit \in Int
    BY EarnedType DEF PacerInv, PacerTypes
  <2>3. tokens' \in Int /\ tokens' <= Burst /\ tokens' + credit <= Pace!Refilled.tokens + credit'
    BY <2>1, <2>2, PacerParameters DEF Pace!Lower
  <2>4. nap' \in [until : Int, woken : BOOLEAN] /\ (holder \notin {w, Pace!Nobody} => nap'.woken)
    <3>1. CASE holder = w
      <4>1. nap' = [until |-> 0, woken |-> FALSE]
        BY <2>1, <3>1 DEF Pace!Awake
      <4> QED BY <3>1, <4>1
    <3>2. CASE holder # w
      <4>1. nap' = [nap EXCEPT !.woken = @ \/ (TRUE /\ holder # Pace!Nobody)]
        BY <2>1, <3>2 DEF Pace!Wake
      <4>2. nap \in [until : Int, woken : BOOLEAN]
        BY DEF PacerInv, PacerTypes
      <4>3. nap' \in [until : Int, woken : BOOLEAN]
              /\ nap'.woken = (nap.woken \/ holder # Pace!Nobody)
        BY <4>1, <4>2
      <4> QED BY <4>3
    <3> QED BY <3>1, <3>2
  <2>5. PacerTypes'
    BY <1>1, <2>1, <2>2, <2>3, <2>4, EarnedType DEF PacerInv, PacerTypes
  <2>6. ~Pace!PastDeadline'
    <3>1. Pace!Refilled.probe.active => ~Pace!PastDeadline /\ Pace!Refilled.probe = probe
      BY EarnedType DEF PacerInv
    <3> QED BY <1>1, <2>1, <3>1 DEF Pace!PastDeadline
  <2>7. CoveredInv'
    BY <1>1, <2>1, <2>3, <2>5, <2>6, LookKeeps
  <2>8. NapInv'
    <3>1. CASE holder' = Pace!Nobody
      BY <1>2, <2>5, <3>1, NobodySleeps
    <3>2. CASE holder' # Pace!Nobody
      BY <1>1, <2>4, <3>2 DEF NapInv
    <3> QED BY <3>1, <3>2
  <2> QED BY <1>2, <2>5, <2>7, <2>8 DEF PacerInv
<1> QED BY <1>3, <1>4

\* The target moves.
LEMMA ChangesKeep ==
  ASSUME PacerInv, Pace!Changing, rate' \in Nat \ {0}, probe' \in Probes,
         probe'.active => probe'.rate # 0, ~Pace!PastDeadline',
         NEW signal \in BOOLEAN, Pace!Wake(signal),
         ~signal => /\ rate' = rate /\ ~Pace!PastDeadline
                    /\ probe' = probe \/ (~probe.active /\ ~probe'.active)
  PROVE  PacerInv'
<1>1. /\ refilled' = now /\ tokens' = Pace!Refilled.tokens
      /\ UNCHANGED <<turn, need, got, holder, now, credit>>
      /\ nap' = [nap EXCEPT !.woken = @ \/ (signal /\ holder # Pace!Nobody)]
  BY DEF Pace!Changing, Pace!Wake
<1>2. Pace!Refilled.tokens \in Int /\ Pace!Refilled.tokens <= Burst
  BY EarnedType DEF PacerInv
<1>3. /\ nap' \in [until : Int, woken : BOOLEAN] /\ nap'.until = nap.until
      /\ nap'.woken <=> nap.woken \/ (signal /\ holder # Pace!Nobody)
  BY <1>1 DEF PacerInv, PacerTypes
<1>4. PacerTypes'
  BY <1>1, <1>2, <1>3 DEF PacerInv, PacerTypes
<1>5. CoveredInv'
  <2>1. tokens' + credit <= Pace!Refilled.tokens + credit'
    BY <1>1, <1>2 DEF PacerInv, PacerTypes
  <2> QED BY <1>1, <1>2, <1>4, <2>1, LookKeeps
<1>6. PaceHolderInv'
  BY <1>1 DEF PacerInv, PaceHolderInv
<1>7. NapInv'
  <2> SUFFICES ASSUME NEW w \in Writers, turn[w] = "sleep", ~nap'.woken
               PROVE  /\ probe'.active => nap.until <= probe'.until
                      /\ \A t \in now..(nap.until - 1) : Pace!Capacity(t)' < Pace!Chunk(w)'
    BY <1>1, <1>3 DEF NapInv
  <2>1. ~signal /\ ~nap.woken
    BY <1>3, PacerParameters DEF PacerInv, PaceHolderInv
  <2>2. /\ probe.active => nap.until <= probe.until
        /\ \A t \in now..(nap.until - 1) : Pace!Capacity(t) < Pace!Chunk(w)
    BY <2>1 DEF PacerInv, NapInv
  <2>3. Pace!RateDue' = Pace!RateDue
    BY <1>1, <2>1 DEF Pace!RateDue
  <2>4. Pace!Refilled'.tokens = Pace!Refilled.tokens
    <3>1. Pace!EarnedBy' = 0
      BY <1>1, <1>4, NothingEarned
    <3>2. Pace!Refilled'.tokens = Pace!Lower(Burst, tokens' + Pace!EarnedBy')
      BY DEF Pace!Refilled
    <3> QED BY <1>1, <1>2, <3>1, <3>2, PacerParameters DEF Pace!Lower
  <2>5. ASSUME NEW t PROVE Pace!Capacity(t)' = Pace!Capacity(t)
    BY <1>1, <2>3, <2>4 DEF Pace!Capacity
  <2>6. Pace!Chunk(w)' = Pace!Chunk(w)
    BY <1>1 DEF Pace!Chunk
  <2> QED BY <2>1, <2>2, <2>5, <2>6
<1> QED BY <1>4, <1>5, <1>6, <1>7 DEF PacerInv

\* A new target, and the end of a probe.
LEMMA SetRateKeeps ==
  ASSUME PacerInv, NEW r \in Rates, NEW aborts \in BOOLEAN, Pace!SetRate(r, aborts)
  PROVE  PacerInv'
<1> DEFINE signal == r # rate \/ Pace!PastDeadline \/ (aborts /\ probe.active)
<1>1. /\ Pace!Changing /\ rate' = r
      /\ probe' = (IF aborts THEN Pace!NoProbe ELSE Pace!Refilled.probe)
      /\ Pace!Wake(signal) /\ now' = now
  BY DEF Pace!SetRate, Pace!Changing
<1>2. Pace!NoProbe \in Probes /\ Pace!NoProbe.active = FALSE
  BY DEF Pace!NoProbe, Probes
<1>3. /\ Pace!Refilled.probe \in Probes
      /\ Pace!Refilled.probe.active => Pace!Refilled.probe.rate # 0
      /\ Pace!Refilled.probe.active => ~Pace!PastDeadline /\ Pace!Refilled.probe = probe
      /\ ~Pace!PastDeadline => Pace!Refilled.probe = probe
  BY EarnedType DEF PacerInv
<1>4. ~Pace!PastDeadline'
  BY <1>1, <1>2, <1>3 DEF Pace!PastDeadline
<1>5. signal \in BOOLEAN /\ r \in Nat \ {0}
  BY PacerParameters DEF Pace!PastDeadline, PacerInv, PacerTypes, Probes
<1>6. ~signal => rate' = rate /\ ~Pace!PastDeadline
        /\ (probe' = probe \/ (~probe.active /\ ~probe'.active))
  BY <1>1, <1>2, <1>3
<1> HIDE DEF signal
<1>7. probe' \in Probes /\ (probe'.active => probe'.rate # 0)
  BY <1>1, <1>2, <1>3
<1> QED BY <1>1, <1>4, <1>5, <1>6, <1>7, ChangesKeep

\* A probe begins.
LEMMA BeginProbeKeeps ==
  ASSUME PacerInv, NEW r \in Rates, Pace!BeginProbe(r)
  PROVE  PacerInv'
<1>1. /\ Pace!Changing /\ rate' = rate /\ Pace!Wake(TRUE) /\ now' = now
      /\ probe' = [active |-> TRUE, pending |-> FALSE, left |-> Allowance,
                   until |-> now + 1, rate |-> r]
  BY DEF Pace!BeginProbe, Pace!Changing
<1>2. r \in Nat \ {0} /\ now \in Nat /\ rate \in Nat \ {0}
  BY PacerParameters DEF PacerInv, PacerTypes
<1>3. probe' \in Probes /\ probe'.rate # 0 /\ probe'.until = now + 1
  BY <1>1, <1>2, PacerParameters DEF Probes
<1>4. ~Pace!PastDeadline'
  BY <1>1, <1>2, <1>3 DEF Pace!PastDeadline
<1> QED BY <1>1, <1>2, <1>3, <1>4, ChangesKeep

\* Time, writers and the estimator keep the invariant.
LEMMA PacerStep ==
  ASSUME PacerInv, [Pace!Next]_Pace!vars
  PROVE  PacerInv'
<1>1. CASE UNCHANGED Pace!vars
  <2>1. /\ UNCHANGED <<tokens, refilled, probe, rate, now, credit, nap>>
        /\ UNCHANGED <<turn, need, got, holder>>
    BY <1>1 DEF Pace!vars
  <2>2. PacerTypes' /\ PaceHolderInv'
    BY <2>1 DEF PacerInv, PacerTypes, PaceHolderInv
  <2> QED BY <2>1, <2>2, BucketKept, NapKept DEF PacerInv
<1> QED
  BY <1>1, TickKeeps, QueueKeeps, AdmitKeeps, InterruptedKeeps, SetRateKeeps, BeginProbeKeeps
     DEF Pace!Next, Pace!Runs

\* A behaviour of the composition is one of its pacer.
LEMMA PaceBehaves == Safety => Pace!Init /\ [][Pace!Next]_Pace!vars
<1>1. Init => Pace!Init
  BY DEF Init
<1>2. [Next]_vars => [Pace!Next]_Pace!vars
  BY DEF Next, ButProxy, ButTunnel, ButWriter, ButEvents, ButMain, ButTimers, ButPacer, ButDatagrams, vars,
         pacerVars, Pace!vars
<1> QED BY <1>1, <1>2, PTL DEF Safety

\* The bucket's books and the sleeper's alarm are right in every state.
LEMMA PacerInvariance == Safety => []PacerInv
BY PacerInitially, PacerStep, PaceBehaves, PTL

\* Time earns, it never costs.
LEMMA EarnedNat ==
  ASSUME PacerTypes
  PROVE  0 <= Pace!EarnedBy
<1>1. \A a \in Nat, b \in Nat : a * b \in Nat
  OBVIOUS
<1>2. /\ probe.rate \in Nat /\ probe.until \in Nat /\ now \in Nat /\ rate \in Nat
      /\ refilled \in Nat /\ refilled <= now /\ probe.active \in BOOLEAN
  BY DEF PacerTypes, Probes
<1>3. CASE ~Pace!PastDeadline
  <2>1. now - refilled \in Nat
    BY <1>2
  <2> QED BY <1>1, <1>2, <1>3, <2>1 DEF Pace!EarnedBy
<1>4. CASE Pace!PastDeadline /\ probe.until > refilled
  <2>1. probe.until - refilled \in Nat /\ now - probe.until \in Nat
    BY <1>2, <1>4 DEF Pace!PastDeadline
  <2>2. (probe.until - refilled) * probe.rate \in Nat /\ (now - probe.until) * rate \in Nat
    BY <1>1, <1>2, <2>1
  <2>3. Pace!EarnedBy = (probe.until - refilled) * probe.rate + (now - probe.until) * rate
    BY <1>4 DEF Pace!EarnedBy
  <2> QED BY <2>2, <2>3
<1>5. CASE Pace!PastDeadline /\ ~(probe.until > refilled)
  <2>1. (now - refilled) * rate \in Nat
    <3>1. now - refilled \in Nat
      BY <1>2
    <3> QED BY <1>1, <1>2, <3>1
  <2>2. Pace!EarnedBy = 0 + (now - refilled) * rate
    BY <1>5 DEF Pace!EarnedBy
  <2> QED BY <2>1, <2>2
<1> QED BY <1>3, <1>4, <1>5

\* What the bucket holds and who sleeps on it, from the invariant.
LEMMA PacedByInvariant == PacerInv => Pace!Paced /\ Pace!NoStaleSleep
<1> SUFFICES ASSUME PacerInv PROVE Pace!Paced /\ Pace!NoStaleSleep
  OBVIOUS
<1>1. Pace!NoStaleSleep
  BY DEF PacerInv, NapInv, Pace!NoStaleSleep
<1>2. 0 <= Pace!EarnedBy /\ Pace!EarnedBy \in Int
  BY EarnedType, EarnedNat DEF PacerInv
<1>3. tokens <= Burst /\ tokens + Pace!EarnedBy <= Burst + credit
  BY DEF PacerInv, CoveredInv
<1>4. tokens \in Int /\ Burst + credit \in Int
  BY PacerParameters DEF PacerInv, PacerTypes
<1> QED BY <1>1, <1>2, <1>3, <1>4 DEF Pace!Paced

\* The pacer lets through a burst and what its rates granted, whatever rates and
\* probes begin and end and whoever is refunded (refillLocked, refund, admit),
\* and no writer sleeps past the time at which what it waits for is there
\* (sleepUntilStateChange, signalStateChangeLocked).
THEOREM PacesRight == Safety => []Paced
<1>1. PacerInv => Pace!Paced /\ Pace!NoStaleSleep
  BY PacedByInvariant
<1> QED BY <1>1, PacerInvariance, PTL DEF Paced
================================================================================
