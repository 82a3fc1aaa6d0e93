------------------------ MODULE PacketSendQueueProofs ------------------------
(***************************************************************************)
(* Proofs about PacketSendQueue, for every set of targets and every limit. *)
(*                                                                         *)
(* The argument: while the queue is live every open lane is in one place   *)
(* (once in the ready channel, or in the hands of one worker), the lanes   *)
(* in the channel are distinct members of the map, and the ids in a lane   *)
(* grow; after cancellation no packet is taken or queued any more, so the  *)
(* parts that no longer hold are no longer needed.                         *)
(*                                                                         *)
(* The books: sums over targets and over the packets of a lane are sums    *)
(* over finite sets, so first comes what such a sum is (Total), by least   *)
(* counterexample; then a step changes the work of one target, or takes    *)
(* from every target what waits in its lane, and the counters move by the  *)
(* same amount.                                                            *)
(***************************************************************************)
EXTENDS PacketSendQueue, TLAPS, FiniteSetTheorems, WellFoundedInduction

\* The stop flags, the error buffer and the owner.
ShutdownInv ==
  /\ stopped => canceled
  /\ owner # "run" => stopped
  /\ NoWorkAfterWait
  /\ ~fatalDone => errors = <<>>
  /\ OneFatalError

\* The map never holds more lanes than the ready channel has places.
MapInv == IsFiniteSet(keys) /\ Cardinality(keys) <= maxTargets

\* Where the lanes of a live queue are.
PlaceInv ==
  ~canceled =>
    /\ \A i, j \in DOMAIN ready : ready[i] = ready[j] => i = j
    /\ \A i \in DOMAIN ready : ready[i] \in keys /\ queue[ready[i]] # <<>>
    /\ \A i \in DOMAIN ready, w \in Pool :
         pc[w] \in Holding => hand[w] # ready[i]
    /\ \A w \in Pool : pc[w] \in Holding => hand[w] \in keys

\* The ids waiting in a lane grow and are newer than the last one started.
InOrder(q, last, newest) ==
  /\ last \in Nat /\ newest \in Nat /\ last <= newest
  /\ \A i \in 1..Len(q) : last < q[i].id /\ q[i].id <= newest
  /\ \A i, j \in 1..Len(q) : i < j => q[i].id < q[j].id

OrderInv == \A a \in Targets : InOrder(queue[a], lastStarted[a], accepted)

\* The unstarted workers are the last ones of the pool; a callback runs for a
\* lane that is open and marked active.
StartedInv == \A w \in Pool : w > workers => pc[w] = "none"
ActiveInv ==
  \A w \in Pool : pc[w] \in InCallback => hand[w] \in keys /\ active[hand[w]]

\* The books balance.
BudgetInv ==
  /\ used \in [Targets -> [packets : Int, bytes : Int]]
  /\ Budget

IInv == /\ TypeOK /\ ShutdownInv /\ MapInv /\ PlaceInv
        /\ LaneExclusive /\ ReadyNeverBlocks /\ OrderInv
        /\ StartedInv /\ ActiveInv /\ BudgetInv
-----------------------------------------------------------------------------
\* The limits NewPacketSendQueue computes are positive.
LEMMA LimitsNat ==
  /\ maxTargets \in Nat \ {0}
  /\ maxPackets \in Nat \ {0}
BY QueueAssumption DEF maxTargets, maxPackets, Smaller

\* A sequence without repetitions is no longer than the set it is taken from.
LEMMA DistinctLen ==
  ASSUME NEW S, IsFiniteSet(S), NEW s \in Seq(S),
         \A i, j \in DOMAIN s : s[i] = s[j] => i = j
  PROVE  Len(s) <= Cardinality(S)
<1>1. s \in Injection(1..Len(s), S)
  BY DEF Injection, IsInjective
<1>2. Len(s) \in Nat
  OBVIOUS
<1>3. Cardinality(1..Len(s)) = IF 1 > Len(s) THEN 0 ELSE Len(s) - 1 + 1
  BY <1>2, FS_Interval
<1> QED
  BY <1>1, <1>2, <1>3, FS_Injection

\* What is left of a sequence once its first element has been taken.
LEMMA TailFacts ==
  ASSUME NEW S, NEW s \in Seq(S), s # <<>>
  PROVE  /\ Tail(s) \in Seq(S) /\ Len(Tail(s)) = Len(s) - 1 /\ Len(s) \in Nat
         /\ 1 \in DOMAIN s /\ Head(s) = s[1] /\ s[1] \in S
         /\ \A i \in DOMAIN Tail(s) : /\ i \in Nat \ {0}
                                      /\ i + 1 \in DOMAIN s
                                      /\ Tail(s)[i] = s[i + 1]
OBVIOUS

\* How the size of the map changes when one address comes or goes.
LEMMA CardinalityChange ==
  ASSUME NEW S, NEW x, IsFiniteSet(S)
  PROVE  /\ Cardinality(S) \in Nat
         /\ IsFiniteSet(S \cup {x}) /\ IsFiniteSet(S \ {x})
         /\ x \in S => Cardinality(S \cup {x}) = Cardinality(S)
         /\ x \notin S => Cardinality(S \cup {x}) = Cardinality(S) + 1
         /\ Cardinality(S \ {x}) <= Cardinality(S)
<1>1. Cardinality(S) \in Nat
  BY FS_CardinalityType
<1>2. IsFiniteSet(S \cup {x}) /\ IsFiniteSet(S \ {x})
  BY FS_AddElement, FS_RemoveElement
<1>3. Cardinality(S \cup {x}) =
        IF x \in S THEN Cardinality(S) ELSE Cardinality(S) + 1
  BY FS_AddElement
<1>4. Cardinality(S \ {x}) =
        IF x \in S THEN Cardinality(S) - 1 ELSE Cardinality(S)
  BY FS_RemoveElement
<1> QED
  BY <1>1, <1>2, <1>3, <1>4

\* Stop leaves typed variables typed and empties the map but for active lanes.
LEMMA StopTypes ==
  ASSUME TypeOK, MapInv, Stop
  PROVE  /\ stopped' = TRUE /\ canceled' = TRUE
         /\ keys' \in SUBSET keys
         /\ queue' \in [Targets -> Seq(Item)] /\ active' \in [Targets -> BOOLEAN]
         /\ IsFiniteSet(keys') /\ Cardinality(keys') <= maxTargets
<1>1. keys' \in SUBSET keys
  BY DEF Stop
<1>2. IsFiniteSet(keys') /\ Cardinality(keys') <= Cardinality(keys)
  BY <1>1, FS_Subset DEF MapInv
<1>3. Cardinality(keys) \in Nat /\ Cardinality(keys') \in Nat
  BY <1>2, FS_CardinalityType DEF MapInv
<1> QED
  BY <1>1, <1>2, <1>3, LimitsNat DEF TypeOK, Stop, MapInv

LEMMA TypeStep ==
  ASSUME TypeOK, MapInv, PlaceInv, LaneExclusive, [Next]_vars
  PROVE  TypeOK' /\ MapInv'
<1> USE LimitsNat DEF TypeOK, MapInv, queueVars, workerVars, Goto, PC, Pool
<1>1. ASSUME NEW a \in Targets, NEW size \in Sizes, Enqueue(a, size)
      PROVE  TypeOK' /\ MapInv'
  <2>1. Charge(size) \in Nat
    BY QueueAssumption DEF Charge
  <2>2. /\ queue' \in [Targets -> Seq(Item)] /\ active' \in [Targets -> BOOLEAN]
        /\ accepted' \in Nat
    <3>1. Packet(size) \in Item /\ WaitingIn(a) \in Seq(Item)
      BY <2>1 DEF Packet, Item, WaitingIn
    <3>2. /\ queue' = [queue EXCEPT ![a] = Append(WaitingIn(a), Packet(size))]
          /\ active' \in [Targets -> BOOLEAN] /\ accepted' = accepted + 1
      BY <1>1 DEF Enqueue, Admit, ChargeTo
    <3>3. Append(WaitingIn(a), Packet(size)) \in Seq(Item)
      BY <3>1
    <3> QED
      BY <3>2, <3>3
  <2>3. keys' \in SUBSET Targets /\ ready' \in Seq(Targets)
    BY <1>1 DEF Enqueue, OpenLane
  <2>4. /\ IsFiniteSet(keys') /\ Cardinality(keys') \in Nat
        /\ Cardinality(keys') <= maxTargets
    <3>1. keys' = keys \cup {a} /\ (a \notin keys => Cardinality(keys) < maxTargets)
      BY <1>1 DEF Enqueue, OpenLane, Admits
    <3>2. /\ Cardinality(keys) \in Nat /\ IsFiniteSet(keys')
          /\ a \in keys => Cardinality(keys') = Cardinality(keys)
          /\ a \notin keys => Cardinality(keys') = Cardinality(keys) + 1
      BY <3>1, CardinalityChange
    <3> QED
      BY <3>1, <3>2
  <2>5. workers' \in 0..maxTargets /\ pc' \in [Pool -> PC]
    <3>1. CASE workers < Cardinality(keys')
      <4>1. /\ workers' = workers + 1
            /\ pc' = [pc EXCEPT ![workers + 1] = "select"]
        BY <1>1, <3>1 DEF Enqueue, StartWorker
      <4>2. workers + 1 \in 0..maxTargets
        BY <2>4, <3>1
      <4> QED
        BY <4>1, <4>2
    <3>2. CASE ~(workers < Cardinality(keys'))
      BY <1>1, <3>2 DEF Enqueue, StartWorker
    <3> QED
      BY <3>1, <3>2
  <2> QED
    BY <1>1, <2>2, <2>3, <2>4, <2>5 DEF Enqueue
<1>2. ASSUME NEW w \in Pool, Receive(w)
      PROVE  TypeOK' /\ MapInv'
  BY <1>2 DEF Receive
<1>3. ASSUME NEW w \in Pool, QuitOnCancel(w)
      PROVE  TypeOK' /\ MapInv'
  BY <1>3, StopTypes DEF QuitOnCancel
<1>4. ASSUME NEW w \in Pool, Abandon(w)
      PROVE  TypeOK' /\ MapInv'
  BY <1>4, StopTypes DEF Abandon
<1>5. ASSUME NEW w \in Pool, Begin(w)
      PROVE  TypeOK' /\ MapInv'
  <2>1. queue[hand[w]] \in Seq(Item) /\ queue[hand[w]] # <<>>
    BY <1>5 DEF Begin, LaneExclusive
  <2>2. /\ Head(queue[hand[w]]) \in Item
        /\ Tail(queue[hand[w]]) \in Seq(Item)
    BY <2>1
  <2> QED
    BY <1>5, <2>2 DEF Begin, Item
<1>6. ASSUME NEW w \in Pool, SendReturns(w)
      PROVE  TypeOK' /\ MapInv'
  BY <1>6 DEF SendReturns
<1>7. ASSUME NEW w \in Pool, Fatal(w)
      PROVE  TypeOK' /\ MapInv'
  <2>1. CASE fatalDone
    BY <1>7, <2>1 DEF Fatal, ReportOnce
  <2>2. CASE ~fatalDone
    <3>1. Stop /\ errors' = Append(errors, w) /\ fatalDone' = TRUE
      BY <1>7, <2>2 DEF Fatal, ReportOnce
    <3>2. errors' \in Seq(Pool)
      BY <3>1
    <3> QED
      BY <1>7, <3>1, <3>2, StopTypes DEF Fatal
  <2> QED
    BY <2>1, <2>2
<1>8. ASSUME NEW w \in Pool, Finish(w)
      PROVE  TypeOK' /\ MapInv'
  <2>1. NoItem \in Item
    BY DEF NoItem, Item
  <2>2. /\ IsFiniteSet(keys') /\ keys' \in SUBSET Targets
        /\ Cardinality(keys') <= maxTargets
    <3>1. keys' = keys \/ keys' = keys \ {hand[w]}
      BY <1>8 DEF Finish, Retires
    <3>2. /\ Cardinality(keys) \in Nat /\ IsFiniteSet(keys \ {hand[w]})
          /\ Cardinality(keys \ {hand[w]}) <= Cardinality(keys)
          /\ Cardinality(keys \ {hand[w]}) \in Nat
      BY CardinalityChange, FS_CardinalityType
    <3>3. CASE keys' = keys
      BY <3>3
    <3>4. CASE keys' = keys \ {hand[w]}
      <4>1. keys' \in SUBSET Targets
        BY <3>4
      <4>2. Cardinality(keys \ {hand[w]}) <= maxTargets
        BY <3>2
      <4> QED
        BY <3>2, <3>4, <4>1, <4>2
    <3> QED
      BY <3>1, <3>3, <3>4
  <2>3. queue' \in [Targets -> Seq(Item)] /\ active' \in [Targets -> BOOLEAN]
    BY <1>8 DEF Finish, Retires
  <2>4. ready' \in Seq(Targets)
    BY <1>8 DEF Finish, Retires
  <2> QED
    BY <1>8, <2>1, <2>2, <2>3, <2>4 DEF Finish, Retires
<1>9. CASE ParentCancel \/ Wait \/ UNCHANGED vars
  BY <1>9 DEF ParentCancel, Wait, vars
<1>10. CASE OwnerStop
  BY <1>10, StopTypes DEF OwnerStop
<1> QED
  BY <1>1, <1>2, <1>3, <1>4, <1>5, <1>6, <1>7, <1>8, <1>9, <1>10
  DEF Next, Worker
-----------------------------------------------------------------------------
\* The flags, the error buffer and the owner under one step.
LEMMA ShutdownStep ==
  ASSUME TypeOK, ShutdownInv, [Next]_vars
  PROVE  ShutdownInv'
<1> USE DEF TypeOK, ShutdownInv, NoWorkAfterWait, OneFatalError, queueVars,
            workerVars, Goto, PC
<1>1. ASSUME NEW a \in Targets, NEW size \in Sizes, Enqueue(a, size)
      PROVE  ShutdownInv'
  BY <1>1 DEF Enqueue, Admits
<1>2. ASSUME NEW w \in Pool, Worker(w)
      PROVE  ShutdownInv'
  <2>1. CASE Receive(w) \/ Begin(w) \/ SendReturns(w) \/ Finish(w)
    <3>1. /\ UNCHANGED <<stopped, canceled, errors, fatalDone, owner>>
          /\ pc[w] \notin {"none", "exited"}
      BY <2>1 DEF Receive, Begin, SendReturns, Finish
    <3> QED
      BY <3>1
  <2>2. CASE QuitOnCancel(w) \/ Abandon(w)
    BY <1>2, <2>2 DEF QuitOnCancel, Abandon, Stop
  <2>3. CASE Fatal(w)
    <3>1. CASE fatalDone
      BY <2>3, <3>1 DEF Fatal, ReportOnce
    <3>2. CASE ~fatalDone
      <4>1. errors = <<>> /\ errors' = Append(errors, w)
        BY <2>3, <3>2 DEF Fatal, ReportOnce
      <4>2. Len(errors') <= 1
        BY <4>1
      <4> QED
        BY <2>3, <3>2, <4>2 DEF Fatal, ReportOnce, Stop
    <3> QED
      BY <3>1, <3>2
  <2> QED
    BY <1>2, <2>1, <2>2, <2>3 DEF Worker
<1>3. CASE ParentCancel \/ Wait \/ UNCHANGED vars
  BY <1>3 DEF ParentCancel, Wait, AllExited, vars
<1>4. CASE OwnerStop
  BY <1>4 DEF OwnerStop, Stop
<1> QED
  BY <1>1, <1>2, <1>3, <1>4 DEF Next

\* The places of the lanes under one step.  A step that leaves the queue
\* canceled has only the first part of LaneExclusive to keep.
LEMMA PlaceStep ==
  ASSUME TypeOK, MapInv, PlaceInv, LaneExclusive, [Next]_vars
  PROVE  PlaceInv' /\ LaneExclusive'
<1> USE DEF TypeOK, PlaceInv, LaneExclusive, Holding, InCallback, queueVars,
            workerVars, Goto, PC
<1>1. ASSUME NEW a \in Targets, NEW size \in Sizes, Enqueue(a, size)
      PROVE  PlaceInv' /\ LaneExclusive'
  <2>1. /\ \A w \in Pool : pc'[w] = pc[w] \/ (pc[w] \in PC /\ pc'[w] = "select")
        /\ hand' = hand /\ ~canceled /\ ~canceled'
    BY <1>1 DEF Enqueue, Admits, StartWorker
  <2>2. keys' = keys \cup {a}
    BY <1>1 DEF Enqueue, OpenLane
  <2>3. /\ \A b \in Targets : b # a => queue'[b] = queue[b]
        /\ queue'[a] # <<>>
    <3>1. /\ WaitingIn(a) \in Seq(Item)
          /\ queue' = [queue EXCEPT ![a] = Append(WaitingIn(a), Packet(size))]
      BY <1>1 DEF Enqueue, Admit, WaitingIn
    <3>2. Append(WaitingIn(a), Packet(size)) # <<>>
      BY <3>1
    <3> QED
      BY <3>1, <3>2
  <2>4. CASE a \in keys
    <3>1. ready' = ready
      BY <1>1, <2>4 DEF Enqueue, OpenLane
    <3> QED
      BY <2>1, <2>2, <2>3, <3>1
  <2>5. CASE a \notin keys
    <3>1. ready' = Append(ready, a)
      BY <1>1, <2>5 DEF Enqueue, OpenLane
    <3>2. \A i \in DOMAIN ready' :
            \/ i \in DOMAIN ready /\ ready'[i] = ready[i] /\ ready[i] # a
            \/ i = Len(ready) + 1 /\ ready'[i] = a
      BY <2>1, <2>5, <3>1
    <3>3. PlaceInv'
      <4>1. \A i, j \in DOMAIN ready' : ready'[i] = ready'[j] => i = j
        <5>1. \A i, j \in DOMAIN ready : ready[i] = ready[j] => i = j
          BY <2>1
        <5> HIDE DEF TypeOK, PlaceInv, LaneExclusive
        <5> QED
          BY <3>2, <5>1
      <4>2. \A i \in DOMAIN ready' : ready'[i] \in keys' /\ queue'[ready'[i]] # <<>>
        BY <2>1, <2>2, <2>3, <3>2
      <4>3. \A i \in DOMAIN ready', v \in Pool :
              pc'[v] \in Holding => hand'[v] # ready'[i]
        <5> SUFFICES ASSUME NEW i \in DOMAIN ready', NEW v \in Pool,
                            pc'[v] \in Holding
                     PROVE  hand'[v] # ready'[i]
          OBVIOUS
        <5>1. pc[v] \in Holding /\ hand'[v] = hand[v] /\ hand[v] \in keys
          BY <2>1
        <5> QED
          BY <2>1, <2>5, <3>2, <5>1
      <4>4. \A v \in Pool : pc'[v] \in Holding => hand'[v] \in keys'
        BY <2>1, <2>2
      <4> QED
        BY <4>1, <4>2, <4>3, <4>4
    <3>4. LaneExclusive'
      BY <2>1, <2>3
    <3> QED
      BY <3>3, <3>4
  <2> QED
    BY <2>4, <2>5
<1>2. ASSUME NEW w \in Pool, Receive(w)
      PROVE  PlaceInv' /\ LaneExclusive'
  <2>1. /\ hand' = [hand EXCEPT ![w] = ready[1]]
        /\ pc' = [pc EXCEPT ![w] = "got"]
        /\ UNCHANGED <<canceled, keys, queue>>
    BY <1>2 DEF Receive
  <2>2. \A i \in DOMAIN ready' : i + 1 \in DOMAIN ready /\ ready'[i] = ready[i + 1]
    BY <1>2 DEF Receive
  <2>3. 1 \in DOMAIN ready
    BY <1>2 DEF Receive
  <2>4. CASE canceled
    BY <2>1, <2>4
  <2>5. CASE ~canceled
    <3>1. \A v \in Pool : v # w /\ pc'[v] \in Holding => hand'[v] # ready[1]
      BY <2>1, <2>3, <2>5
    <3>2. \A i \in DOMAIN ready' : ready'[i] # ready[1]
      <4> SUFFICES ASSUME NEW i \in DOMAIN ready' PROVE ready'[i] # ready[1]
        OBVIOUS
      <4>1. i \in 1..Len(ready') /\ i + 1 # 1
        BY <1>2 DEF Receive
      <4> QED
        BY <2>2, <2>3, <2>5, <4>1
    <3>3. ready[1] \in keys /\ queue[ready[1]] # <<>>
      BY <2>3, <2>5
    <3>4. PlaceInv'
      <4>1. \A i, j \in DOMAIN ready' : ready'[i] = ready'[j] => i = j
        <5> SUFFICES ASSUME NEW i \in DOMAIN ready', NEW j \in DOMAIN ready',
                            ready'[i] = ready'[j]
                     PROVE  i = j
          OBVIOUS
        <5>1. i + 1 = j + 1
          BY <2>2, <2>5
        <5>2. i \in Int /\ j \in Int
          BY <1>2 DEF Receive
        <5> QED
          BY <5>1, <5>2
      <4>2. \A i \in DOMAIN ready' : ready'[i] \in keys' /\ queue'[ready'[i]] # <<>>
        BY <2>1, <2>2, <2>5
      <4>3. \A i \in DOMAIN ready', v \in Pool :
              pc'[v] \in Holding => hand'[v] # ready'[i]
        BY <2>1, <2>2, <2>5, <3>2
      <4>4. \A v \in Pool : pc'[v] \in Holding => hand'[v] \in keys'
        BY <2>1, <2>5, <3>3
      <4> QED
        BY <4>1, <4>2, <4>3, <4>4
    <3>5. LaneExclusive'
      BY <2>1, <2>5, <3>1, <3>3
    <3> QED
      BY <3>4, <3>5
  <2> QED
    BY <2>4, <2>5
<1>3. ASSUME NEW w \in Pool, QuitOnCancel(w) \/ Abandon(w)
      PROVE  PlaceInv' /\ LaneExclusive'
  BY <1>3 DEF QuitOnCancel, Abandon, Stop
<1>4. ASSUME NEW w \in Pool, Begin(w)
      PROVE  PlaceInv' /\ LaneExclusive'
  BY <1>4 DEF Begin
<1>5. ASSUME NEW w \in Pool, SendReturns(w)
      PROVE  PlaceInv' /\ LaneExclusive'
  BY <1>5 DEF SendReturns
<1>6. ASSUME NEW w \in Pool, Fatal(w)
      PROVE  PlaceInv' /\ LaneExclusive'
  BY <1>6 DEF Fatal, ReportOnce, Stop
<1>7. ASSUME NEW w \in Pool, Finish(w)
      PROVE  PlaceInv' /\ LaneExclusive'
  <2>1. /\ pc[w] = "finish" /\ pc' = [pc EXCEPT ![w] = "select"]
        /\ UNCHANGED <<canceled, hand>>
    BY <1>7 DEF Finish, Retires
  <2>2. CASE stopped \/ canceled \/ queue[hand[w]] = <<>>
    <3>1. /\ keys' = keys \ {hand[w]} /\ ready' = ready
          /\ \A b \in Targets : b # hand[w] => queue'[b] = queue[b]
      BY <1>7, <2>2 DEF Finish, Retires
    <3> QED
      BY <2>1, <3>1
  <2>3. CASE ~(stopped \/ canceled \/ queue[hand[w]] = <<>>)
    <3>1. keys' = keys /\ queue' = queue /\ ready' = Append(ready, hand[w])
      BY <1>7, <2>3 DEF Finish, Retires
    <3>2. \A i \in DOMAIN ready' :
            \/ i \in DOMAIN ready /\ ready'[i] = ready[i] /\ ready[i] # hand[w]
            \/ i = Len(ready) + 1 /\ ready'[i] = hand[w]
      BY <2>1, <2>3, <3>1
    <3>3. LaneExclusive'
      BY <2>1, <2>3, <3>1
    <3>4. PlaceInv'
      <4>1. \A i, j \in DOMAIN ready' : ready'[i] = ready'[j] => i = j
        BY <2>3, <3>2
      <4>2. \A i \in DOMAIN ready' : ready'[i] \in keys' /\ queue'[ready'[i]] # <<>>
        BY <2>1, <2>3, <3>1, <3>2
      <4>3. \A i \in DOMAIN ready', v \in Pool :
              pc'[v] \in Holding => hand'[v] # ready'[i]
        BY <2>1, <2>3, <3>2
      <4>4. \A v \in Pool : pc'[v] \in Holding => hand'[v] \in keys'
        BY <2>1, <2>3, <3>1
      <4> QED
        BY <4>1, <4>2, <4>3, <4>4
    <3> QED
      BY <3>3, <3>4
  <2> QED
    BY <2>2, <2>3
<1>8. CASE ParentCancel \/ Wait \/ UNCHANGED vars
  BY <1>8 DEF ParentCancel, Wait, vars
<1>9. CASE OwnerStop
  BY <1>9 DEF OwnerStop, Stop
<1> QED
  BY <1>1, <1>2, <1>3, <1>4, <1>5, <1>6, <1>7, <1>8, <1>9 DEF Next, Worker

\* The ready channel under one step: it grows only while the queue is live,
\* and then its entries are distinct lanes of the map.
LEMMA ReadyStep ==
  ASSUME TypeOK, TypeOK', MapInv', PlaceInv', ReadyNeverBlocks, [Next]_vars
  PROVE  ReadyNeverBlocks'
<1> USE LimitsNat DEF ReadyNeverBlocks
<1>1. CASE ~canceled'
  <2>1. \A i \in 1..Len(ready') : ready'[i] \in keys'
    <3>1. DOMAIN ready' = 1..Len(ready')
      BY DEF TypeOK
    <3> QED
      BY <1>1, <3>1 DEF PlaceInv
  <2>2. ready' \in Seq(keys')
    <3>1. Len(ready') \in Nat /\ ready' \in [1..Len(ready') -> Targets]
      BY DEF TypeOK
    <3>2. ready' \in [1..Len(ready') -> keys']
      BY <2>1, <3>1
    <3> QED
      BY <3>1, <3>2
  <2>3. Len(ready') <= Cardinality(keys')
    BY <1>1, <2>2, DistinctLen DEF PlaceInv, MapInv
  <2>4. Cardinality(keys') \in Nat /\ Len(ready') \in Nat
    BY FS_CardinalityType DEF MapInv, TypeOK
  <2> QED
    BY <2>3, <2>4 DEF MapInv
<1>2. CASE canceled'
  <2>1. ready' = ready \/ (ready # <<>> /\ ready' = Tail(ready))
    BY <1>2 DEF Next, Worker, Enqueue, Admits, Receive, QuitOnCancel, Abandon,
       Begin, SendReturns, Fatal, Finish, Retires, ParentCancel, OwnerStop, Wait, vars,
       queueVars
  <2> QED
    <3>1. Len(ready) \in Nat
      BY DEF TypeOK
    <3>2. CASE ready # <<>> /\ ready' = Tail(ready)
      BY <3>1, <3>2, TailFacts DEF TypeOK
    <3> QED
      BY <2>1, <3>2
<1> QED
  BY <1>1, <1>2 DEF TypeOK

\* The packets of a lane have ids.
LEMMA ItemIds ==
  ASSUME NEW q \in Seq(Item)
  PROVE  \A i \in 1..Len(q) : q[i].id \in Nat
<1>1. \A i \in 1..Len(q) : q[i] \in Item
  OBVIOUS
<1> QED
  BY <1>1 DEF Item

\* A lane stays in order when the newest packet joins at its end, when its
\* first packet starts, when it is emptied, and when others accept packets.
LEMMA OrderAppend ==
  ASSUME NEW q \in Seq(Item), NEW last, NEW newest, NEW pkt \in Item,
         InOrder(q, last, newest), pkt.id = newest + 1
  PROVE  InOrder(Append(q, pkt), last, newest + 1)
<1> DEFINE r == Append(q, pkt)
<1>1. /\ Len(q) \in Nat /\ Len(r) = Len(q) + 1
      /\ \A i \in 1..Len(q) : r[i] = q[i] /\ q[i].id \in Nat
      /\ r[Len(q) + 1] = pkt
  BY ItemIds
<1>2. last \in Nat /\ newest \in Nat /\ last <= newest
  BY DEF InOrder
<1> HIDE DEF r
<1>3. ASSUME NEW i \in 1..Len(r)
      PROVE  last < r[i].id /\ r[i].id <= newest + 1
  <2>1. CASE i = Len(q) + 1
    BY <1>1, <1>2, <2>1
  <2>2. CASE i \in 1..Len(q)
    BY <1>1, <1>2, <2>2 DEF InOrder
  <2> QED
    BY <1>1, <2>1, <2>2
<1>4. ASSUME NEW i \in 1..Len(r), NEW j \in 1..Len(r), i < j
      PROVE  r[i].id < r[j].id
  <2>1. i \in 1..Len(q)
    BY <1>1, <1>4
  <2>2. CASE j = Len(q) + 1
    BY <1>1, <1>2, <2>1, <2>2 DEF InOrder
  <2>3. CASE j \in 1..Len(q)
    BY <1>1, <1>4, <2>1, <2>3 DEF InOrder
  <2> QED
    BY <1>1, <2>2, <2>3
<1>5. InOrder(r, last, newest + 1)
  BY <1>2, <1>3, <1>4 DEF InOrder
<1> QED
  BY <1>5 DEF r

LEMMA OrderTail ==
  ASSUME NEW q \in Seq(Item), q # <<>>, NEW last, NEW newest,
         InOrder(q, last, newest)
  PROVE  InOrder(Tail(q), q[1].id, newest)
<1> DEFINE r == Tail(q)
<1>1. /\ Len(q) \in Nat /\ Len(r) = Len(q) - 1 /\ 1 \in 1..Len(q)
      /\ \A i \in 1..Len(r) : /\ i \in Nat \ {0} /\ i + 1 \in 1..Len(q)
                              /\ r[i] = q[i + 1]
  BY TailFacts
<1>2. \A i \in 1..Len(q) : q[i].id \in Nat
  BY ItemIds
<1>3. newest \in Nat /\ q[1].id \in Nat /\ q[1].id <= newest
  BY <1>1, <1>2 DEF InOrder
<1> HIDE DEF r
<1>4. ASSUME NEW i \in 1..Len(r)
      PROVE  q[1].id < r[i].id /\ r[i].id <= newest
  <2>1. i + 1 \in 1..Len(q) /\ 1 < i + 1 /\ r[i] = q[i + 1]
    BY <1>1
  <2> QED
    BY <1>1, <2>1 DEF InOrder
<1>5. ASSUME NEW i \in 1..Len(r), NEW j \in 1..Len(r), i < j
      PROVE  r[i].id < r[j].id
  <2>1. /\ i + 1 \in 1..Len(q) /\ j + 1 \in 1..Len(q) /\ i + 1 < j + 1
        /\ r[i] = q[i + 1] /\ r[j] = q[j + 1]
    BY <1>1, <1>5
  <2> QED
    BY <2>1 DEF InOrder
<1>6. InOrder(r, q[1].id, newest)
  BY <1>3, <1>4, <1>5 DEF InOrder
<1> QED
  BY <1>6 DEF r

LEMMA OrderEmpty ==
  ASSUME NEW q, NEW last, NEW newest, InOrder(q, last, newest)
  PROVE  InOrder(<<>>, last, newest)
BY DEF InOrder

LEMMA OrderLater ==
  ASSUME NEW q \in Seq(Item), NEW last, NEW newest, InOrder(q, last, newest)
  PROVE  InOrder(q, last, newest + 1)
BY ItemIds DEF InOrder

\* The ids of the waiting packets under one step.
LEMMA OrderStep ==
  ASSUME TypeOK, LaneExclusive, OrderInv, [Next]_vars
  PROVE  OrderInv'
<1> USE DEF OrderInv
<1>0. /\ queue \in [Targets -> Seq(Item)] /\ lastStarted \in [Targets -> Nat]
      /\ hand \in [Pool -> Targets]
  BY DEF TypeOK
<1>1. ASSUME NEW a \in Targets, NEW size \in Sizes, Enqueue(a, size)
      PROVE  OrderInv'
  <2>1. /\ lastStarted' = lastStarted /\ accepted' = accepted + 1
        /\ \A b \in Targets : b # a => queue'[b] = queue[b]
        /\ queue'[a] = Append(WaitingIn(a), Packet(size))
    BY <1>0, <1>1 DEF Enqueue, Admit, ChargeTo
  <2>2. Packet(size) \in Item /\ Packet(size).id = accepted + 1
    BY QueueAssumption DEF Packet, Item, Charge, TypeOK
  <2>3. WaitingIn(a) \in Seq(Item) /\ InOrder(WaitingIn(a), lastStarted[a], accepted)
    BY <1>0, OrderEmpty DEF WaitingIn
  <2>4. InOrder(queue'[a], lastStarted[a], accepted + 1)
    BY <2>1, <2>2, <2>3, OrderAppend
  <2>5. \A b \in Targets : b # a => InOrder(queue'[b], lastStarted[b], accepted + 1)
    BY <1>0, <2>1, OrderLater
  <2> QED
    BY <2>1, <2>4, <2>5
<1>2. ASSUME NEW w \in Pool, Begin(w)
      PROVE  OrderInv'
  <2> DEFINE a == hand[w]
  <2>1. a \in Targets /\ queue[a] \in Seq(Item) /\ queue[a] # <<>>
    BY <1>0, <1>2 DEF Begin, LaneExclusive
  <2>2. /\ accepted' = accepted
        /\ \A b \in Targets : b # a => queue'[b] = queue[b] /\ lastStarted'[b] = lastStarted[b]
        /\ queue'[a] = Tail(queue[a]) /\ lastStarted'[a] = queue[a][1].id
    BY <1>0, <1>2, <2>1, TailFacts DEF Begin
  <2>3. InOrder(queue'[a], lastStarted'[a], accepted)
    BY <2>1, <2>2, OrderTail
  <2> QED
    BY <2>2, <2>3
<1>3. CASE Stop /\ UNCHANGED <<accepted, lastStarted>>
  <2>1. \A b \in Targets : queue'[b] = queue[b] \/ queue'[b] = <<>>
    BY <1>3 DEF Stop
  <2> QED
    BY <1>3, <2>1, OrderEmpty
<1>4. CASE UNCHANGED <<queue, accepted, lastStarted>>
  BY <1>4
<1>5. ASSUME NEW w \in Pool, Finish(w)
      PROVE  OrderInv'
  <2>1. /\ UNCHANGED <<accepted, lastStarted>>
        /\ \A b \in Targets : queue'[b] = queue[b] \/ queue'[b] = <<>>
    BY <1>0, <1>5 DEF Finish, Retires
  <2> QED
    BY <2>1, OrderEmpty
<1> QED
  BY <1>1, <1>2, <1>3, <1>4, <1>5
  DEF Next, Worker, Receive, QuitOnCancel, Abandon, SendReturns, Fatal,
      ReportOnce, ParentCancel, OwnerStop, Wait, vars, queueVars

-----------------------------------------------------------------------------
(* Sums over finite sets.  Induction goes by a smallest counterexample. *)

\* A set of numbers has a least member.
LEMMA LeastNumber ==
  ASSUME NEW N \in SUBSET Nat, N # {}
  PROVE  \E n \in N : \A m \in N : n <= m
<1>1. \E n \in N : \A m \in N : <<m, n>> \notin OpToRel(<, Nat)
  BY NatLessThanWellFounded, WFMin
<1>2. PICK n \in N : \A m \in N : <<m, n>> \notin OpToRel(<, Nat)
  BY <1>1
<1>3. \A m \in N : n <= m
  <2> SUFFICES ASSUME NEW m \in N PROVE n <= m
    OBVIOUS
  <2>1. <<m, n>> \notin OpToRel(<, Nat) /\ m \in Nat /\ n \in Nat
    BY <1>2
  <2> QED
    BY <2>1 DEF OpToRel
<1> QED
  BY <1>3

\* The sums of MapThenSumSet, by their recursion over the sets that are left.
One(s) == CHOOSE x \in s : TRUE
Partial(g, f, s) == IF s = {} THEN 0 ELSE f[One(s)] + g[s \ {One(s)}]
IsSum(g, f, U) == g = [s \in SUBSET U |-> Partial(g, f, s)]

\* The member that the recursion takes out.
LEMMA OneLess ==
  ASSUME NEW s, IsFiniteSet(s), s # {}
  PROVE  /\ One(s) \in s /\ IsFiniteSet(s \ {One(s)})
         /\ Cardinality(s \ {One(s)}) = Cardinality(s) - 1
         /\ Cardinality(s) \in Nat \ {0} /\ Cardinality(s \ {One(s)}) \in Nat
<1>1. One(s) \in s
  BY DEF One
<1>2. /\ IsFiniteSet(s \ {One(s)}) /\ Cardinality(s) \in Nat
      /\ Cardinality(s \ {One(s)}) = Cardinality(s) - 1
  BY <1>1, FS_RemoveElement, FS_CardinalityType
<1>3. Cardinality(s \ {One(s)}) \in Nat
  BY <1>2, FS_CardinalityType
<1> QED
  BY <1>1, <1>2, <1>3

LEMMA SumExists ==
  ASSUME NEW U, IsFiniteSet(U), NEW f
  PROVE  \E g : IsSum(g, f, U)
<1> DEFINE Upto(g, n) == /\ g = [s \in SUBSET U |-> g[s]]
                         /\ \A s \in SUBSET U : Cardinality(s) <= n => g[s] = Partial(g, f, s)
           N == {n \in Nat : ~\E g : Upto(g, n)}
<1>0. \A s \in SUBSET U : IsFiniteSet(s) /\ Cardinality(s) \in Nat
  BY FS_Subset, FS_CardinalityType
<1>1. 0 \notin N
  <2> DEFINE z == [s \in SUBSET U |-> 0]
  <2>1. ASSUME NEW s \in SUBSET U, Cardinality(s) <= 0 PROVE z[s] = Partial(z, f, s)
    <3>1. s = {}
      BY <1>0, <2>1, FS_EmptySet
    <3> QED
      BY <3>1 DEF Partial
  <2>2. Upto(z, 0)
    BY <2>1
  <2> QED
    BY <2>2
<1>2. ASSUME NEW n \in Nat, n \notin N PROVE n + 1 \notin N
  <2>1. PICK g : Upto(g, n)
    BY <1>2
  <2> DEFINE h == [s \in SUBSET U |-> Partial(g, f, s)]
  <2>2. ASSUME NEW s \in SUBSET U, Cardinality(s) <= n + 1 PROVE h[s] = Partial(h, f, s)
    <3>1. CASE s = {}
      BY <3>1 DEF Partial
    <3>2. CASE s # {}
      <4> DEFINE r == s \ {One(s)}
      <4>1. r \in SUBSET U /\ Cardinality(r) <= n
        BY <1>0, <2>2, <3>2, OneLess
      <4>2. h[r] = Partial(g, f, r) /\ g[r] = Partial(g, f, r)
        BY <2>1, <4>1
      <4>3. h[s] = f[One(s)] + g[r] /\ Partial(h, f, s) = f[One(s)] + h[r]
        BY <3>2 DEF Partial
      <4> QED
        BY <4>2, <4>3
    <3> QED
      BY <3>1, <3>2
  <2>3. Upto(h, n + 1)
    BY <2>2
  <2> QED
    BY <2>3
<1>3. N = {}
  <2> SUFFICES ASSUME N # {} PROVE FALSE
    OBVIOUS
  <2>1. PICK n \in N : \A m \in N : n <= m
    BY LeastNumber
  <2>2. n \in Nat /\ n # 0
    BY <1>1
  <2>3. n - 1 \in Nat /\ (n - 1) + 1 = n
    BY <2>2
  <2>4. n - 1 \notin N
    <3> HIDE DEF N
    <3> SUFFICES ASSUME n - 1 \in N PROVE FALSE
      OBVIOUS
    <3> QED
      BY <2>1, <2>2
  <2> HIDE DEF N
  <2> QED
    BY <1>2, <2>1, <2>3, <2>4
<1>4. PICK g : Upto(g, Cardinality(U))
  BY <1>0, <1>3
<1>5. \A s \in SUBSET U : Cardinality(s) <= Cardinality(U)
  BY FS_Subset
<1>6. IsSum(g, f, U)
  BY <1>4, <1>5 DEF IsSum
<1> QED
  BY <1>6

\* Its value at a set depends on the amounts in that set alone.
LEMMA SumUnique ==
  ASSUME NEW U, IsFiniteSet(U), NEW f, NEW g, IsSum(g, f, U),
         NEW V, IsFiniteSet(V), NEW e, NEW h, IsSum(h, e, V),
         NEW T, T \subseteq U, T \subseteq V, \A x \in T : f[x] = e[x]
  PROVE  g[T] = h[T]
<1> DEFINE Differ(s) == s \subseteq T /\ g[s] # h[s]
           N == {n \in Nat : \E s \in SUBSET T : Cardinality(s) = n /\ g[s] # h[s]}
<1>0. \A s \in SUBSET T : IsFiniteSet(s) /\ Cardinality(s) \in Nat
  BY FS_Subset, FS_CardinalityType
<1> SUFFICES ASSUME g[T] # h[T] PROVE FALSE
  OBVIOUS
<1>1. Cardinality(T) \in N
  BY <1>0
<1>2. PICK n \in N : \A m \in N : n <= m
  BY <1>1, LeastNumber
<1>3. PICK s \in SUBSET T : Cardinality(s) = n /\ g[s] # h[s]
  BY <1>2
<1>4. g[s] = Partial(g, f, s) /\ h[s] = Partial(h, e, s)
  <2>1. s \in SUBSET U /\ s \in SUBSET V
    OBVIOUS
  <2>2. g = [r \in SUBSET U |-> Partial(g, f, r)]
    BY DEF IsSum
  <2>3. h = [r \in SUBSET V |-> Partial(h, e, r)]
    BY DEF IsSum
  <2>4. g[s] = Partial(g, f, s)
    BY <2>1, <2>2
  <2>5. h[s] = Partial(h, e, s)
    BY <2>1, <2>3
  <2> QED
    BY <2>4, <2>5
<1>5. s # {}
  BY <1>3, <1>4 DEF Partial
<1> DEFINE r == s \ {One(s)}
<1>6. r \in SUBSET T /\ Cardinality(r) = n - 1 /\ n \in Nat \ {0} /\ n - 1 \in Nat
  BY <1>0, <1>3, <1>5, OneLess
<1>7. g[r] = h[r]
  <2> SUFFICES ASSUME g[r] # h[r] PROVE FALSE
    OBVIOUS
  <2>1. n - 1 \in N
    BY <1>6
  <2> HIDE DEF N
  <2> QED
    BY <1>2, <1>6, <2>1
<1>8. f[One(s)] = e[One(s)]
  BY <1>0, <1>5, OneLess
<1> QED
  BY <1>3, <1>4, <1>5, <1>7, <1>8 DEF Partial

\* The sum of the amounts f over S.
Total(f, S) == (CHOOSE g : IsSum(g, f, S))[S]


\* Among finite sets there is a smallest one.
LEMMA SmallestSet ==
  ASSUME NEW B, B # {}, \A s \in B : IsFiniteSet(s)
  PROVE  \E s \in B : \A t \in B : Cardinality(s) <= Cardinality(t)
<1> DEFINE N == {Cardinality(s) : s \in B}
<1>1. N \in SUBSET Nat /\ N # {}
  BY FS_CardinalityType
<1>2. PICK n \in N : \A m \in N : n <= m
  BY <1>1, LeastNumber
<1> QED
  BY <1>2

\* Every solution of the sum's recursion gives the same number.
LEMMA TotalIs ==
  ASSUME NEW U, IsFiniteSet(U), NEW f, NEW g, IsSum(g, f, U), NEW S \in SUBSET U
  PROVE  Total(f, S) = g[S]
<1>1. IsFiniteSet(S)
  BY FS_Subset
<1>2. \E h : IsSum(h, f, S)
  BY <1>1, SumExists
<1> DEFINE h == CHOOSE h : IsSum(h, f, S)
<1>3. IsSum(h, f, S)
  BY <1>2
<1> HIDE DEF h
<1>4. g[S] = h[S]
  BY <1>1, <1>3, SumUnique
<1> QED
  BY <1>4 DEF Total, h

\* Sums of equal numbers are equal.
LEMMA TotalSame ==
  ASSUME NEW S, IsFiniteSet(S), NEW f, NEW e, \A x \in S : f[x] = e[x]
  PROVE  Total(f, S) = Total(e, S)
<1>1. PICK g : IsSum(g, f, S)
  BY SumExists
<1>2. PICK h : IsSum(h, e, S)
  BY SumExists
<1>3. g[S] = h[S]
  BY <1>1, <1>2, SumUnique
<1> QED
  BY <1>1, <1>2, <1>3, TotalIs

\* The recursion of a sum.
LEMMA TotalStep ==
  ASSUME NEW S, IsFiniteSet(S), NEW f
  PROVE  Total(f, S) = IF S = {} THEN 0 ELSE f[One(S)] + Total(f, S \ {One(S)})
<1>1. PICK g : IsSum(g, f, S)
  BY SumExists
<1>2. \A T \in SUBSET S : Total(f, T) = g[T]
  BY <1>1, TotalIs
<1>3. g[S] = Partial(g, f, S)
  BY <1>1 DEF IsSum
<1> QED
  BY <1>2, <1>3 DEF Partial

\* The sum over nothing.
LEMMA TotalOfNone ==
  ASSUME NEW f
  PROVE  Total(f, {}) = 0
BY FS_EmptySet, TotalStep

\* f gives an amount for every member of S.
Amounts(f, S) == \A x \in S : f[x] \in Nat

\* Sums of naturals are naturals.
LEMMA TotalNat ==
  ASSUME NEW S, IsFiniteSet(S), NEW f, Amounts(f, S)
  PROVE  Total(f, S) \in Nat
<1> DEFINE B == {s \in SUBSET S : Total(f, s) \notin Nat}
<1>1. \A s \in SUBSET S : IsFiniteSet(s)
  BY FS_Subset
<1>2. B = {}
  <2> SUFFICES ASSUME B # {} PROVE FALSE
    OBVIOUS
  <2>1. PICK s \in B : \A t \in B : Cardinality(s) <= Cardinality(t)
    BY <1>1, SmallestSet
  <2>2. s \in SUBSET S /\ Total(f, s) \notin Nat
    BY <2>1
  <2>3. s # {}
    BY <2>2, TotalOfNone
  <2> DEFINE r == s \ {One(s)}
  <2>4. /\ One(s) \in s /\ r \in SUBSET S
        /\ Cardinality(r) = Cardinality(s) - 1 /\ Cardinality(s) \in Nat
    BY <1>1, <2>2, <2>3, OneLess
  <2>5. r \notin B
    BY <2>1, <2>4
  <2>6. Total(f, s) = f[One(s)] + Total(f, r)
    BY <1>1, <2>2, <2>3, TotalStep
  <2> QED
    BY <2>2, <2>4, <2>5, <2>6 DEF Amounts
<1> QED
  BY <1>2

\* The order of summation does not matter: any member may be taken out.
LEMMA TotalRemove ==
  ASSUME NEW S, IsFiniteSet(S), NEW f, Amounts(f, S), NEW a \in S
  PROVE  Total(f, S) = f[a] + Total(f, S \ {a})
<1> DEFINE B == {s \in SUBSET S : \E x \in s : Total(f, s) # f[x] + Total(f, s \ {x})}
<1>1. \A s \in SUBSET S : IsFiniteSet(s) /\ Amounts(f, s) /\ Total(f, s) \in Nat
  BY FS_Subset, TotalNat DEF Amounts
<1>2. B = {}
  <2> SUFFICES ASSUME B # {} PROVE FALSE
    OBVIOUS
  <2>1. PICK s \in B : \A t \in B : Cardinality(s) <= Cardinality(t)
    BY <1>1, SmallestSet
  <2>2. s \in SUBSET S
    OBVIOUS
  <2>3. PICK x \in s : Total(f, s) # f[x] + Total(f, s \ {x})
    BY <2>1
  <2> DEFINE y == One(s)
  <2>4. /\ y \in s /\ Total(f, s) = f[y] + Total(f, s \ {y})
        /\ Cardinality(s \ {y}) < Cardinality(s)
        /\ \A z \in s : Cardinality(s \ {z}) < Cardinality(s)
    <3>1. \A z \in s : Cardinality(s \ {z}) = Cardinality(s) - 1 /\ Cardinality(s) \in Nat
      BY <1>1, <2>2, FS_RemoveElement, FS_CardinalityType
    <3>2. IsFiniteSet(s) /\ s # {}
      BY <1>1, <2>2, <2>3
    <3>3. y \in s
      BY <3>2, OneLess
    <3>4. Total(f, s) = f[y] + Total(f, s \ {y})
      BY <3>2, TotalStep
    <3> QED
      BY <3>1, <3>3, <3>4
  <2>5. x # y
    BY <2>3, <2>4
  <2> HIDE DEF y
  <2>6. \A t \in SUBSET s : Cardinality(t) < Cardinality(s) =>
          \A z \in t : Total(f, t) = f[z] + Total(f, t \ {z})
    <3> SUFFICES ASSUME NEW t \in SUBSET s, Cardinality(t) < Cardinality(s), t \in B
                 PROVE  FALSE
      BY <2>2
    <3> HIDE DEF B
    <3>1. Cardinality(s) <= Cardinality(t)
      BY <2>1
    <3>2. Cardinality(s) \in Nat /\ Cardinality(t) \in Nat
      BY <1>1, <2>2, FS_CardinalityType
    <3> QED
      BY <3>1, <3>2
  <2>7. /\ Total(f, s \ {y}) = f[x] + Total(f, (s \ {y}) \ {x})
        /\ Total(f, s \ {x}) = f[y] + Total(f, (s \ {x}) \ {y})
    BY <2>4, <2>5, <2>6
  <2>8. (s \ {y}) \ {x} = (s \ {x}) \ {y}
    OBVIOUS
  <2>9. /\ f[x] \in Nat /\ f[y] \in Nat /\ Total(f, (s \ {x}) \ {y}) \in Nat
        /\ Total(f, s \ {y}) \in Nat /\ Total(f, s \ {x}) \in Nat
    BY <1>1, <2>2, <2>4 DEF Amounts
  <2>10. Total(f, s) = f[y] + (f[x] + Total(f, (s \ {x}) \ {y}))
    BY <2>4, <2>7, <2>8
  <2>11. f[x] + Total(f, s \ {x}) = f[x] + (f[y] + Total(f, (s \ {x}) \ {y}))
    BY <2>7
  <2> QED
    BY <2>3, <2>9, <2>10, <2>11
<1> QED
  BY <1>2

\* What one member's change does to a sum.
LEMMA TotalChange ==
  ASSUME NEW S, IsFiniteSet(S), NEW f, NEW e, Amounts(f, S), Amounts(e, S),
         NEW a \in S, \A x \in S : x # a => f[x] = e[x]
  PROVE  /\ Total(e, S) = Total(f, S) - f[a] + e[a]
         /\ Total(e, S) \in Nat /\ Total(f, S) \in Nat
<1>1. IsFiniteSet(S \ {a}) /\ Amounts(f, S \ {a}) /\ Amounts(e, S \ {a})
  BY FS_RemoveElement DEF Amounts
<1>2. Total(f, S \ {a}) = Total(e, S \ {a})
  BY <1>1, TotalSame
<1>3. Total(f, S) = f[a] + Total(f, S \ {a}) /\ Total(e, S) = e[a] + Total(e, S \ {a})
  BY TotalRemove
<1>4. /\ Total(f, S \ {a}) \in Nat /\ Total(f, S) \in Nat /\ Total(e, S) \in Nat
      /\ f[a] \in Nat /\ e[a] \in Nat
  BY <1>1, TotalNat DEF Amounts
<1> QED
  BY <1>2, <1>3, <1>4

\* Sums of sums.
LEMMA TotalPlus ==
  ASSUME NEW S, IsFiniteSet(S), NEW f, NEW e, NEW g, Amounts(e, S), Amounts(g, S),
         \A x \in S : f[x] = e[x] + g[x]
  PROVE  Total(f, S) = Total(e, S) + Total(g, S)
<1> DEFINE B == {s \in SUBSET S : Total(f, s) # Total(e, s) + Total(g, s)}
<1>1. \A s \in SUBSET S : /\ IsFiniteSet(s) /\ Total(e, s) \in Nat /\ Total(g, s) \in Nat
  BY FS_Subset, TotalNat DEF Amounts
<1>2. B = {}
  <2> SUFFICES ASSUME B # {} PROVE FALSE
    OBVIOUS
  <2>1. PICK s \in B : \A t \in B : Cardinality(s) <= Cardinality(t)
    BY <1>1, SmallestSet
  <2>2. s \in SUBSET S /\ Total(f, s) # Total(e, s) + Total(g, s)
    BY <2>1
  <2>3. s # {}
    BY <2>2, TotalOfNone
  <2> DEFINE r == s \ {One(s)}
  <2>4. /\ One(s) \in s /\ r \in SUBSET S
        /\ Cardinality(r) = Cardinality(s) - 1 /\ Cardinality(s) \in Nat
    BY <1>1, <2>2, <2>3, OneLess
  <2>5. r \notin B
    BY <2>1, <2>4
  <2>6. /\ Total(f, s) = f[One(s)] + Total(f, r)
        /\ Total(e, s) = e[One(s)] + Total(e, r)
        /\ Total(g, s) = g[One(s)] + Total(g, r)
    BY <1>1, <2>2, <2>3, TotalStep
  <2>7. /\ f[One(s)] = e[One(s)] + g[One(s)] /\ e[One(s)] \in Nat /\ g[One(s)] \in Nat
        /\ Total(e, r) \in Nat /\ Total(g, r) \in Nat
    BY <1>1, <2>2, <2>4 DEF Amounts
  <2>8. Total(f, r) = Total(e, r) + Total(g, r)
    BY <2>4, <2>5
  <2> QED
    BY <2>2, <2>6, <2>7, <2>8
<1> QED
  BY <1>2

\* What is zero adds nothing.
LEMMA TotalBelow ==
  ASSUME NEW S, IsFiniteSet(S), NEW f, Amounts(f, S), NEW T \in SUBSET S,
         \A x \in S \ T : f[x] = 0
  PROVE  Total(f, T) = Total(f, S)
<1> DEFINE B == {s \in SUBSET S : T \subseteq s /\ Total(f, T) # Total(f, s)}
<1>1. \A s \in SUBSET S : IsFiniteSet(s) /\ Amounts(f, s) /\ Total(f, s) \in Nat
  BY FS_Subset, TotalNat DEF Amounts
<1>2. B = {}
  <2> SUFFICES ASSUME B # {} PROVE FALSE
    OBVIOUS
  <2>1. PICK s \in B : \A t \in B : Cardinality(s) <= Cardinality(t)
    BY <1>1, SmallestSet
  <2>2. s \in SUBSET S /\ T \subseteq s /\ Total(f, T) # Total(f, s)
    BY <2>1
  <2>3. PICK x \in s : x \notin T
    BY <2>2
  <2>4. Total(f, s) = f[x] + Total(f, s \ {x}) /\ f[x] = 0
    BY <1>1, <2>2, <2>3, TotalRemove
  <2>5. Cardinality(s \ {x}) = Cardinality(s) - 1 /\ Cardinality(s) \in Nat
    BY <1>1, <2>2, FS_RemoveElement, FS_CardinalityType
  <2>6. s \ {x} \notin B
    <3> HIDE DEF B
    <3> SUFFICES ASSUME s \ {x} \in B PROVE FALSE
      OBVIOUS
    <3>1. Cardinality(s) <= Cardinality(s \ {x})
      BY <2>1
    <3> QED
      BY <2>5, <3>1
  <2>7. Total(f, s \ {x}) \in Nat /\ Total(f, T) = Total(f, s \ {x})
    BY <1>1, <2>2, <2>3, <2>6
  <2> QED
    BY <2>2, <2>4, <2>7
<1> QED
  BY <1>2

\* A member's amount is part of the sum.
LEMMA TotalSmall ==
  ASSUME NEW f, NEW a
  PROVE  /\ Total(f, {}) = 0
         /\ f[a] \in Nat => Total(f, {a}) = f[a]
<1>1. Total(f, {}) = 0
  BY TotalOfNone
<1>2. ASSUME f[a] \in Nat PROVE Total(f, {a}) = f[a]
  <2>1. Total(f, {a}) = f[a] + Total(f, {a} \ {a})
    BY <1>2, FS_Singleton, TotalRemove DEF Amounts
  <2>2. {a} \ {a} = {}
    OBVIOUS
  <2> QED
    BY <1>1, <1>2, <2>1, <2>2
<1> QED
  BY <1>1, <1>2

\* A sum over the places of a sequence without its first one, by the places of
\* its tail.
LEMMA TotalShift ==
  ASSUME NEW n \in Nat, NEW f, NEW g, Amounts(f, 1..n + 1), \A i \in 1..n : g[i] = f[i + 1]
  PROVE  Total(f, 1..n + 1) = f[1] + Total(g, 1..n)
<1> DEFINE N == {k \in 0..n : Total(f, 1..k + 1) # f[1] + Total(g, 1..k)}
<1>0. ASSUME NEW k \in 0..n
      PROVE  /\ IsFiniteSet(1..k + 1) /\ IsFiniteSet(1..k)
             /\ Amounts(f, 1..k + 1) /\ Amounts(g, 1..k)
  <2>1. /\ IsFiniteSet(1..k + 1) /\ IsFiniteSet(1..k)
    BY FS_Interval
  <2>2. 1..k + 1 \subseteq 1..n + 1 /\ \A i \in 1..k : i \in 1..n /\ i + 1 \in 1..n + 1
    OBVIOUS
  <2> QED
    BY <2>1, <2>2 DEF Amounts
<1>1. N = {}
  <2> SUFFICES ASSUME N # {} PROVE FALSE
    OBVIOUS
  <2>0. N \in SUBSET Nat
    OBVIOUS
  <2>1. PICK k \in N : \A m \in N : k <= m
    <3> HIDE DEF N
    <3> QED
      BY <2>0, LeastNumber
  <2>2. k \in 0..n /\ Total(f, 1..k + 1) # f[1] + Total(g, 1..k)
    BY <2>1
  <2>3. k # 0
    <3> SUFFICES ASSUME k = 0 PROVE FALSE
      OBVIOUS
    <3>1. 1..k + 1 = {1} /\ 1..k = {} /\ f[1] \in Nat
      BY DEF Amounts
    <3>2. Total(f, {1}) = f[1] /\ Total(g, {}) = 0
      BY <3>1, TotalSmall
    <3> QED
      BY <2>2, <3>1, <3>2
  <2>4. /\ k - 1 \in 0..n /\ k \in 1..n /\ (k - 1) + 1 = k /\ k + 1 \in 1..k + 1
    BY <2>2, <2>3
  <2>5. k - 1 \notin N
    <3> HIDE DEF N
    <3> SUFFICES ASSUME k - 1 \in N PROVE FALSE
      OBVIOUS
    <3> QED
      BY <2>1, <2>2
  <2>6. Total(f, 1..k) = f[1] + Total(g, 1..k - 1)
    BY <2>4, <2>5
  <2>7. Total(f, 1..k + 1) = f[k + 1] + Total(f, 1..k)
    <3>1. (1..k + 1) \ {k + 1} = 1..k
      BY <2>2
    <3>2. Total(f, 1..k + 1) = f[k + 1] + Total(f, (1..k + 1) \ {k + 1})
      BY <1>0, <2>2, <2>4, TotalRemove
    <3> QED
      BY <3>1, <3>2
  <2>8. Total(g, 1..k) = g[k] + Total(g, 1..k - 1)
    <3>1. (1..k) \ {k} = 1..k - 1 /\ k \in 1..k
      BY <2>4
    <3>2. IsFiniteSet(1..k) /\ Amounts(g, 1..k)
      BY <1>0, <2>2
    <3>3. Total(g, 1..k) = g[k] + Total(g, (1..k) \ {k})
      BY <3>1, <3>2, TotalRemove
    <3> QED
      BY <3>1, <3>3
  <2>9. g[k] = f[k + 1] /\ g[k] \in Nat /\ f[1] \in Nat /\ Total(g, 1..k - 1) \in Nat
    <3>1. IsFiniteSet(1..k - 1) /\ Amounts(g, 1..k - 1)
      BY <1>0, <2>2, <2>4, FS_Interval DEF Amounts
    <3>2. Total(g, 1..k - 1) \in Nat
      BY <3>1, TotalNat
    <3>3. g[k] = f[k + 1] /\ k \in 1..k /\ 1 \in 1..n + 1
      BY <2>4
    <3>4. g[k] \in Nat /\ f[1] \in Nat
      BY <1>0, <2>2, <3>3 DEF Amounts
    <3> QED
      BY <3>2, <3>3, <3>4
  <2> QED
    BY <2>2, <2>6, <2>7, <2>8, <2>9
<1> QED
  BY <1>1

\* The bytes of a lane, as a sum.
Charges(q) == [i \in DOMAIN q |-> q[i].charge]
LEMMA QueueBytesIs ==
  ASSUME NEW q \in Seq(Item)
  PROVE  /\ QueueBytes(q) = Total(Charges(q), DOMAIN q)
         /\ IsFiniteSet(DOMAIN q) /\ DOMAIN q = 1..Len(q) /\ Len(q) \in Nat
         /\ Amounts(Charges(q), DOMAIN q) /\ QueueBytes(q) \in Nat
<1> DEFINE f == Charges(q)
           D == DOMAIN q
           IsFold(g) == g = [s \in SUBSET D |->
                              IF s = {} THEN 0
                              ELSE q[CHOOSE x \in s : TRUE].charge
                                     + g[s \ {CHOOSE x \in s : TRUE}]]
<1>0. IsFiniteSet(D) /\ D = 1..Len(q) /\ Len(q) \in Nat
  BY FS_Interval
<1>1. QueueBytes(q) = (CHOOSE g : IsFold(g))[D]
  BY DEF QueueBytes, MapThenSumSet, MapThenFoldSet
<1>2. \A s \in SUBSET D : s # {} => f[One(s)] = q[CHOOSE x \in s : TRUE].charge
  BY DEF One, Charges
<1>3. \A g : IsFold(g) <=> IsSum(g, f, D)
  BY <1>2 DEF IsSum, Partial, One
<1>4. \E g : IsSum(g, f, D)
  BY <1>0, SumExists
<1>5. QueueBytes(q) = Total(f, D)
  BY <1>1, <1>3, <1>4 DEF Total
<1>6. Amounts(f, D)
  <2>1. \A i \in D : q[i] \in Item
    OBVIOUS
  <2> QED
    BY <2>1 DEF Amounts, Charges, Item
<1>7. Total(f, D) \in Nat
  BY <1>0, <1>6, TotalNat
<1> QED
  BY <1>0, <1>5, <1>6, <1>7

\* A packet more at the end, one less at the front.
LEMMA QueueBytesChange ==
  ASSUME NEW q \in Seq(Item)
  PROVE  /\ q = <<>> => QueueBytes(q) = 0
         /\ \A pkt \in Item : QueueBytes(Append(q, pkt)) = QueueBytes(q) + pkt.charge
         /\ q # <<>> => /\ QueueBytes(q) = QueueBytes(Tail(q)) + Head(q).charge
                        /\ QueueBytes(Tail(q)) \in Nat /\ Head(q) \in Item
<1>1. ASSUME q = <<>> PROVE QueueBytes(q) = 0
  <2>1. DOMAIN q = {}
    BY <1>1
  <2> QED
    BY <2>1, QueueBytesIs, TotalOfNone
<1>2. ASSUME NEW pkt \in Item PROVE QueueBytes(Append(q, pkt)) = QueueBytes(q) + pkt.charge
  <2> DEFINE r == Append(q, pkt)
             n == Len(q)
  <2>1. r \in Seq(Item) /\ n \in Nat /\ Len(r) = n + 1 /\ r[n + 1] = pkt
        /\ \A i \in 1..n : r[i] = q[i]
    OBVIOUS
  <2>2. /\ DOMAIN r = 1..n + 1 /\ DOMAIN q = 1..n
    BY <2>1
  <2> HIDE DEF r, n
  <2>7. n + 1 \in DOMAIN r /\ DOMAIN r \ {n + 1} = DOMAIN q
    BY <2>1, <2>2
  <2>8. /\ QueueBytes(r) = Total(Charges(r), DOMAIN r)
        /\ IsFiniteSet(DOMAIN r) /\ Amounts(Charges(r), DOMAIN r)
    BY <2>1, QueueBytesIs
  <2>3. QueueBytes(r) = Charges(r)[n + 1] + Total(Charges(r), DOMAIN q)
    <3>1. Total(Charges(r), DOMAIN r)
            = Charges(r)[n + 1] + Total(Charges(r), DOMAIN r \ {n + 1})
      BY <2>7, <2>8, TotalRemove
    <3> QED
      BY <2>7, <2>8, <3>1
  <2>4. Charges(r)[n + 1] = pkt.charge /\ \A i \in DOMAIN q : Charges(r)[i] = Charges(q)[i]
    BY <2>1, <2>2, <2>7 DEF Charges
  <2>5. Total(Charges(r), DOMAIN q) = QueueBytes(q) /\ QueueBytes(q) \in Nat
    BY <2>4, QueueBytesIs, TotalSame
  <2>6. pkt.charge \in Nat
    BY DEF Item
  <2> QED
    BY <2>3, <2>4, <2>5, <2>6 DEF r
<1>3. ASSUME q # <<>>
      PROVE  /\ QueueBytes(q) = QueueBytes(Tail(q)) + Head(q).charge
             /\ QueueBytes(Tail(q)) \in Nat /\ Head(q) \in Item
  <2> DEFINE r == Tail(q)
             n == Len(r)
  <2>1. /\ r \in Seq(Item) /\ n \in Nat /\ Len(q) = n + 1 /\ Head(q) = q[1] /\ q[1] \in Item
        /\ \A i \in 1..n : r[i] = q[i + 1]
    BY <1>3, TailFacts
  <2>2. DOMAIN q = 1..n + 1 /\ DOMAIN r = 1..n
    BY <2>1
  <2> HIDE DEF r, n
  <2>3. Amounts(Charges(q), 1..n + 1) /\ \A i \in 1..n : Charges(r)[i] = Charges(q)[i + 1]
    <3>1. Amounts(Charges(q), 1..n + 1)
      BY <2>2, QueueBytesIs
    <3>2. \A i \in 1..n : i \in DOMAIN r /\ i + 1 \in DOMAIN q
      BY <2>1, <2>2
    <3> QED
      BY <2>1, <3>1, <3>2 DEF Charges
  <2>4. Total(Charges(q), 1..n + 1) = Charges(q)[1] + Total(Charges(r), 1..n)
    BY <2>1, <2>3, TotalShift
  <2>5. Charges(q)[1] = Head(q).charge /\ Head(q).charge \in Nat
    BY <2>1, <2>2 DEF Charges, Item
  <2>6. /\ QueueBytes(q) = Total(Charges(q), 1..n + 1)
        /\ QueueBytes(r) = Total(Charges(r), 1..n) /\ QueueBytes(r) \in Nat
    BY <2>1, <2>2, QueueBytesIs
  <2> QED
    BY <2>1, <2>4, <2>5, <2>6 DEF r
<1> QED
  BY <1>1, <1>2, <1>3
-----------------------------------------------------------------------------
(* The books.  Work(a), the packets and bytes a target waits for or is being *)
(* sent, from the lane and the one worker that may be sending for it.        *)

\* The sums of Accounting and of Stop are sums of amounts.
LEMMA WorkIsSum ==
  \A F : (\A a \in Targets : F[a] = WorkOf(a)) => Work = Total(F, Targets)
<1> SUFFICES ASSUME NEW F, \A a \in Targets : F[a] = WorkOf(a)
             PROVE  Work = Total(F, Targets)
  OBVIOUS
<1> DEFINE f == [a \in Targets |-> WorkOf(a)]
           IsFold(g) == g = [s \in SUBSET Targets |->
                              IF s = {} THEN 0
                              ELSE WorkOf(CHOOSE x \in s : TRUE)
                                     + g[s \ {CHOOSE x \in s : TRUE}]]
<1>1. Work = (CHOOSE g : IsFold(g))[Targets]
  BY DEF Work, MapThenSumSet, MapThenFoldSet
<1>2. \A g : IsFold(g) <=> IsSum(g, f, Targets)
  BY DEF IsSum, Partial, One
<1>3. \E g : IsSum(g, f, Targets)
  BY QueueAssumption, SumExists
<1>4. Work = Total(f, Targets)
  BY <1>1, <1>2, <1>3 DEF Total
<1>5. Total(f, Targets) = Total(F, Targets)
  BY QueueAssumption, TotalSame
<1> QED
  BY <1>4, <1>5

\* The same of the bytes.
LEMMA WorkBytesIsSum ==
  \A F : (\A a \in Targets : F[a] = WorkBytesOf(a)) => WorkBytes = Total(F, Targets)
<1> SUFFICES ASSUME NEW F, \A a \in Targets : F[a] = WorkBytesOf(a)
             PROVE  WorkBytes = Total(F, Targets)
  OBVIOUS
<1> DEFINE f == [a \in Targets |-> WorkBytesOf(a)]
           IsFold(g) == g = [s \in SUBSET Targets |->
                              IF s = {} THEN 0
                              ELSE WorkBytesOf(CHOOSE x \in s : TRUE)
                                     + g[s \ {CHOOSE x \in s : TRUE}]]
<1>1. WorkBytes = (CHOOSE g : IsFold(g))[Targets]
  BY DEF WorkBytes, MapThenSumSet, MapThenFoldSet
<1>2. \A g : IsFold(g) <=> IsSum(g, f, Targets)
  BY DEF IsSum, Partial, One
<1>3. \E g : IsSum(g, f, Targets)
  BY QueueAssumption, SumExists
<1>4. WorkBytes = Total(f, Targets)
  BY <1>1, <1>2, <1>3 DEF Total
<1>5. Total(f, Targets) = Total(F, Targets)
  BY QueueAssumption, TotalSame
<1> QED
  BY <1>4, <1>5

\* What Stop takes off the counters.
LEMMA QueuedAreSums ==
  ASSUME NEW S \in SUBSET Targets
  PROVE  /\ QueuedPackets(S) = Total([a \in Targets |-> Len(queue[a])], S)
         /\ QueuedBytes(S) = Total([a \in Targets |-> QueueBytes(queue[a])], S)
<1>0. IsFiniteSet(S)
  BY QueueAssumption, FS_Subset
<1>1. QueuedPackets(S) = Total([a \in Targets |-> Len(queue[a])], S)
  <2> DEFINE f == [a \in Targets |-> Len(queue[a])]
             IsFold(g) == g = [s \in SUBSET S |->
                                IF s = {} THEN 0
                                ELSE Len(queue[CHOOSE x \in s : TRUE])
                                       + g[s \ {CHOOSE x \in s : TRUE}]]
  <2>1. QueuedPackets(S) = (CHOOSE g : IsFold(g))[S]
    BY DEF QueuedPackets, MapThenSumSet, MapThenFoldSet
  <2>2. \A g : IsFold(g) <=> IsSum(g, f, S)
    BY DEF IsSum, Partial, One
  <2>3. \E g : IsSum(g, f, S)
    BY <1>0, SumExists
  <2> QED
    BY <2>1, <2>2, <2>3 DEF Total
<1>2. QueuedBytes(S) = Total([a \in Targets |-> QueueBytes(queue[a])], S)
  <2> DEFINE f == [a \in Targets |-> QueueBytes(queue[a])]
             IsFold(g) == g = [s \in SUBSET S |->
                                IF s = {} THEN 0
                                ELSE QueueBytes(queue[CHOOSE x \in s : TRUE])
                                       + g[s \ {CHOOSE x \in s : TRUE}]]
  <2>1. QueuedBytes(S) = (CHOOSE g : IsFold(g))[S]
    BY DEF QueuedBytes, MapThenSumSet, MapThenFoldSet
  <2>2. \A g : IsFold(g) <=> IsSum(g, f, S)
    BY DEF IsSum, Partial, One
  <2>3. \E g : IsSum(g, f, S)
    BY <1>0, SumExists
  <2> QED
    BY <2>1, <2>2, <2>3 DEF Total
<1> QED
  BY <1>1, <1>2

\* The packet in a target's callback is charged to it; there is at most one.
LEMMA SendingIs ==
  ASSUME NEW a
  PROVE  /\ Sending(a) = {} => Cardinality(Sending(a)) = 0 /\ SendingBytes(a) = 0
         /\ \A w : Sending(a) = {w} /\ item[w].charge \in Nat =>
              Cardinality(Sending(a)) = 1 /\ SendingBytes(a) = item[w].charge
<1> DEFINE S == Sending(a)
           f == [w \in S |-> item[w].charge]
           IsFold(g) == g = [s \in SUBSET S |->
                              IF s = {} THEN 0
                              ELSE item[CHOOSE x \in s : TRUE].charge
                                     + g[s \ {CHOOSE x \in s : TRUE}]]
<1>1. SendingBytes(a) = (CHOOSE g : IsFold(g))[S]
  BY DEF SendingBytes, MapThenSumSet, MapThenFoldSet
<1> HIDE DEF S
<1>2. \A g : IsFold(g) <=> IsSum(g, f, S)
  BY DEF IsSum, Partial, One
<1>3. ASSUME IsFiniteSet(S) PROVE SendingBytes(a) = Total(f, S)
  <2>1. \E g : IsSum(g, f, S)
    BY <1>3, SumExists
  <2> QED
    BY <1>1, <1>2, <2>1 DEF Total
<1>4. ASSUME S = {} PROVE Cardinality(S) = 0 /\ SendingBytes(a) = 0
  <2>1. IsFiniteSet(S) /\ Cardinality(S) = 0
    BY <1>4, FS_EmptySet
  <2>2. Total(f, S) = 0
    BY <1>4, TotalOfNone
  <2> QED
    BY <1>3, <2>1, <2>2
<1>5. ASSUME NEW w, S = {w}, item[w].charge \in Nat
      PROVE  Cardinality(S) = 1 /\ SendingBytes(a) = item[w].charge
  <2>1. IsFiniteSet(S) /\ Cardinality(S) = 1
    BY <1>5, FS_Singleton
  <2>2. f[w] = item[w].charge
    BY <1>5
  <2> HIDE DEF f
  <2>3. Total(f, {w}) = f[w]
    BY <1>5, <2>2, TotalSmall
  <2> QED
    BY <1>3, <1>5, <2>1, <2>2, <2>3
<1> QED
  BY <1>4, <1>5 DEF S

\* No callback of this target is running.
Idle(a) == \A w \in Pool : ~(pc[w] \in InCallback /\ hand[w] = a)

\* The work of a target: what waits, and the packet in its callback.
WorkFacts(a) ==
  /\ Len(queue[a]) \in Nat /\ QueueBytes(queue[a]) \in Nat
  /\ WorkOf(a) \in Nat /\ WorkBytesOf(a) \in Nat
  /\ Idle(a) => /\ WorkOf(a) = Len(queue[a])
                /\ WorkBytesOf(a) = QueueBytes(queue[a])
  /\ \A w \in Pool : pc[w] \in InCallback /\ hand[w] = a =>
       /\ WorkOf(a) = Len(queue[a]) + 1
       /\ WorkBytesOf(a) = QueueBytes(queue[a]) + item[w].charge

\* Every target's work, since callbacks of one target never overlap.
LEMMA LaneWork == TypeOK /\ LaneExclusive => \A a \in Targets : WorkFacts(a)
<1> SUFFICES ASSUME TypeOK, LaneExclusive, NEW a \in Targets PROVE WorkFacts(a)
  OBVIOUS
<1>1. queue[a] \in Seq(Item)
  BY DEF TypeOK
<1>2. Len(queue[a]) \in Nat /\ QueueBytes(queue[a]) \in Nat
  BY <1>1, QueueBytesIs
<1>3. ASSUME Idle(a)
      PROVE  /\ WorkOf(a) = Len(queue[a]) /\ WorkBytesOf(a) = QueueBytes(queue[a])
  <2>1. Sending(a) = {}
    BY <1>3 DEF Idle, Sending
  <2>2. Cardinality(Sending(a)) = 0 /\ SendingBytes(a) = 0
    BY <2>1, SendingIs
  <2> QED
    BY <1>2, <2>2 DEF WorkOf, WorkBytesOf
<1>4. ASSUME NEW w \in Pool, pc[w] \in InCallback, hand[w] = a
      PROVE  /\ WorkOf(a) = Len(queue[a]) + 1
             /\ WorkBytesOf(a) = QueueBytes(queue[a]) + item[w].charge
             /\ item[w].charge \in Nat
  <2>1. Sending(a) = {w}
    BY <1>4 DEF Sending, LaneExclusive
  <2>2. item[w].charge \in Nat
    BY DEF TypeOK, Item
  <2>3. Cardinality(Sending(a)) = 1 /\ SendingBytes(a) = item[w].charge
    BY <2>1, <2>2, SendingIs
  <2> QED
    BY <2>2, <2>3 DEF WorkOf, WorkBytesOf
<1>5. WorkOf(a) \in Nat /\ WorkBytesOf(a) \in Nat
  BY <1>2, <1>3, <1>4 DEF Idle
<1> QED
  BY <1>2, <1>3, <1>4, <1>5 DEF WorkFacts

\* The same of the state after a step.
LEMMA LaneWorkNext == TypeOK' /\ LaneExclusive' => \A a \in Targets : WorkFacts(a)'
<1>1. (TypeOK /\ LaneExclusive => \A a \in Targets : WorkFacts(a))'
  BY LaneWork, PTL
<1> QED
  BY <1>1

\* And of the sums.
LEMMA SumsNext ==
  /\ \A F : (\A a \in Targets : F[a] = WorkOf(a)') => Work' = Total(F, Targets)
  /\ \A F : (\A a \in Targets : F[a] = WorkBytesOf(a)')
              => WorkBytes' = Total(F, Targets)
<1>1. (\A F : (\A a \in Targets : F[a] = WorkOf(a)) => Work = Total(F, Targets))'
  BY WorkIsSum, PTL
<1>2. (\A F : (\A a \in Targets : F[a] = WorkBytesOf(a))
                => WorkBytes = Total(F, Targets))'
  BY WorkBytesIsSum, PTL
<1> QED
  BY <1>1, <1>2

\* What the work of a target is counted from.
Held == TypeOK /\ LaneExclusive

\* The limits on one target's work.
LEMMA TargetLimits ==
  /\ maxTargetPackets \in Nat \ {0} /\ TargetMaxBytes \in Nat
  /\ QueueMaxBytes \in Nat \ {0} /\ maxPackets \in Nat \ {0}
<1>1. maxPackets \in Nat \ {0} /\ QueueMaxBytes \in Nat \ {0}
  BY LimitsNat, QueueAssumption
<1>2. \A n \in Nat : n \div 2 \in Nat /\ n % 2 \in {0, 1} /\ n = 2 * (n \div 2) + (n % 2)
  OBVIOUS
<1> QED
  BY <1>1, <1>2 DEF maxTargetPackets, TargetMaxBytes

\* The books balance after a step that changes the work of one target, the
\* counters and that target's charge by the same amounts, within the limits.
LEMMA BooksChange ==
  ASSUME Held, Held', BudgetInv, NEW a \in Targets, NEW n \in Int, NEW m \in Int,
         \A b \in Targets : b # a =>
           /\ WorkOf(b)' = WorkOf(b) /\ WorkBytesOf(b)' = WorkBytesOf(b)
           /\ used'[b] = used[b] /\ (b \in keys' <=> b \in keys),
         WorkOf(a)' = WorkOf(a) + n, WorkBytesOf(a)' = WorkBytesOf(a) + m,
         packets' = packets + n, bytes' = bytes + m,
         used' \in [Targets -> [packets : Int, bytes : Int]],
         a \in keys' => used'[a].packets = WorkOf(a)' /\ used'[a].bytes = WorkBytesOf(a)',
         a \notin keys' => WorkOf(a)' = 0,
         packets' <= maxPackets, bytes' <= QueueMaxBytes,
         WorkOf(a)' <= maxTargetPackets, WorkBytesOf(a)' <= TargetMaxBytes
  PROVE  BudgetInv'
<1> DEFINE f == [b \in Targets |-> WorkOf(b)]
           e == [b \in Targets |-> WorkOf(b)']
           h == [b \in Targets |-> WorkBytesOf(b)]
           k == [b \in Targets |-> WorkBytesOf(b)']
<1>1. \A b \in Targets : /\ WorkOf(b) \in Nat /\ WorkBytesOf(b) \in Nat
                         /\ WorkOf(b)' \in Nat /\ WorkBytesOf(b)' \in Nat
  BY LaneWork, LaneWorkNext DEF Held, WorkFacts
<1>2. \A b \in Targets : /\ f[b] = WorkOf(b) /\ h[b] = WorkBytesOf(b)
                         /\ e[b] = WorkOf(b)' /\ k[b] = WorkBytesOf(b)'
  OBVIOUS
<1> HIDE DEF f, e, h, k
<1>3. /\ Work = Total(f, Targets) /\ WorkBytes = Total(h, Targets)
      /\ Work' = Total(e, Targets) /\ WorkBytes' = Total(k, Targets)
  BY <1>2, WorkIsSum, WorkBytesIsSum, SumsNext
<1>4. /\ Amounts(f, Targets) /\ Amounts(e, Targets)
      /\ Amounts(h, Targets) /\ Amounts(k, Targets)
  BY <1>1, <1>2 DEF Amounts
<1>5. Total(e, Targets) = Total(f, Targets) - f[a] + e[a] /\ Total(f, Targets) \in Nat
  BY <1>2, <1>4, QueueAssumption, TotalChange
<1>6. Total(k, Targets) = Total(h, Targets) - h[a] + k[a] /\ Total(h, Targets) \in Nat
  BY <1>2, <1>4, QueueAssumption, TotalChange
<1>7. packets = Work /\ bytes = WorkBytes
  BY DEF BudgetInv, Budget, Accounting
<1>8. packets' = Work' /\ bytes' = WorkBytes'
  BY <1>1, <1>2, <1>3, <1>5, <1>6, <1>7
<1>9. \A b \in Targets : /\ b \in keys' => /\ used'[b].packets = WorkOf(b)'
                                            /\ used'[b].bytes = WorkBytesOf(b)'
                         /\ b \notin keys' => WorkOf(b)' = 0
  BY DEF BudgetInv, Budget, Accounting
<1>10. Accounting'
  <2>1. keys' \in SUBSET Targets
    BY DEF Held, TypeOK
  <2> QED
    BY <1>8, <1>9, <2>1 DEF Accounting
<1>11. \A b \in Targets : /\ WorkOf(b)' <= maxTargetPackets
                          /\ WorkBytesOf(b)' <= TargetMaxBytes
  BY DEF BudgetInv, Budget
<1> QED
  BY <1>8, <1>10, <1>11 DEF BudgetInv, Budget

\* The counters are naturals.
LEMMA CountersNat ==
  ASSUME Held, BudgetInv
  PROVE  /\ packets \in Nat /\ bytes \in Nat /\ packets = Work /\ bytes = WorkBytes
<1> DEFINE f == [b \in Targets |-> WorkOf(b)]
           h == [b \in Targets |-> WorkBytesOf(b)]
<1>1. Amounts(f, Targets) /\ Amounts(h, Targets)
  BY LaneWork DEF Held, WorkFacts, Amounts
<1>2. Work = Total(f, Targets) /\ WorkBytes = Total(h, Targets)
  BY WorkIsSum, WorkBytesIsSum
<1>3. Work \in Nat /\ WorkBytes \in Nat
  BY <1>1, <1>2, QueueAssumption, TotalNat
<1> QED
  BY <1>3 DEF BudgetInv, Budget, Accounting

\* A step that changes no target's work and no counter.
LEMMA BooksSame ==
  ASSUME Held, Held', BudgetInv, UNCHANGED <<keys, used, packets, bytes>>,
         \A b \in Targets : /\ WorkOf(b)' = WorkOf(b)
                            /\ WorkBytesOf(b)' = WorkBytesOf(b)
  PROVE  BudgetInv'
<1>1. PICK a \in Targets : TRUE
  BY QueueAssumption
<1>2. /\ packets \in Nat /\ bytes \in Nat
      /\ WorkOf(a) \in Nat /\ WorkBytesOf(a) \in Nat
  BY CountersNat, LaneWork DEF Held, WorkFacts
<1>3. /\ WorkOf(a)' = WorkOf(a) + 0 /\ WorkBytesOf(a)' = WorkBytesOf(a) + 0
      /\ packets' = packets + 0 /\ bytes' = bytes + 0
  BY <1>2
<1>4. /\ used' \in [Targets -> [packets : Int, bytes : Int]]
      /\ packets' <= maxPackets /\ bytes' <= QueueMaxBytes
      /\ WorkOf(a)' <= maxTargetPackets /\ WorkBytesOf(a)' <= TargetMaxBytes
      /\ a \in keys' => used'[a].packets = WorkOf(a)' /\ used'[a].bytes = WorkBytesOf(a)'
      /\ a \notin keys' => WorkOf(a)' = 0
  BY <1>2 DEF BudgetInv, Budget, Accounting
<1>5. \A b \in Targets : b # a =>
           /\ WorkOf(b)' = WorkOf(b) /\ WorkBytesOf(b)' = WorkBytesOf(b)
           /\ used'[b] = used[b] /\ (b \in keys' <=> b \in keys)
  OBVIOUS
<1> QED
  BY <1>3, <1>4, <1>5, BooksChange

\* Stop takes exactly the waiting packets off the books; a lane in a callback
\* stays open with that packet charged to it.
LEMMA BooksStop ==
  ASSUME Held, Held', BudgetInv, ActiveInv, Stop,
         hand' = hand, item' = item,
         \A w \in Pool : pc'[w] \in InCallback <=> pc[w] \in InCallback
  PROVE  BudgetInv'
<1> DEFINE f == [b \in Targets |-> WorkOf(b)]
           e == [b \in Targets |-> WorkOf(b)']
           h == [b \in Targets |-> WorkBytesOf(b)]
           k == [b \in Targets |-> WorkBytesOf(b)']
           p == [b \in Targets |-> Len(queue[b])]
           q == [b \in Targets |-> QueueBytes(queue[b])]
<1>1. /\ \A b \in Targets : WorkFacts(b)
      /\ \A b \in Targets : WorkFacts(b)'
  BY LaneWork, LaneWorkNext DEF Held
<1>2. ASSUME NEW b \in Targets
      PROVE  /\ queue[b] \in Seq(Item) /\ queue'[b] = <<>>
             /\ b \notin keys => Len(queue[b]) = 0 /\ QueueBytes(queue[b]) = 0
  <2>1. queue[b] \in Seq(Item)
    BY DEF Held, TypeOK
  <2>2. b \notin keys => Len(queue[b]) = 0
    <3> SUFFICES ASSUME b \notin keys PROVE Len(queue[b]) = 0
      OBVIOUS
    <3>1. WorkOf(b) = 0
      BY DEF BudgetInv, Budget, Accounting
    <3>2. WorkOf(b) = Len(queue[b]) \/ WorkOf(b) = Len(queue[b]) + 1
      BY <1>1 DEF WorkFacts, Idle
    <3>3. Len(queue[b]) \in Nat
      BY <1>1 DEF WorkFacts
    <3> QED
      BY <3>1, <3>2, <3>3
  <2>3. b \notin keys => queue[b] = <<>>
    BY <2>1, <2>2
  <2>4. b \notin keys => QueueBytes(queue[b]) = 0
    BY <2>1, <2>3, QueueBytesChange
  <2>5. queue'[b] = <<>>
    BY <2>3 DEF Stop
  <2> QED
    BY <2>1, <2>2, <2>4, <2>5
<1>3. ASSUME NEW b \in Targets
      PROVE  /\ WorkOf(b)' \in Nat /\ WorkBytesOf(b)' \in Nat
             /\ WorkOf(b) \in Nat /\ WorkBytesOf(b) \in Nat
             /\ Len(queue[b]) \in Nat /\ QueueBytes(queue[b]) \in Nat
             /\ WorkOf(b) = WorkOf(b)' + Len(queue[b])
             /\ WorkBytesOf(b) = WorkBytesOf(b)' + QueueBytes(queue[b])
             /\ ~active[b] => WorkOf(b)' = 0
  <2>1. Len(queue[b])' = 0 /\ QueueBytes(queue[b])' = 0
    <3>1. queue'[b] = <<>> /\ Len(<<>>) = 0
      BY <1>2
    <3>2. \A s \in Seq(Item) : s = <<>> => QueueBytes(s) = 0
      BY QueueBytesChange
    <3>3. \A s : s = queue'[b] => QueueBytes(queue[b])' = QueueBytes(s)
      OBVIOUS
    <3>4. queue'[b] \in Seq(Item)
      BY DEF Held, TypeOK
    <3> QED
      BY <3>1, <3>2, <3>3, <3>4
  <2>2. CASE Idle(b)
    <3>1. Idle(b)'
      BY <2>2 DEF Idle
    <3> QED
      BY <1>1, <2>1, <2>2, <3>1 DEF WorkFacts
  <2>3. ASSUME NEW w \in Pool, pc[w] \in InCallback, hand[w] = b
        PROVE  /\ WorkOf(b)' \in Nat /\ WorkBytesOf(b)' \in Nat
               /\ WorkOf(b) \in Nat /\ WorkBytesOf(b) \in Nat
               /\ Len(queue[b]) \in Nat /\ QueueBytes(queue[b]) \in Nat
               /\ WorkOf(b) = WorkOf(b)' + Len(queue[b])
               /\ WorkBytesOf(b) = WorkBytesOf(b)' + QueueBytes(queue[b])
               /\ ~active[b] => WorkOf(b)' = 0
    <3>1. pc'[w] \in InCallback /\ hand'[w] = b /\ item'[w] = item[w]
      BY <2>3
    <3>2. active[b]
      BY <2>3 DEF ActiveInv
    <3>3. item[w].charge \in Nat
      BY <2>3 DEF Held, TypeOK, Item
    <3>4. /\ WorkOf(b) = Len(queue[b]) + 1
          /\ WorkBytesOf(b) = QueueBytes(queue[b]) + item[w].charge
      BY <1>1, <2>3 DEF WorkFacts
    <3>5. /\ WorkOf(b)' = Len(queue[b])' + 1
          /\ WorkBytesOf(b)' = QueueBytes(queue[b])' + item[w].charge
      BY <1>1, <3>1 DEF WorkFacts
    <3>6. /\ WorkOf(b)' \in Nat /\ WorkBytesOf(b)' \in Nat
          /\ WorkOf(b) \in Nat /\ WorkBytesOf(b) \in Nat
          /\ Len(queue[b]) \in Nat /\ QueueBytes(queue[b]) \in Nat
      BY <1>1 DEF WorkFacts
    <3> QED
      BY <2>1, <3>2, <3>3, <3>4, <3>5, <3>6
  <2> QED
    BY <2>2, <2>3 DEF Idle
<1>4. \A b \in Targets : /\ f[b] = WorkOf(b) /\ h[b] = WorkBytesOf(b)
                         /\ e[b] = WorkOf(b)' /\ k[b] = WorkBytesOf(b)'
                         /\ p[b] = Len(queue[b]) /\ q[b] = QueueBytes(queue[b])
  OBVIOUS
<1>5. keys \in SUBSET Targets /\ keys' = {b \in keys : active[b]}
  BY DEF Held, TypeOK, Stop
<1>6. packets' = packets - Total(p, keys) /\ bytes' = bytes - Total(q, keys)
  BY <1>5, QueuedAreSums DEF Stop
<1> HIDE DEF f, e, h, k, p, q
<1>7. /\ Work = Total(f, Targets) /\ WorkBytes = Total(h, Targets)
      /\ Work' = Total(e, Targets) /\ WorkBytes' = Total(k, Targets)
  BY <1>4, WorkIsSum, WorkBytesIsSum, SumsNext
<1>8. /\ Amounts(f, Targets) /\ Amounts(e, Targets) /\ Amounts(p, Targets)
      /\ Amounts(h, Targets) /\ Amounts(k, Targets) /\ Amounts(q, Targets)
  BY <1>3, <1>4 DEF Amounts
<1>9. Total(f, Targets) = Total(e, Targets) + Total(p, Targets)
  <2>1. \A b \in Targets : f[b] = e[b] + p[b]
    BY <1>3, <1>4
  <2> QED
    BY <1>8, <2>1, QueueAssumption, TotalPlus
<1>10. Total(h, Targets) = Total(k, Targets) + Total(q, Targets)
  <2>1. \A b \in Targets : h[b] = k[b] + q[b]
    BY <1>3, <1>4
  <2> QED
    BY <1>8, <2>1, QueueAssumption, TotalPlus
<1>11. Total(p, keys) = Total(p, Targets) /\ Total(q, keys) = Total(q, Targets)
  <2>1. \A b \in Targets \ keys : p[b] = 0 /\ q[b] = 0
    BY <1>2, <1>4
  <2> QED
    BY <1>5, <1>8, <2>1, QueueAssumption, TotalBelow
<1>12. /\ Total(f, Targets) \in Nat /\ Total(e, Targets) \in Nat /\ Total(p, Targets) \in Nat
       /\ Total(h, Targets) \in Nat /\ Total(k, Targets) \in Nat /\ Total(q, Targets) \in Nat
  BY <1>8, QueueAssumption, TotalNat
<1>13. /\ packets = Work /\ bytes = WorkBytes
       /\ Work <= maxPackets /\ WorkBytes <= QueueMaxBytes
  BY DEF BudgetInv, Budget, Accounting
<1>14. /\ packets' = Work' /\ bytes' = WorkBytes'
       /\ Work' <= maxPackets /\ WorkBytes' <= QueueMaxBytes
  BY <1>6, <1>7, <1>9, <1>10, <1>11, <1>12, <1>13, TargetLimits
<1>15. used' \in [Targets -> [packets : Int, bytes : Int]]
  <2>1. \A b \in Targets : Refund(b, used[b]) \in [packets : Int, bytes : Int]
    BY <1>3 DEF Refund, BudgetInv
  <2> QED
    BY <2>1 DEF BudgetInv, Stop
<1>16. \A b \in keys' : /\ used'[b].packets = WorkOf(b)'
                        /\ used'[b].bytes = WorkBytesOf(b)'
  <2> SUFFICES ASSUME NEW b \in keys'
               PROVE  /\ used'[b].packets = WorkOf(b)'
                      /\ used'[b].bytes = WorkBytesOf(b)'
    OBVIOUS
  <2>1. b \in Targets /\ b \in keys
    BY <1>5
  <2>2. used[b].packets = WorkOf(b) /\ used[b].bytes = WorkBytesOf(b)
    BY <2>1 DEF BudgetInv, Budget, Accounting
  <2>3. /\ used'[b].packets = used[b].packets - Len(queue[b])
        /\ used'[b].bytes = used[b].bytes - QueueBytes(queue[b])
    BY <2>1 DEF Stop, Refund
  <2> QED
    BY <1>3, <2>1, <2>2, <2>3
<1>17. \A b \in Targets \ keys' : WorkOf(b)' = 0
  <2> SUFFICES ASSUME NEW b \in Targets, b \notin keys' PROVE WorkOf(b)' = 0
    OBVIOUS
  <2>1. CASE b \in keys
    BY <1>3, <1>5, <2>1
  <2>2. CASE b \notin keys
    <3>1. WorkOf(b) = 0
      BY <2>2 DEF BudgetInv, Budget, Accounting
    <3> QED
      BY <1>3, <3>1
  <2> QED
    BY <2>1, <2>2
<1>18. \A b \in Targets : WorkOf(b)' <= maxTargetPackets /\ WorkBytesOf(b)' <= TargetMaxBytes
  <2> SUFFICES ASSUME NEW b \in Targets
               PROVE  WorkOf(b)' <= maxTargetPackets /\ WorkBytesOf(b)' <= TargetMaxBytes
    OBVIOUS
  <2>1. WorkOf(b) <= maxTargetPackets /\ WorkBytesOf(b) <= TargetMaxBytes
    BY DEF BudgetInv, Budget
  <2> QED
    BY <1>3, <2>1, TargetLimits
<1>19. Accounting'
  BY <1>14, <1>16, <1>17 DEF Accounting
<1> QED
  BY <1>14, <1>15, <1>18, <1>19 DEF BudgetInv, Budget

\* A target whose callback is not touched gains and loses what its lane does.
LEMMA WorkMoves ==
  ASSUME Held, Held', NEW b \in Targets,
         \A w \in Pool : pc'[w] \in InCallback /\ hand'[w] = b
                           <=> pc[w] \in InCallback /\ hand[w] = b,
         \A w \in Pool : pc[w] \in InCallback /\ hand[w] = b => item'[w] = item[w]
  PROVE  /\ WorkOf(b)' = WorkOf(b) - Len(queue[b]) + Len(queue'[b])
         /\ WorkBytesOf(b)' = WorkBytesOf(b) - QueueBytes(queue[b]) + QueueBytes(queue'[b])
         /\ queue'[b] = queue[b] => /\ WorkOf(b)' = WorkOf(b)
                                    /\ WorkBytesOf(b)' = WorkBytesOf(b)
<1>1. WorkFacts(b) /\ WorkFacts(b)'
  BY LaneWork, LaneWorkNext DEF Held
<1>2. /\ Len(queue[b]) \in Nat /\ QueueBytes(queue[b]) \in Nat
      /\ Len(queue'[b]) \in Nat /\ QueueBytes(queue'[b]) \in Nat
      /\ WorkOf(b) \in Nat /\ WorkBytesOf(b) \in Nat
      /\ WorkOf(b)' \in Nat /\ WorkBytesOf(b)' \in Nat
  BY <1>1 DEF WorkFacts
<1>3. CASE Idle(b)
  <2>1. Idle(b)'
    BY <1>3 DEF Idle
  <2> QED
    BY <1>1, <1>2, <1>3, <2>1 DEF WorkFacts
<1>4. CASE ~Idle(b)
  <2>1. PICK w \in Pool : pc[w] \in InCallback /\ hand[w] = b
    BY <1>4 DEF Idle
  <2>2. pc'[w] \in InCallback /\ hand'[w] = b /\ item'[w] = item[w]
    BY <2>1
  <2>3. item[w].charge \in Nat
    BY DEF Held, TypeOK, Item
  <2>4. /\ WorkOf(b) = Len(queue[b]) + 1
        /\ WorkBytesOf(b) = QueueBytes(queue[b]) + item[w].charge
        /\ WorkOf(b)' = Len(queue'[b]) + 1
        /\ WorkBytesOf(b)' = QueueBytes(queue'[b]) + item[w].charge
    BY <1>1, <2>1, <2>2 DEF WorkFacts
  <2> QED
    BY <1>2, <2>3, <2>4
<1> QED
  BY <1>3, <1>4

\* The open, active lanes of the callbacks, and the started workers.
LEMMA ActiveStep ==
  ASSUME TypeOK, PlaceInv, LaneExclusive, ActiveInv, StartedInv, [Next]_vars
  PROVE  ActiveInv' /\ StartedInv'
<1> USE DEF TypeOK, ActiveInv, StartedInv, InCallback, queueVars, workerVars, Goto, PC
<1>0. ASSUME Stop, hand' = hand, workers' = workers, pc' \in [Pool -> PC],
             \A w \in Pool : pc'[w] \in InCallback => pc[w] \in InCallback,
             \A w \in Pool : pc[w] = "none" => pc'[w] = "none"
      PROVE  ActiveInv' /\ StartedInv'
  BY <1>0 DEF Stop
<1>1. ASSUME NEW a \in Targets, NEW size \in Sizes, Enqueue(a, size)
      PROVE  ActiveInv' /\ StartedInv'
  <2>1. /\ keys' = keys \cup {a} /\ hand' = hand
        /\ active' = [active EXCEPT ![a] = a \in keys /\ active[a]]
    BY <1>1 DEF Enqueue, Admit, ChargeTo, OpenLane
  <2>2. \/ UNCHANGED <<workers, pc>>
        \/ workers' = workers + 1 /\ pc' = [pc EXCEPT ![workers + 1] = "select"]
    BY <1>1 DEF Enqueue, StartWorker
  <2>3. \A w \in Pool : pc'[w] \in InCallback => pc[w] \in InCallback
    BY <2>2
  <2>4. ActiveInv'
    <3> SUFFICES ASSUME NEW w \in Pool, pc'[w] \in InCallback
                 PROVE  hand'[w] \in keys' /\ active'[hand'[w]]
      BY DEF ActiveInv
    <3>1. hand[w] \in keys /\ active[hand[w]]
      BY <2>3
    <3> QED
      BY <2>1, <3>1
  <2>5. StartedInv'
    <3>1. workers \in Int /\ \A w \in Pool : w \in Int
      BY LimitsNat DEF Pool
    <3> QED
      BY <2>2, <3>1
  <2> QED
    BY <2>4, <2>5
<1>2. ASSUME NEW w \in Pool, Receive(w) \/ SendReturns(w)
      PROVE  ActiveInv' /\ StartedInv'
  <2>1. CASE Receive(w)
    <3>1. /\ hand' = [hand EXCEPT ![w] = Head(ready)] /\ pc' = [pc EXCEPT ![w] = "got"]
          /\ UNCHANGED <<keys, active, workers>> /\ pc[w] = "select"
      BY <2>1 DEF Receive
    <3> QED
      BY <3>1
  <2>2. CASE SendReturns(w)
    <3>1. \E label \in {"fatal", "finish"} : pc' = [pc EXCEPT ![w] = label]
      BY <2>2 DEF SendReturns
    <3>2. UNCHANGED <<keys, active, workers, hand>> /\ pc[w] = "send"
      BY <2>2 DEF SendReturns
    <3> QED
      BY <3>1, <3>2
  <2> QED
    BY <1>2, <2>1, <2>2
<1>3. ASSUME NEW w \in Pool, QuitOnCancel(w) \/ Abandon(w)
      PROVE  ActiveInv' /\ StartedInv'
  <2>1. /\ Stop /\ hand' = hand /\ workers' = workers
        /\ pc[w] \in {"select", "got"} /\ pc' = [pc EXCEPT ![w] = "exited"]
    BY <1>3 DEF QuitOnCancel, Abandon
  <2> QED
    BY <1>0, <2>1
<1>4. ASSUME NEW w \in Pool, Begin(w)
      PROVE  ActiveInv' /\ StartedInv'
  <2>1. /\ hand[w] \in keys /\ hand' = hand /\ keys' = keys /\ workers' = workers
        /\ active' = [active EXCEPT ![hand[w]] = TRUE]
        /\ pc[w] = "got" /\ pc' = [pc EXCEPT ![w] = "send"]
    BY <1>4 DEF Begin, PlaceInv, Holding
  <2> QED
    BY <2>1
<1>5. ASSUME NEW w \in Pool, Fatal(w)
      PROVE  ActiveInv' /\ StartedInv'
  <2>1. pc[w] = "fatal" /\ pc' = [pc EXCEPT ![w] = "finish"] /\ hand' = hand
        /\ workers' = workers
    BY <1>5 DEF Fatal
  <2>2. Stop \/ UNCHANGED <<keys, active>>
    BY <1>5 DEF Fatal, ReportOnce
  <2>3. CASE Stop
    BY <1>0, <2>1, <2>3
  <2>4. CASE UNCHANGED <<keys, active>>
    BY <2>1, <2>4
  <2> QED
    BY <2>2, <2>3, <2>4
<1>6. ASSUME NEW w \in Pool, Finish(w)
      PROVE  ActiveInv' /\ StartedInv'
  <2>1. /\ pc[w] = "finish" /\ pc' = [pc EXCEPT ![w] = "select"] /\ hand' = hand
        /\ workers' = workers /\ active' = [active EXCEPT ![hand[w]] = FALSE]
        /\ keys' = keys \/ keys' = keys \ {hand[w]}
    BY <1>6 DEF Finish, Retires
  <2>2. \A v \in Pool : pc'[v] \in InCallback =>
          v # w /\ pc[v] \in InCallback /\ hand[v] # hand[w]
    BY <2>1 DEF LaneExclusive
  <2>3. ActiveInv'
    <3> SUFFICES ASSUME NEW v \in Pool, pc'[v] \in InCallback
                 PROVE  hand'[v] \in keys' /\ active'[hand'[v]]
      BY DEF ActiveInv
    <3>1. hand[v] # hand[w] /\ hand[v] \in keys /\ active[hand[v]] /\ hand[v] \in Targets
      BY <2>2
    <3> QED
      BY <2>1, <3>1
  <2>4. StartedInv'
    BY <2>1
  <2> QED
    BY <2>3, <2>4
<1>7. CASE ParentCancel \/ Wait \/ UNCHANGED vars
  BY <1>7 DEF ParentCancel, Wait, vars
<1>8. CASE OwnerStop
  BY <1>0, <1>8 DEF OwnerStop
<1> QED
  BY <1>1, <1>2, <1>3, <1>4, <1>5, <1>6, <1>7, <1>8 DEF Next, Worker

\* The books under Enqueue: one packet and its charge more for one target.
LEMMA BudgetEnqueue ==
  ASSUME Held, Held', ActiveInv, StartedInv, BudgetInv,
         NEW a \in Targets, NEW size \in Sizes, Enqueue(a, size)
  PROVE  BudgetInv'
<1> DEFINE old == IF a \in keys THEN used[a] ELSE NoUse
           c == Charge(size)
<1>1. c \in Nat /\ c >= 1
  BY QueueAssumption DEF Charge
<1>2. /\ hand' = hand /\ item' = item /\ keys' = keys \cup {a}
      /\ packets' = packets + 1 /\ bytes' = bytes + c
      /\ queue' = [queue EXCEPT ![a] = Append(WaitingIn(a), Packet(size))]
      /\ used' = [used EXCEPT ![a] = [packets |-> old.packets + 1, bytes |-> old.bytes + c]]
  BY <1>1 DEF Enqueue, Admit, ChargeTo, OpenLane
<1>3. /\ packets < maxPackets /\ c <= QueueMaxBytes - bytes /\ c <= TargetMaxBytes
      /\ a \in keys => used[a].packets < maxTargetPackets
                       /\ c <= TargetMaxBytes - used[a].bytes
  BY DEF Enqueue, Admits
<1> HIDE DEF c
<1>4. \A w \in Pool : pc'[w] \in InCallback <=> pc[w] \in InCallback
  <2>1. \/ UNCHANGED pc
        \/ pc' = [pc EXCEPT ![workers + 1] = "select"]
    BY DEF Enqueue, StartWorker
  <2>2. \A w \in Pool : w = workers + 1 => pc[w] = "none"
    <3>1. workers \in Int /\ workers + 1 > workers
      BY DEF Held, TypeOK
    <3> QED
      BY <3>1 DEF StartedInv
  <2>3. pc \in [Pool -> PC]
    BY DEF Held, TypeOK
  <2> QED
    BY <2>1, <2>2, <2>3 DEF InCallback
<1>5. queue \in [Targets -> Seq(Item)] /\ queue[a] \in Seq(Item) /\ keys \in SUBSET Targets
  BY DEF Held, TypeOK
<1>6. \A b \in Targets : b # a => /\ WorkOf(b)' = WorkOf(b)
                                  /\ WorkBytesOf(b)' = WorkBytesOf(b)
  BY <1>2, <1>4, <1>5, WorkMoves
<1>7. /\ WorkOf(a) \in Nat /\ WorkBytesOf(a) \in Nat
      /\ Len(queue[a]) \in Nat /\ QueueBytes(queue[a]) \in Nat
  BY LaneWork DEF Held, WorkFacts
<1>8. a \notin keys => queue[a] = <<>> /\ WorkOf(a) = 0 /\ WorkBytesOf(a) = 0
  <2> SUFFICES ASSUME a \notin keys
               PROVE  queue[a] = <<>> /\ WorkOf(a) = 0 /\ WorkBytesOf(a) = 0
    OBVIOUS
  <2>1. WorkOf(a) = 0
    BY DEF BudgetInv, Budget, Accounting
  <2>2. Idle(a)
    BY DEF Idle, ActiveInv
  <2>3. WorkFacts(a)
    BY LaneWork DEF Held
  <2>4. Len(queue[a]) = 0 /\ WorkBytesOf(a) = QueueBytes(queue[a])
    BY <2>1, <2>2, <2>3 DEF WorkFacts
  <2>5. queue[a] = <<>>
    BY <1>5, <2>4
  <2>6. QueueBytes(queue[a]) = 0
    BY <1>5, <2>5, QueueBytesChange
  <2> QED
    BY <2>1, <2>4, <2>5, <2>6
<1>9. WorkOf(a)' = WorkOf(a) + 1 /\ WorkBytesOf(a)' = WorkBytesOf(a) + c
  <2>1. WaitingIn(a) = queue[a]
    BY <1>8 DEF WaitingIn
  <2>2. Packet(size) \in Item /\ Packet(size).charge = c
    <3>1. Packet(size) = [id |-> accepted + 1, charge |-> c] /\ accepted \in Nat
      BY DEF Packet, c, Held, TypeOK
    <3> QED
      BY <1>1, <3>1 DEF Item
  <2> DEFINE pkt == Packet(size)
  <2>3. queue'[a] = Append(queue[a], pkt) /\ pkt \in Item /\ pkt.charge = c
    BY <1>2, <1>5, <2>1, <2>2
  <2> HIDE DEF pkt
  <2>4. Len(queue'[a]) = Len(queue[a]) + 1
    BY <1>5, <2>3
  <2>5. QueueBytes(queue'[a]) = QueueBytes(queue[a]) + c
    BY <1>5, <2>3, QueueBytesChange
  <2>6. /\ WorkOf(a)' = WorkOf(a) - Len(queue[a]) + Len(queue'[a])
        /\ WorkBytesOf(a)' = WorkBytesOf(a) - QueueBytes(queue[a]) + QueueBytes(queue'[a])
    BY <1>2, <1>4, WorkMoves
  <2> QED
    BY <1>1, <1>7, <2>4, <2>5, <2>6
<1>10. /\ old \in [packets : Int, bytes : Int]
       /\ old.packets = WorkOf(a) /\ old.bytes = WorkBytesOf(a)
  BY <1>8 DEF BudgetInv, Budget, Accounting, NoUse
<1>11. /\ WorkOf(a) < maxTargetPackets /\ WorkBytesOf(a) + c <= TargetMaxBytes
  <2>1. CASE a \in keys
    BY <1>1, <1>3, <1>7, <1>10, <2>1, TargetLimits
  <2>2. CASE a \notin keys
    BY <1>1, <1>3, <1>8, <2>2, TargetLimits
  <2> QED
    BY <2>1, <2>2
<1> HIDE DEF old
<1>12. /\ used'[a].packets = WorkOf(a) + 1 /\ used'[a].bytes = WorkBytesOf(a) + c
       /\ used' \in [Targets -> [packets : Int, bytes : Int]]
       /\ \A b \in Targets : b # a => used'[b] = used[b]
  <2>1. used \in [Targets -> [packets : Int, bytes : Int]]
    BY DEF BudgetInv
  <2> QED
    BY <1>1, <1>2, <1>10, <2>1
<1>13. packets \in Nat /\ bytes \in Nat
  BY CountersNat
<1>14. packets' <= maxPackets /\ bytes' <= QueueMaxBytes
  BY <1>1, <1>2, <1>3, <1>13, TargetLimits
<1>15. WorkOf(a)' <= maxTargetPackets /\ WorkBytesOf(a)' <= TargetMaxBytes
  BY <1>1, <1>7, <1>9, <1>11, TargetLimits
<1>16. /\ 1 \in Int /\ c \in Int /\ a \in keys'
       /\ used'[a].packets = WorkOf(a)' /\ used'[a].bytes = WorkBytesOf(a)'
       /\ \A b \in Targets : b # a => (b \in keys' <=> b \in keys)
  BY <1>1, <1>2, <1>9, <1>12
<1>17. \A b \in Targets : b # a =>
         /\ WorkOf(b)' = WorkOf(b) /\ WorkBytesOf(b)' = WorkBytesOf(b)
         /\ used'[b] = used[b] /\ (b \in keys' <=> b \in keys)
  BY <1>6, <1>12, <1>16
<1> QED
  BY <1>2, <1>9, <1>12, <1>14, <1>15, <1>16, <1>17, BooksChange

\* The books under Begin: the packet that leaves the lane is in the callback.
LEMMA BudgetBegin ==
  ASSUME Held, Held', PlaceInv, BudgetInv, NEW w \in Pool, Begin(w)
  PROVE  BudgetInv'
<1>0. PICK a \in Targets : a = hand[w]
  BY DEF Held, TypeOK
<1>1. /\ hand' = hand /\ item' = [item EXCEPT ![w] = Head(queue[a])]
      /\ queue' = [queue EXCEPT ![a] = Tail(queue[a])]
      /\ pc[w] = "got" /\ ~canceled /\ pc' = [pc EXCEPT ![w] = "send"]
      /\ UNCHANGED <<keys, used, packets, bytes>>
  BY <1>0 DEF Begin, Goto
<1>2. /\ a \in Targets /\ queue[a] \in Seq(Item) /\ queue[a] # <<>>
      /\ queue \in [Targets -> Seq(Item)] /\ item \in [Pool -> Item] /\ pc \in [Pool -> PC]
  BY <1>0, <1>1 DEF Held, TypeOK, LaneExclusive
<1>3. Idle(a)
  BY <1>0, <1>1 DEF Idle, Held, LaneExclusive, Holding, InCallback
<1>4. WorkFacts(a) /\ WorkFacts(a)'
  BY <1>2, LaneWork, LaneWorkNext DEF Held
<1>5. pc'[w] \in InCallback /\ hand'[w] = a /\ item'[w] = Head(queue[a])
  BY <1>0, <1>1, <1>2 DEF InCallback
<1>6. /\ WorkOf(a)' = Len(queue'[a]) + 1
      /\ WorkBytesOf(a)' = QueueBytes(queue'[a]) + Head(queue[a]).charge
      /\ WorkOf(a) = Len(queue[a]) /\ WorkBytesOf(a) = QueueBytes(queue[a])
  BY <1>3, <1>4, <1>5 DEF WorkFacts
<1>7. /\ Len(Tail(queue[a])) = Len(queue[a]) - 1 /\ Len(queue[a]) \in Nat
      /\ QueueBytes(queue[a]) = QueueBytes(Tail(queue[a])) + Head(queue[a]).charge
      /\ queue'[a] = Tail(queue[a])
  BY <1>1, <1>2, TailFacts, QueueBytesChange
<1>8. WorkOf(a)' = WorkOf(a) /\ WorkBytesOf(a)' = WorkBytesOf(a)
  BY <1>6, <1>7
<1>9. ASSUME NEW b \in Targets, b # a
      PROVE  WorkOf(b)' = WorkOf(b) /\ WorkBytesOf(b)' = WorkBytesOf(b)
  <2>1. /\ \A v \in Pool : pc'[v] \in InCallback /\ hand'[v] = b
                             <=> pc[v] \in InCallback /\ hand[v] = b
        /\ \A v \in Pool : pc[v] \in InCallback /\ hand[v] = b => item'[v] = item[v]
        /\ queue'[b] = queue[b]
    BY <1>0, <1>1, <1>2, <1>9 DEF InCallback
  <2> QED
    BY <2>1, WorkMoves
<1>10. \A b \in Targets : WorkOf(b)' = WorkOf(b) /\ WorkBytesOf(b)' = WorkBytesOf(b)
  BY <1>8, <1>9
<1> QED
  BY <1>1, <1>10, BooksSame

\* The books under Finish: the callback's packet is off, and with a lane that
\* is retired all that still waits in it.
LEMMA BudgetFinish ==
  ASSUME Held, Held', ActiveInv, BudgetInv, NEW w \in Pool, Finish(w)
  PROVE  BudgetInv'
<1>0. PICK a \in Targets : a = hand[w]
  BY DEF Held, TypeOK
<1> DEFINE done == [packets |-> used[a].packets - 1,
                    bytes   |-> used[a].bytes - item[w].charge]
           gone == IF Retires(a) THEN Len(queue[a]) ELSE 0
           lost == IF Retires(a) THEN QueueBytes(queue[a]) ELSE 0
<1>1. /\ pc[w] = "finish" /\ pc' = [pc EXCEPT ![w] = "select"]
      /\ hand' = hand /\ item' = [item EXCEPT ![w] = NoItem]
      /\ queue' = [queue EXCEPT ![a] = IF Retires(a) THEN <<>> ELSE queue[a]]
      /\ used' = [used EXCEPT ![a] = IF Retires(a) THEN Refund(a, done) ELSE done]
      /\ packets' = packets - 1 - gone /\ bytes' = bytes - item[w].charge - lost
      /\ keys' = IF Retires(a) THEN keys \ {a} ELSE keys
  BY <1>0 DEF Finish, Goto
<1>2. /\ queue[a] \in Seq(Item) /\ pc \in [Pool -> PC] /\ item \in [Pool -> Item]
      /\ queue \in [Targets -> Seq(Item)] /\ item[w].charge \in Nat
      /\ used \in [Targets -> [packets : Int, bytes : Int]]
  BY DEF Held, TypeOK, Item, BudgetInv
<1>3. pc[w] \in InCallback /\ hand[w] = a /\ a \in keys
  BY <1>0, <1>1 DEF InCallback, ActiveInv
<1>4. WorkFacts(a) /\ WorkFacts(a)'
  BY LaneWork, LaneWorkNext DEF Held
<1>5. Idle(a)'
  <2> SUFFICES ASSUME NEW v \in Pool, pc'[v] \in InCallback, hand'[v] = a PROVE FALSE
    BY DEF Idle
  <2>1. v # w /\ pc[v] \in InCallback /\ hand[v] = a
    BY <1>1, <1>2 DEF InCallback
  <2> QED
    BY <1>3, <2>1 DEF Held, LaneExclusive
<1>6. /\ WorkOf(a) = Len(queue[a]) + 1
      /\ WorkBytesOf(a) = QueueBytes(queue[a]) + item[w].charge
      /\ WorkOf(a)' = Len(queue'[a]) /\ WorkBytesOf(a)' = QueueBytes(queue'[a])
      /\ Len(queue[a]) \in Nat /\ QueueBytes(queue[a]) \in Nat
  BY <1>3, <1>4, <1>5 DEF WorkFacts
<1>7. /\ Retires(a) => WorkOf(a)' = 0 /\ WorkBytesOf(a)' = 0
      /\ ~Retires(a) => WorkOf(a)' = Len(queue[a]) /\ WorkBytesOf(a)' = QueueBytes(queue[a])
  <2>1. Retires(a) => queue'[a] = <<>>
    BY <1>1, <1>2
  <2>2. ~Retires(a) => queue'[a] = queue[a]
    BY <1>1, <1>2
  <2>3. \A s \in Seq(Item) : s = <<>> => QueueBytes(s) = 0 /\ Len(s) = 0
    BY QueueBytesChange
  <2>4. queue'[a] \in Seq(Item)
    BY DEF Held, TypeOK
  <2> QED
    BY <1>6, <2>1, <2>2, <2>3, <2>4
<1>8. gone \in Nat /\ lost \in Nat
  BY <1>6
<1>9. /\ WorkOf(a)' = WorkOf(a) + (0 - 1 - gone)
      /\ WorkBytesOf(a)' = WorkBytesOf(a) + (0 - item[w].charge - lost)
  <2>1. item[w].charge \in Nat
    BY <1>2
  <2>2. CASE Retires(a)
    <3>1. gone = Len(queue[a]) /\ lost = QueueBytes(queue[a])
      BY <2>2
    <3> HIDE DEF gone, lost
    <3>2. WorkOf(a)' = WorkOf(a) + (0 - 1 - gone)
      BY <1>6, <1>7, <2>2, <3>1
    <3>3. WorkBytesOf(a)' = WorkBytesOf(a) + (0 - item[w].charge - lost)
      BY <1>6, <1>7, <2>1, <2>2, <3>1
    <3> QED
      BY <3>2, <3>3
  <2>3. CASE ~Retires(a)
    <3>1. gone = 0 /\ lost = 0
      BY <2>3
    <3> QED
      BY <1>6, <1>7, <2>1, <2>3, <3>1
  <2> QED
    BY <2>2, <2>3
<1>10. ASSUME NEW b \in Targets, b # a
       PROVE  /\ WorkOf(b)' = WorkOf(b) /\ WorkBytesOf(b)' = WorkBytesOf(b)
              /\ used'[b] = used[b] /\ (b \in keys' <=> b \in keys)
  <2>1. /\ \A v \in Pool : pc'[v] \in InCallback /\ hand'[v] = b
                             <=> pc[v] \in InCallback /\ hand[v] = b
        /\ \A v \in Pool : pc[v] \in InCallback /\ hand[v] = b => item'[v] = item[v]
        /\ queue'[b] = queue[b]
    BY <1>0, <1>1, <1>2, <1>10 DEF InCallback
  <2>2. WorkOf(b)' = WorkOf(b) /\ WorkBytesOf(b)' = WorkBytesOf(b)
    BY <2>1, WorkMoves
  <2> QED
    BY <1>1, <1>2, <1>10, <2>2
<1>11. /\ used[a].packets = WorkOf(a) /\ used[a].bytes = WorkBytesOf(a)
       /\ used[a] \in [packets : Int, bytes : Int]
       /\ Work <= maxPackets /\ WorkBytes <= QueueMaxBytes
       /\ WorkOf(a) <= maxTargetPackets /\ WorkBytesOf(a) <= TargetMaxBytes
  BY <1>2, <1>3 DEF BudgetInv, Budget, Accounting
<1>12. done \in [packets : Int, bytes : Int] /\ Refund(a, done) \in [packets : Int, bytes : Int]
  BY <1>2, <1>6, <1>11 DEF Refund
<1>13. used' \in [Targets -> [packets : Int, bytes : Int]]
  BY <1>1, <1>2, <1>12
<1>14. ~Retires(a) => used'[a].packets = WorkOf(a)' /\ used'[a].bytes = WorkBytesOf(a)'
  <2> SUFFICES ASSUME ~Retires(a)
               PROVE  used'[a].packets = WorkOf(a)' /\ used'[a].bytes = WorkBytesOf(a)'
    OBVIOUS
  <2>1. used'[a] = done
    BY <1>1, <1>2
  <2> QED
    BY <1>2, <1>6, <1>7, <1>11, <2>1
<1>15. packets \in Nat /\ bytes \in Nat /\ packets = Work /\ bytes = WorkBytes
  BY CountersNat
<1> HIDE DEF done, gone, lost
<1>16. /\ packets' = packets + (0 - 1 - gone) /\ bytes' = bytes + (0 - item[w].charge - lost)
       /\ packets' <= maxPackets /\ bytes' <= QueueMaxBytes
       /\ 0 - 1 - gone \in Int /\ 0 - item[w].charge - lost \in Int
  <2>1. item[w].charge \in Nat /\ gone \in Nat /\ lost \in Nat
    BY <1>2, <1>8
  <2>2. packets' = packets - 1 - gone /\ bytes' = bytes - item[w].charge - lost
    BY <1>1, <1>2 DEF done, gone, lost
  <2>3. packets <= maxPackets /\ bytes <= QueueMaxBytes
    BY <1>11, <1>15
  <2>4. packets \in Nat /\ bytes \in Nat
    BY <1>15
  <2>5. packets' = packets + (0 - 1 - gone) /\ packets' <= maxPackets
        /\ 0 - 1 - gone \in Int
    BY <2>1, <2>2, <2>3, <2>4, TargetLimits
  <2>6. bytes' = bytes + (0 - item[w].charge - lost) /\ bytes' <= QueueMaxBytes
        /\ 0 - item[w].charge - lost \in Int
    BY <2>1, <2>2, <2>3, <2>4, TargetLimits
  <2> QED
    BY <2>5, <2>6
<1>17. WorkOf(a)' <= maxTargetPackets /\ WorkBytesOf(a)' <= TargetMaxBytes
  <2>1. item[w].charge \in Nat /\ WorkOf(a) \in Nat /\ WorkBytesOf(a) \in Nat
    BY <1>2, <1>4 DEF WorkFacts
  <2>2. WorkOf(a)' <= WorkOf(a) /\ WorkBytesOf(a)' <= WorkBytesOf(a)
    BY <1>8, <1>9, <2>1
  <2>3. WorkOf(a)' \in Nat /\ WorkBytesOf(a)' \in Nat
    BY <1>4 DEF WorkFacts
  <2> QED
    BY <1>11, <2>1, <2>2, <2>3, TargetLimits
<1>18. /\ a \in keys' => used'[a].packets = WorkOf(a)' /\ used'[a].bytes = WorkBytesOf(a)'
       /\ a \notin keys' => WorkOf(a)' = 0
  BY <1>1, <1>3, <1>7, <1>14
<1> DEFINE n == 0 - 1 - gone
           m == 0 - item[w].charge - lost
<1>19. /\ n \in Int /\ m \in Int
       /\ WorkOf(a)' = WorkOf(a) + n /\ WorkBytesOf(a)' = WorkBytesOf(a) + m
       /\ packets' = packets + n /\ bytes' = bytes + m
  BY <1>9, <1>16
<1> HIDE DEF n, m
<1>20. \A b \in Targets : b # a =>
         /\ WorkOf(b)' = WorkOf(b) /\ WorkBytesOf(b)' = WorkBytesOf(b)
         /\ used'[b] = used[b] /\ (b \in keys' <=> b \in keys)
  BY <1>10
<1> QED
  BY <1>13, <1>16, <1>17, <1>18, <1>19, <1>20, BooksChange

\* The books under one step.
LEMMA BudgetStep ==
  ASSUME Held, Held', PlaceInv, ActiveInv, StartedInv, BudgetInv, [Next]_vars
  PROVE  BudgetInv'
<1> USE DEF queueVars, workerVars, Goto
<1>0. ASSUME UNCHANGED queueVars, item' = item,
             \A v \in Pool : pc'[v] \in InCallback <=> pc[v] \in InCallback,
             \A v \in Pool : pc[v] \in InCallback => hand'[v] = hand[v]
      PROVE  BudgetInv'
  <2>1. ASSUME NEW b \in Targets
        PROVE  WorkOf(b)' = WorkOf(b) /\ WorkBytesOf(b)' = WorkBytesOf(b)
    <3>1. /\ \A v \in Pool : pc'[v] \in InCallback /\ hand'[v] = b
                               <=> pc[v] \in InCallback /\ hand[v] = b
          /\ \A v \in Pool : pc[v] \in InCallback /\ hand[v] = b => item'[v] = item[v]
          /\ queue'[b] = queue[b]
      BY <1>0
    <3> QED
      BY <3>1, WorkMoves
  <2>2. \A b \in Targets : WorkOf(b)' = WorkOf(b) /\ WorkBytesOf(b)' = WorkBytesOf(b)
    BY <2>1
  <2>3. UNCHANGED <<keys, used, packets, bytes>>
    BY <1>0
  <2> QED
    BY <2>2, <2>3, BooksSame
<1>t. pc \in [Pool -> PC] /\ hand \in [Pool -> Targets]
  BY DEF Held, TypeOK
<1>1. ASSUME NEW a \in Targets, NEW size \in Sizes, Enqueue(a, size)
      PROVE  BudgetInv'
  BY <1>1, BudgetEnqueue
<1>2. ASSUME NEW w \in Pool, Receive(w) PROVE BudgetInv'
  <2>1. /\ pc[w] = "select" /\ pc' = [pc EXCEPT ![w] = "got"] /\ UNCHANGED queueVars
        /\ item' = item /\ hand' = [hand EXCEPT ![w] = Head(ready)]
    BY <1>2 DEF Receive
  <2>2. \A v \in Pool : /\ pc'[v] \in InCallback <=> pc[v] \in InCallback
                        /\ pc[v] \in InCallback => hand'[v] = hand[v]
    BY <1>t, <2>1 DEF InCallback
  <2> QED
    BY <1>0, <2>1, <2>2
<1>3. ASSUME NEW w \in Pool, QuitOnCancel(w) \/ Abandon(w) PROVE BudgetInv'
  <2>1. /\ Stop /\ hand' = hand /\ item' = item
        /\ pc[w] \in {"select", "got"} /\ pc' = [pc EXCEPT ![w] = "exited"]
    BY <1>3 DEF QuitOnCancel, Abandon
  <2>2. \A v \in Pool : pc'[v] \in InCallback <=> pc[v] \in InCallback
    BY <1>t, <2>1 DEF InCallback
  <2> QED
    BY <2>1, <2>2, BooksStop
<1>4. ASSUME NEW w \in Pool, Begin(w) PROVE BudgetInv'
  BY <1>4, BudgetBegin
<1>5. ASSUME NEW w \in Pool, SendReturns(w) PROVE BudgetInv'
  <2>1. /\ pc[w] = "send" /\ UNCHANGED <<queueVars, hand, item>>
        /\ \/ pc' = [pc EXCEPT ![w] = "fatal"]
           \/ pc' = [pc EXCEPT ![w] = "finish"]
    BY <1>5 DEF SendReturns
  <2>2. \A v \in Pool : pc'[v] \in InCallback <=> pc[v] \in InCallback
    BY <1>t, <2>1 DEF InCallback
  <2> QED
    BY <1>0, <2>1, <2>2
<1>6. ASSUME NEW w \in Pool, Fatal(w) PROVE BudgetInv'
  <2>1. /\ pc[w] = "fatal" /\ pc' = [pc EXCEPT ![w] = "finish"]
        /\ hand' = hand /\ item' = item
    BY <1>6 DEF Fatal
  <2>2. \A v \in Pool : pc'[v] \in InCallback <=> pc[v] \in InCallback
    BY <1>t, <2>1 DEF InCallback
  <2>3. Stop \/ UNCHANGED queueVars
    BY <1>6 DEF Fatal, ReportOnce
  <2>4. CASE Stop
    BY <2>1, <2>2, <2>4, BooksStop
  <2>5. CASE UNCHANGED queueVars
    BY <1>0, <2>1, <2>2, <2>5
  <2> QED
    BY <2>3, <2>4, <2>5
<1>7. ASSUME NEW w \in Pool, Finish(w) PROVE BudgetInv'
  BY <1>7, BudgetFinish
<1>8. CASE ParentCancel \/ Wait \/ UNCHANGED vars
  <2>1. UNCHANGED <<queueVars, item, hand, pc>>
    BY <1>8 DEF ParentCancel, Wait, vars
  <2> QED
    BY <1>0, <2>1
<1>9. CASE OwnerStop
  <2>1. Stop /\ UNCHANGED <<item, hand, pc>>
    BY <1>9 DEF OwnerStop
  <2> QED
    BY <2>1, BooksStop
<1> QED
  BY <1>1, <1>2, <1>3, <1>4, <1>5, <1>6, <1>7, <1>8, <1>9 DEF Next, Worker

-----------------------------------------------------------------------------
LEMMA InitInv == Init => IInv
<1> SUFFICES ASSUME Init PROVE IInv
  OBVIOUS
<1> USE LimitsNat, QueueAssumption DEF Init
<1>1. \A a \in Targets : queue[a] = <<>>
  OBVIOUS
<1>2. NoItem \in Item
  BY DEF NoItem, Item
<1>3. TypeOK
  <2>1. (CHOOSE a \in Targets : TRUE) \in Targets
    OBVIOUS
  <2>2. /\ hand \in [Pool -> Targets] /\ item \in [Pool -> Item]
        /\ pc \in [Pool -> PC]
    BY <1>2, <2>1 DEF PC
  <2>3. queue \in [Targets -> Seq(Item)] /\ active \in [Targets -> BOOLEAN]
    OBVIOUS
  <2>4. ready \in Seq(Targets) /\ errors \in Seq(Pool)
    OBVIOUS
  <2>5. /\ workers \in 0..maxTargets /\ accepted \in Nat
        /\ lastStarted \in [Targets -> Nat] /\ keys \in SUBSET Targets
    OBVIOUS
  <2>6. /\ stopped \in BOOLEAN /\ canceled \in BOOLEAN /\ fatalDone \in BOOLEAN
        /\ owner \in {"run", "stopping", "joined"}
    OBVIOUS
  <2> HIDE DEF Init
  <2> QED
    BY <2>2, <2>3, <2>4, <2>5, <2>6 DEF TypeOK
<1>4. ShutdownInv /\ PlaceInv /\ LaneExclusive
  BY DEF ShutdownInv, NoWorkAfterWait, OneFatalError, PlaceInv, LaneExclusive,
         Holding, InCallback
<1>5. MapInv /\ ReadyNeverBlocks
  BY FS_EmptySet DEF MapInv, ReadyNeverBlocks
<1>6. OrderInv
  BY <1>1 DEF OrderInv, InOrder
<1>7. StartedInv /\ ActiveInv
  BY DEF StartedInv, ActiveInv, InCallback
<1>8. BudgetInv
  <2>1. \A a \in Targets : WorkOf(a) = 0 /\ WorkBytesOf(a) = 0
    <3> SUFFICES ASSUME NEW a \in Targets PROVE WorkOf(a) = 0 /\ WorkBytesOf(a) = 0
      OBVIOUS
    <3>1. WorkFacts(a) /\ Idle(a)
      BY <1>3, <1>4, LaneWork DEF Idle, InCallback
    <3>2. Len(queue[a]) = 0 /\ QueueBytes(queue[a]) = 0
      <4>1. queue[a] \in Seq(Item) /\ queue[a] = <<>>
        BY <1>1, <1>3 DEF TypeOK
      <4>2. QueueBytes(queue[a]) = 0
        BY <4>1, QueueBytesChange
      <4> QED
        BY <4>1, <4>2
    <3> QED
      BY <3>1, <3>2 DEF WorkFacts
  <2>2. Work = 0 /\ WorkBytes = 0
    <3> DEFINE z == [a \in Targets |-> 0]
    <3>1. Work = Total(z, Targets) /\ WorkBytes = Total(z, Targets)
      BY <2>1, WorkIsSum, WorkBytesIsSum
    <3>2. Total(z, {}) = Total(z, Targets)
      <4>1. Amounts(z, Targets) /\ {} \in SUBSET Targets /\ \A x \in Targets \ {} : z[x] = 0
        BY DEF Amounts
      <4> HIDE DEF z
      <4> QED
        BY <4>1, TotalBelow
    <3>3. Total(z, {}) = 0
      BY TotalOfNone
    <3> QED
      BY <3>1, <3>2, <3>3
  <2>3. used \in [Targets -> [packets : Int, bytes : Int]]
    BY DEF NoUse
  <2>4. packets = 0 /\ bytes = 0 /\ keys = {}
    OBVIOUS
  <2>5. Accounting
    BY <2>1, <2>2, <2>4 DEF Accounting
  <2> HIDE DEF Init
  <2> QED
    BY <2>1, <2>2, <2>3, <2>5, TargetLimits DEF BudgetInv, Budget
<1> QED
  BY <1>3, <1>4, <1>5, <1>6, <1>7, <1>8 DEF IInv

\* The inductive invariant holds in every state.
THEOREM Invariance == Safety => []IInv
<1>1. IInv /\ [Next]_vars => IInv'
  <2> SUFFICES ASSUME IInv, [Next]_vars PROVE IInv'
    OBVIOUS
  <2>1. TypeOK' /\ MapInv'
    BY TypeStep DEF IInv
  <2>2. PlaceInv' /\ LaneExclusive'
    BY PlaceStep DEF IInv
  <2>3. ReadyNeverBlocks'
    BY <2>1, <2>2, ReadyStep DEF IInv
  <2>4. StartedInv' /\ ActiveInv'
    BY ActiveStep DEF IInv
  <2>5. BudgetInv'
    <3>1. Held /\ Held'
      BY <2>1, <2>2 DEF Held, IInv
    <3> QED
      BY <3>1, BudgetStep DEF IInv
  <2> QED
    BY <2>1, <2>2, <2>3, <2>4, <2>5, ShutdownStep, OrderStep DEF IInv
<1> QED
  BY <1>1, InitInv, PTL DEF Safety

\* Types: in particular the pool never has more workers than maxTargets.
THEOREM TypeCorrectness == Safety => []TypeOK
BY Invariance, PTL DEF IInv

\* Callbacks of one target never overlap, and run never indexes an empty lane.
THEOREM LanesAreExclusive == Safety => []LaneExclusive
BY Invariance, PTL DEF IInv

\* A send on q.ready under q.mu always finds a free place in the channel, and
\* at most one callback error is ever put into q.errors.
THEOREM NoSendBlocks == Safety => []SendsNeverBlock
BY Invariance, PTL DEF IInv, ShutdownInv, SendsNeverBlock

\* The counters that Enqueue checks the limits against are exactly the packets
\* and bytes that wait or are in a callback, for each lane and in total, through
\* Stop, a fatal callback and a lane's retirement; so the limits hold of the
\* work itself, callbacks of one target never overlap and no send under q.mu
\* can block.
THEOREM BooksBalance == Safety => []Bookkeeping
BY Invariance, PTL
DEF IInv, BudgetInv, ShutdownInv, SendsNeverBlock, Bookkeeping

\* Stop followed by Wait leaves no worker that could use the owner's socket.
THEOREM WaitJoinsWorkers == Safety => []NoWorkAfterWait
BY Invariance, PTL DEF IInv, ShutdownInv

\* Callbacks of one target begin in the order in which Enqueue accepted them.
THEOREM CallbacksInOrder == Safety => TargetFIFO
<1> DEFINE Grows == \A a \in Targets : lastStarted'[a] # lastStarted[a]
                                        => lastStarted'[a] > lastStarted[a]
<1>1. IInv /\ [Next]_vars => [Grows]_vars
  <2> SUFFICES ASSUME IInv, [Next]_vars PROVE Grows
    OBVIOUS
  <2>0. TypeOK /\ LaneExclusive /\ OrderInv
    BY DEF IInv
  <2>1. ASSUME NEW w \in Pool, Begin(w) PROVE Grows
    <3> DEFINE b == hand[w]
    <3>1. b \in Targets /\ queue[b] \in Seq(Item) /\ queue[b] # <<>>
      BY <2>0, <2>1 DEF TypeOK, Begin, LaneExclusive
    <3>2. /\ \A a \in Targets : a # b => lastStarted'[a] = lastStarted[a]
          /\ lastStarted'[b] = queue[b][1].id
      BY <2>0, <2>1, <3>1, TailFacts DEF TypeOK, Begin
    <3>3. 1 \in 1..Len(queue[b]) /\ queue[b][1].id \in Nat
      BY <3>1, ItemIds
    <3>4. lastStarted[b] < queue[b][1].id /\ lastStarted[b] \in Nat
      BY <2>0, <3>1, <3>3 DEF OrderInv, InOrder
    <3> QED
      BY <3>2, <3>3, <3>4
  <2>2. CASE UNCHANGED lastStarted
    BY <2>2
  <2> QED
    BY <2>1, <2>2
    DEF Next, Worker, Enqueue, Receive, QuitOnCancel, Abandon, SendReturns,
        Fatal, Finish, ParentCancel, OwnerStop, Wait, vars
<1> QED
  BY <1>1, Invariance, PTL DEF Safety, TargetFIFO
=============================================================================
