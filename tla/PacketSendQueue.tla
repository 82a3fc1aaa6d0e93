--------------------------- MODULE PacketSendQueue ---------------------------
(***************************************************************************)
(* The per-target datagram send queue of internal/transport                *)
(* (packet_send_queue.go): bounded FIFO lanes, one per target address, a   *)
(* lazily grown pool of worker goroutines, and a Stop / Wait shutdown.     *)
(*                                                                         *)
(* Granularity.  One action is one critical section of q.mu, one channel   *)
(* operation outside it, or the return of the send callback.  A lane is    *)
(* named by its address: a lane object leaves the map either when it is    *)
(* idle (then nobody refers to it) or after cancellation (then nobody      *)
(* creates another one), so two lane objects of one address never live     *)
(* side by side.  Packets carry an id (their acceptance number) and their  *)
(* byte charge; contents are left out.                                     *)
(***************************************************************************)
EXTENDS Integers, Sequences, FiniteSets, FiniteSetsExt

CONSTANTS
  Targets,         \* canonical target addresses
  Sizes,           \* len(payload)+len(address) of the packets offered
  MaxPacketsArg,   \* maxPackets argument of NewPacketSendQueue
  MaxTargetsArg,   \* maxTargets argument of NewPacketSendQueue
  TargetCeiling,   \* packetSendQueueMaxTargets (8 in the code)
  QueueMaxBytes,   \* packetSendQueueMaxBytes (256 KiB in the code)
  SlowTargets,     \* targets whose callbacks return only once canceled
  MaxAccepted      \* bound: packets accepted in one behaviour

ASSUME QueueAssumption ==
  /\ IsFiniteSet(Targets) /\ Targets # {} /\ SlowTargets \subseteq Targets
  /\ Sizes \subseteq Nat
  /\ MaxPacketsArg \in Int /\ MaxTargetsArg \in Int
  /\ TargetCeiling \in Nat \ {0}
  /\ QueueMaxBytes \in Nat \ {0}
  /\ MaxAccepted \in Nat

\* The normalisation NewPacketSendQueue applies to its arguments.
maxPackets == IF MaxPacketsArg <= 0 THEN 1 ELSE MaxPacketsArg
maxTargetPackets == (maxPackets \div 2) + (maxPackets % 2)
Smaller(x, y) == IF x <= y THEN x ELSE y
maxTargets ==
  LET wanted == IF MaxTargetsArg <= 0 THEN TargetCeiling ELSE MaxTargetsArg
  IN  Smaller(Smaller(wanted, maxPackets), TargetCeiling)
TargetMaxBytes == QueueMaxBytes \div 2

Pool == 1..maxTargets                \* worker goroutines, in starting order

VARIABLES
  stopped,     \* q.stopped
  canceled,    \* q.ctx.Err() # nil: Stop ran, or the parent was canceled
  keys,        \* the addresses present in q.lanes
  queue,       \* address -> lane.queue, the packets that wait
  active,      \* address -> lane.active
  used,        \* address -> lane.packets and lane.bytes
  packets,     \* q.packets
  bytes,       \* q.bytes
  ready,       \* q.ready, a channel of capacity maxTargets
  workers,     \* q.workers
  pc,          \* where each worker goroutine is
  hand,        \* the lane a worker took from q.ready
  item,        \* the packet a worker is sending
  errors,      \* q.errors, a channel of capacity one; worst case: never read
  fatalDone,   \* q.fatalOnce
  owner,       \* the queue's owner: "run", then Stop, then Wait
  accepted,    \* history: number of packets accepted
  lastStarted  \* history: id of the last packet a target's callback began

queueVars == <<keys, queue, active, used, packets, bytes>>
workerVars == <<workers, pc, hand, item>>
vars == <<stopped, canceled, queueVars, ready, workerVars, errors, fatalDone,
          owner, accepted, lastStarted>>

Item == [id : Nat, charge : Nat]
NoItem == [id |-> 0, charge |-> 0]
NoUse == [packets |-> 0, bytes |-> 0]

PC == {"none", "select", "got", "send", "fatal", "finish", "exited"}
InCallback == {"send", "fatal", "finish"}   \* packet still charged to its lane

QueueBytes(q) == MapThenSumSet(LAMBDA i : q[i].charge, DOMAIN q)
QueuedPackets(S) == MapThenSumSet(LAMBDA a : Len(queue[a]), S)
QueuedBytes(S) == MapThenSumSet(LAMBDA a : QueueBytes(queue[a]), S)

Init ==
  /\ stopped = FALSE /\ canceled = FALSE
  /\ keys = {}
  /\ queue = [a \in Targets |-> <<>>]
  /\ active = [a \in Targets |-> FALSE]
  /\ used = [a \in Targets |-> NoUse]
  /\ packets = 0 /\ bytes = 0
  /\ ready = <<>>
  /\ workers = 0
  /\ pc = [w \in Pool |-> "none"]
  /\ hand = [w \in Pool |-> CHOOSE a \in Targets : TRUE]  \* not read yet
  /\ item = [w \in Pool |-> NoItem]
  /\ errors = <<>> /\ fatalDone = FALSE
  /\ owner = "run"
  /\ accepted = 0
  /\ lastStarted = [a \in Targets |-> 0]
-----------------------------------------------------------------------------
(***************************************************************************)
(* Enqueue.  A packet is charged at least one byte; the limits count the   *)
(* packets in callbacks as well as the waiting ones.                       *)
(***************************************************************************)
Charge(size) == IF size > 1 THEN size ELSE 1

\* Mutant of Admits: no half-budget per target.
AdmitsHotTarget(a, size) ==
  /\ ~stopped /\ ~canceled
  /\ packets < maxPackets /\ Charge(size) <= QueueMaxBytes - bytes
  /\ Cardinality(keys \cup {a}) <= maxTargets

Admits(a, size) ==
  /\ ~stopped /\ ~canceled
  /\ size <= QueueMaxBytes
  /\ packets < maxPackets
  /\ Charge(size) <= QueueMaxBytes - bytes
  /\ Charge(size) <= TargetMaxBytes
  /\ IF a \in keys
     THEN /\ used[a].packets < maxTargetPackets
          /\ Charge(size) <= TargetMaxBytes - used[a].bytes
     ELSE Cardinality(keys) < maxTargets

\* The accepted packet joins its lane (a fresh one if there was none) and both
\* budgets.
Packet(size) == [id |-> accepted + 1, charge |-> Charge(size)]
WaitingIn(a) == IF a \in keys THEN queue[a] ELSE <<>>
ChargeTo(a, size) ==
  LET old == IF a \in keys THEN used[a] ELSE NoUse
  IN  /\ used' = [used EXCEPT ![a] = [packets |-> old.packets + 1,
                                     bytes   |-> old.bytes + Charge(size)]]
      /\ active' = [active EXCEPT ![a] = a \in keys /\ active[a]]
      /\ packets' = packets + 1
      /\ bytes' = bytes + Charge(size)
      /\ accepted' = accepted + 1

AdmitAtFront(a, size) ==                \* mutant: newest packet first
  /\ queue' = [queue EXCEPT ![a] = <<Packet(size)>> \o WaitingIn(a)]
  /\ ChargeTo(a, size)
Admit(a, size) ==
  /\ queue' = [queue EXCEPT ![a] = Append(WaitingIn(a), Packet(size))]
  /\ ChargeTo(a, size)

\* A lane that was absent becomes ready; an existing one already is, or is
\* active and will be made ready by its worker.
OpenLaneAgain(a) ==                     \* mutant: ready on every packet
  keys' = keys \cup {a} /\ ready' = Append(ready, a)
OpenLane(a) ==
  /\ keys' = keys \cup {a}
  /\ ready' = IF a \in keys THEN ready ELSE Append(ready, a)

\* One more worker whenever there are fewer workers than lanes.
StartFirstWorker ==                     \* mutant: a pool of one worker
  IF workers = 0
  THEN workers' = 1 /\ pc' = [pc EXCEPT ![1] = "select"]
  ELSE UNCHANGED <<workers, pc>>
StartWorkerPerPacket ==                 \* mutant: a worker for every packet
  workers' = workers + 1 /\ pc' = [pc EXCEPT ![workers + 1] = "select"]
StartWorker ==
  IF workers < Cardinality(keys')
  THEN /\ workers' = workers + 1
       /\ pc' = [pc EXCEPT ![workers + 1] = "select"]
  ELSE UNCHANGED <<workers, pc>>

Enqueue(a, size) ==
  /\ accepted < MaxAccepted                 \* bound
  /\ Admits(a, size)
  /\ Admit(a, size)
  /\ OpenLane(a)
  /\ StartWorker
  /\ UNCHANGED <<stopped, canceled, hand, item, errors, fatalDone, owner,
                 lastStarted>>
-----------------------------------------------------------------------------
(***************************************************************************)
(* Stop.  Admission is closed, the context canceled, every waiting packet  *)
(* discarded; an active lane stays, with its packet still charged.         *)
(***************************************************************************)
RefundNothing(a, use) == use            \* mutant: no refund
Refund(a, use) == [packets |-> use.packets - Len(queue[a]),
                   bytes   |-> use.bytes - QueueBytes(queue[a])]

Stop ==
  /\ stopped' = TRUE /\ canceled' = TRUE
  /\ queue' = [a \in Targets |-> IF a \in keys THEN <<>> ELSE queue[a]]
  /\ used' = [a \in Targets |->
                IF a \in keys THEN Refund(a, used[a]) ELSE used[a]]
  /\ UNCHANGED active
  /\ packets' = packets - QueuedPackets(keys)
  /\ bytes' = bytes - QueuedBytes(keys)
  /\ keys' = {a \in keys : active[a]}
-----------------------------------------------------------------------------
(* The worker goroutine, run(). *)

Goto(w, label) == pc' = [pc EXCEPT ![w] = label]

\* select: a lane is taken from the channel (also when ctx is done: select
\* chooses among ready cases at random).
Receive(w) ==
  /\ pc[w] = "select" /\ ready # <<>>
  /\ hand' = [hand EXCEPT ![w] = Head(ready)]
  /\ ready' = Tail(ready)
  /\ Goto(w, "got")
  /\ UNCHANGED <<stopped, canceled, queueVars, workers, item, errors,
                 fatalDone, owner, accepted, lastStarted>>

\* Mutant: the worker notices cancellation only when a lane is ready.
QuitOnCancelNever(w) == FALSE /\ UNCHANGED vars

\* select: ctx.Done; the worker stops the queue and returns.
QuitOnCancel(w) ==
  /\ pc[w] = "select" /\ canceled
  /\ Stop
  /\ Goto(w, "exited")
  /\ UNCHANGED <<ready, workers, hand, item, errors, fatalDone, owner,
                 accepted, lastStarted>>

\* The lane was taken, but the queue has been stopped or canceled since.
Abandon(w) ==
  /\ pc[w] = "got" /\ (stopped \/ canceled)
  /\ Stop
  /\ Goto(w, "exited")
  /\ UNCHANGED <<ready, workers, hand, item, errors, fatalDone, owner,
                 accepted, lastStarted>>

\* The lane becomes active and its first packet goes to the callback.
Begin(w) ==
  LET a == hand[w] IN
  /\ pc[w] = "got" /\ ~stopped /\ ~canceled
  /\ item' = [item EXCEPT ![w] = Head(queue[a])]
  /\ active' = [active EXCEPT ![a] = TRUE]
  /\ queue' = [queue EXCEPT ![a] = Tail(@)]
  /\ lastStarted' = [lastStarted EXCEPT ![a] = Head(queue[a]).id]
  /\ Goto(w, "send")
  /\ UNCHANGED <<stopped, canceled, keys, used, packets, bytes, ready,
                 workers, hand, errors, fatalDone, owner, accepted>>

\* The callback returns: nil, one of the two errors that drop one packet, or
\* any other error, which is fatal unless the context is already canceled.
SendReturns(w) ==
  /\ pc[w] = "send"
  /\ \E outcome \in {"ok", "dropped", "failed"} :
       Goto(w, IF outcome = "failed" /\ ~canceled THEN "fatal" ELSE "finish")
  /\ UNCHANGED <<stopped, canceled, queueVars, ready, workers, hand, item,
                 errors, fatalDone, owner, accepted, lastStarted>>

\* fatalOnce.Do: the first failing worker stops the queue and reports.
ReportOnce(w) ==
  IF fatalDone
  THEN UNCHANGED <<stopped, canceled, queueVars, errors, fatalDone>>
  ELSE Stop /\ errors' = Append(errors, w) /\ fatalDone' = TRUE

Fatal(w) ==
  /\ pc[w] = "fatal"
  /\ ReportOnce(w)
  /\ Goto(w, "finish")
  /\ UNCHANGED <<ready, workers, hand, item, owner, accepted, lastStarted>>

\* The packet's charge is returned; the lane is retired, or queued again
\* behind the other ready lanes.
RetiresStopped(a) == stopped \/ canceled     \* mutant: empty lanes requeued
Retires(a) == stopped \/ canceled \/ queue[a] = <<>>

Finish(w) ==
  LET a == hand[w]
      done == [packets |-> used[a].packets - 1,
               bytes   |-> used[a].bytes - item[w].charge]
      retire == Retires(a)
  IN
  /\ pc[w] = "finish"
  /\ active' = [active EXCEPT ![a] = FALSE]
  /\ queue' = [queue EXCEPT ![a] = IF retire THEN <<>> ELSE @]
  /\ used' = [used EXCEPT ![a] = IF retire THEN Refund(a, done) ELSE done]
  /\ packets' = packets - 1 - (IF retire THEN Len(queue[a]) ELSE 0)
  /\ bytes' = bytes - item[w].charge
                    - (IF retire THEN QueueBytes(queue[a]) ELSE 0)
  /\ keys' = IF retire THEN keys \ {a} ELSE keys
  /\ ready' = IF retire THEN ready ELSE Append(ready, a)
  /\ item' = [item EXCEPT ![w] = NoItem]
  /\ Goto(w, "select")
  /\ UNCHANGED <<stopped, canceled, workers, hand, errors, fatalDone, owner,
                 accepted, lastStarted>>

Worker(w) ==
  \/ Receive(w) \/ QuitOnCancel(w) \/ Abandon(w) \/ Begin(w)
  \/ SendReturns(w) \/ Fatal(w) \/ Finish(w)
-----------------------------------------------------------------------------
(* The environment: the parent context and the queue's owner. *)

ParentCancel ==
  /\ ~canceled
  /\ canceled' = TRUE
  /\ UNCHANGED <<stopped, queueVars, ready, workerVars, errors, fatalDone,
                 owner, accepted, lastStarted>>

OwnerStop ==
  /\ owner = "run"
  /\ Stop
  /\ owner' = "stopping"
  /\ UNCHANGED <<ready, workerVars, errors, fatalDone, accepted, lastStarted>>

\* q.wg.Wait.
NoneSending == \A w \in Pool : pc[w] \notin InCallback   \* mutant: Done too early
AllExited == \A w \in Pool : pc[w] \in {"none", "exited"}
Wait ==
  /\ owner = "stopping" /\ AllExited
  /\ owner' = "joined"
  /\ UNCHANGED <<stopped, canceled, queueVars, ready, workerVars, errors,
                 fatalDone, accepted, lastStarted>>

Next ==
  \/ \E a \in Targets, size \in Sizes : Enqueue(a, size)
  \/ \E w \in Pool : Worker(w)
  \/ ParentCancel
  \/ OwnerStop
  \/ Wait

Safety == Init /\ [][Next]_vars

(***************************************************************************)
(* Fairness.  Goroutines that can step do (Go scheduler); a callback       *)
(* returns once its context is canceled, as NewPacketSendQueue requires of *)
(* its caller, and otherwise only if its target is not slow.               *)
(***************************************************************************)
CallbackReturns(w) ==
  SendReturns(w) /\ (canceled \/ hand[w] \notin SlowTargets)

Fairness ==
  /\ \A w \in Pool :
       /\ WF_vars(Receive(w)) /\ WF_vars(QuitOnCancel(w))
       /\ WF_vars(Abandon(w)) /\ WF_vars(Begin(w))
       /\ WF_vars(CallbackReturns(w))
       /\ WF_vars(Fatal(w)) /\ WF_vars(Finish(w))
  /\ WF_vars(Wait)

Spec == Safety /\ Fairness
-----------------------------------------------------------------------------
(* Properties. *)

\* Types of the variables; the pool never outgrows the target ceiling.  The
\* counters packets, bytes and used have no clause here: Accounting says
\* exactly which number each of them is.
TypeOK ==
  /\ stopped \in BOOLEAN /\ canceled \in BOOLEAN
  /\ keys \in SUBSET Targets
  /\ queue \in [Targets -> Seq(Item)] /\ active \in [Targets -> BOOLEAN]
  /\ ready \in Seq(Targets)
  /\ workers \in 0..maxTargets
  /\ pc \in [Pool -> PC] /\ hand \in [Pool -> Targets]
  /\ item \in [Pool -> Item]
  /\ errors \in Seq(Pool) /\ fatalDone \in BOOLEAN
  /\ owner \in {"run", "stopping", "joined"}
  /\ accepted \in Nat /\ lastStarted \in [Targets -> Nat]

Sending(a) == {w \in Pool : pc[w] \in InCallback /\ hand[w] = a}
WorkOf(a) == Len(queue[a]) + Cardinality(Sending(a))
SendingBytes(a) == MapThenSumSet(LAMBDA w : item[w].charge, Sending(a))
WorkBytesOf(a) == QueueBytes(queue[a]) + SendingBytes(a)
Work == MapThenSumSet(WorkOf, Targets)
WorkBytes == MapThenSumSet(WorkBytesOf, Targets)

Accounting ==
  /\ packets = Work /\ bytes = WorkBytes
  /\ \A a \in keys : used[a].packets = WorkOf(a)
                    /\ used[a].bytes = WorkBytesOf(a)
  /\ \A a \in Targets \ keys : WorkOf(a) = 0

\* The counters the limits are checked against are exactly the packets and
\* bytes that wait or are in a callback, per lane and in total, through Stop
\* and fatal errors too ("an active item remains charged until its callback
\* actually returns"), and the work really held stays inside the shared
\* budgets, one target never holding more than half of them.
Budget ==
  /\ Accounting
  /\ Work <= maxPackets /\ WorkBytes <= QueueMaxBytes
  /\ \A a \in Targets : WorkOf(a) <= maxTargetPackets
                       /\ WorkBytesOf(a) <= TargetMaxBytes

\* Callbacks of one target never overlap, even while the queue shuts down.
\* While it is live, no two workers hold one lane, and the lane a worker took
\* has a packet (run indexes queue[0] without looking).
Holding == InCallback \cup {"got"}
LaneExclusive ==
  /\ \A v, w \in Pool :
       pc[v] \in InCallback /\ pc[w] \in InCallback /\ hand[v] = hand[w] => v = w
  /\ ~canceled =>
       /\ \A v, w \in Pool :
            pc[v] \in Holding /\ pc[w] \in Holding /\ hand[v] = hand[w] => v = w
       /\ \A w \in Pool : pc[w] = "got" => queue[hand[w]] # <<>>

ReadyNeverBlocks == Len(ready) <= maxTargets
OneFatalError == Len(errors) <= 1 /\ (errors # <<>> => stopped)

\* q.ready <- lane runs while q.mu is held, and q.errors <- err has no reader:
\* were either channel ever full, its sender would hang, the first one with the
\* mutex.  At most one error is ever put into the one-entry buffer, however
\* many callbacks fail at once, and the queue that reported one is stopped.
SendsNeverBlock == ReadyNeverBlocks /\ OneFatalError

\* Once Wait has returned no worker is alive and none can start again: the
\* owner may release the socket the callbacks use.
NoWorkAfterWait ==
  owner = "joined" => \A w \in Pool : pc[w] \in {"none", "exited"}

\* Callbacks of one target begin in the order Enqueue accepted the packets.
TargetFIFO ==
  [][\A a \in Targets : lastStarted'[a] # lastStarted[a]
                         => lastStarted'[a] > lastStarted[a]]_vars

Waiting(a, id) == \E i \in DOMAIN queue[a] : queue[a][i].id = id

\* A slow target never delays the others: every packet waiting for a target
\* that is not slow is eventually taken by a worker (or discarded by Stop),
\* although callbacks of slow targets never return on their own.
SlowTargetsIsolated ==
  \A a \in Targets \ SlowTargets, id \in 1..MaxAccepted :
    Waiting(a, id) ~> ~Waiting(a, id)

\* After Stop, Wait returns: every worker leaves, whatever it was doing.
WaitReturns == (owner = "stopping") ~> (owner = "joined")

\* Charges are exact, a target has one callback, and no send under the lock
\* blocks, whatever order workers, Stop and Enqueue come in.
Bookkeeping == Budget /\ LaneExclusive /\ SendsNeverBlock

\* What was accepted is sent unless its own target is slow or the queue stops,
\* and stopping ends all workers (work, run, Wait).
WorkGoesOn == SlowTargetsIsolated /\ WaitReturns
=============================================================================
