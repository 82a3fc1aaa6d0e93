----------------------------- MODULE ClientEvents -----------------------------
(***************************************************************************)
(* Transport events of the native client (internal/tunnel, quic.go and     *)
(* observability.go): the path last selected, the bounded queue of pending *)
(* transitions, and the dispatcher goroutine that hands them to the        *)
(* application's handler.                                                  *)
(*                                                                         *)
(* Granularity.  A commit is one critical section of c.mu, in which the    *)
(* queue is filled under c.eventMu; the dispatcher's turns are critical    *)
(* sections of c.eventMu.  Events are numbered in commit order, reasons    *)
(* and times are left out.  A handler is configured; it may panic, which   *)
(* emitClientEvent contains, so that too is a return.                      *)
(***************************************************************************)
EXTENDS Integers, Sequences, FiniteSets

CONSTANTS
  Callers,       \* goroutines that commit transitions (DialContext calls)
  Dispatchers,   \* names for dispatchClientEvents goroutines
  MaxPending,    \* maxPendingClientEvents (16 in the code), at least 1
  MaxEvents      \* bound: transitions committed in one behaviour

VARIABLES
  selected,        \* c.selectedTransport: "none", "quic" or "tls"
  lastFallback,    \* c.lastSelectedFallback
  lastEvent,       \* c.lastEvent; no event yet is NoEvent
  eventQueue,      \* c.eventQueue
  dispatching,     \* c.eventDispatching
  caller,          \* "idle", or "spawn": about to start a dispatcher
  dispatcher,      \* each dispatcher: "off", "head" or "handler"
  delivered        \* history: the event last handed to the handler

vars == <<selected, lastFallback, lastEvent, eventQueue, dispatching, caller,
          dispatcher, delivered>>

Event == [n : Nat, kind : {"fallback", "recovery"}]
NoEvent == [n |-> 0, kind |-> "recovery"]

Init ==
  /\ selected = "none" /\ lastFallback = FALSE /\ lastEvent = NoEvent
  /\ eventQueue = <<>> /\ dispatching = FALSE
  /\ caller = [c \in Callers |-> "idle"]
  /\ dispatcher = [d \in Dispatchers |-> "off"]
  /\ delivered = NoEvent
-----------------------------------------------------------------------------
\* A full queue forgets its newest entry, not the newest event.
QueueKeepsOldest(e) ==                          \* mutant: the new event is lost
  IF Len(eventQueue) = MaxPending THEN eventQueue ELSE Append(eventQueue, e)
QueueDropsHead(e) ==                            \* mutant: the newest goes first
  IF Len(eventQueue) = MaxPending
  THEN [eventQueue EXCEPT ![1] = e] ELSE Append(eventQueue, e)
Queued(e) ==
  IF Len(eventQueue) = MaxPending
  THEN [eventQueue EXCEPT ![MaxPending] = e]
  ELSE Append(eventQueue, e)

\* enqueueClientEvent: whoever finds no dispatcher running starts one.
ClaimDispatch(c) ==
  /\ dispatching' = TRUE
  /\ caller' = IF dispatching THEN caller ELSE [caller EXCEPT ![c] = "spawn"]

Commit(c, kind) ==
  LET e == [n |-> lastEvent.n + 1, kind |-> kind] IN
  /\ lastEvent.n < MaxEvents                    \* bound
  /\ lastEvent' = e
  /\ eventQueue' = Queued(e)
  /\ ClaimDispatch(c)

\* primarySucceeded: a recovery only if the fallback was selected last.
PrimarySucceeded(c) ==
  /\ caller[c] = "idle"
  /\ selected' = "quic" /\ lastFallback' = FALSE
  /\ IF lastFallback
     THEN Commit(c, "recovery")
     ELSE UNCHANGED <<lastEvent, eventQueue, dispatching, caller>>
  /\ UNCHANGED <<dispatcher, delivered>>

\* recordFallback: an event only for the first fallback in a row.
RecordFallback(c) ==
  /\ caller[c] = "idle"
  /\ selected' = "tls" /\ lastFallback' = TRUE
  /\ IF ~lastFallback
     THEN Commit(c, "fallback")
     ELSE UNCHANGED <<lastEvent, eventQueue, dispatching, caller>>
  /\ UNCHANGED <<dispatcher, delivered>>

\* go c.dispatchClientEvents(), outside the lock.
Spawn(c) ==
  /\ caller[c] = "spawn"
  /\ caller' = [caller EXCEPT ![c] = "idle"]
  /\ \E d \in Dispatchers :
       /\ dispatcher[d] = "off"
       /\ dispatcher' = [dispatcher EXCEPT ![d] = "head"]
  /\ UNCHANGED <<selected, lastFallback, lastEvent, eventQueue, dispatching,
                 delivered>>
-----------------------------------------------------------------------------
(* dispatchClientEvents. *)

\* The next event is taken under the lock and handed to the handler.
Deliver(d) ==
  /\ dispatcher[d] = "head" /\ eventQueue # <<>>
  /\ delivered' = Head(eventQueue)
  /\ eventQueue' = Tail(eventQueue)
  /\ dispatcher' = [dispatcher EXCEPT ![d] = "handler"]
  /\ UNCHANGED <<selected, lastFallback, lastEvent, dispatching, caller>>

HandlerReturns(d) ==
  /\ dispatcher[d] = "handler"
  /\ dispatcher' = [dispatcher EXCEPT ![d] = "head"]
  /\ UNCHANGED <<selected, lastFallback, lastEvent, eventQueue, dispatching,
                 caller, delivered>>

\* An empty queue ends the dispatcher, in the section that saw it empty.
StaysClaimed == dispatching' = dispatching      \* mutant: the flag is kept
Unclaim == dispatching' = FALSE
Drained(d) ==
  /\ dispatcher[d] = "head" /\ eventQueue = <<>>
  /\ Unclaim
  /\ dispatcher' = [dispatcher EXCEPT ![d] = "off"]
  /\ UNCHANGED <<selected, lastFallback, lastEvent, eventQueue, caller,
                 delivered>>

Dispatch(d) == Deliver(d) \/ HandlerReturns(d) \/ Drained(d)

Next ==
  \/ \E c \in Callers : PrimarySucceeded(c) \/ RecordFallback(c) \/ Spawn(c)
  \/ \E d \in Dispatchers : Dispatch(d)

Safety == Init /\ [][Next]_vars

\* Goroutines that can step do; a handler returns, as ClientEventHandler asks
\* of applications.
Progress == (\E c \in Callers : Spawn(c)) \/ \E d \in Dispatchers : Dispatch(d)

Spec == Safety /\ WF_vars(Progress)
-----------------------------------------------------------------------------
(* Properties. *)

TypeOK ==
  /\ selected \in {"none", "quic", "tls"} /\ lastFallback \in BOOLEAN
  /\ lastEvent \in Event /\ delivered \in Event
  /\ eventQueue \in Seq(Event) /\ Len(eventQueue) <= MaxPending
  /\ dispatching \in BOOLEAN
  /\ caller \in [Callers -> {"idle", "spawn"}]
  /\ dispatcher \in [Dispatchers -> {"off", "head", "handler"}]

\* Whenever no dispatcher is left the handler has been told the latest
\* transition, and what it was told last is the path Snapshot reports: a
\* stalled handler may miss intermediate transitions, never the last one.
LatestTold ==
  ~dispatching =>
    /\ delivered = lastEvent
    /\ selected = "tls" <=> delivered.kind = "fallback"

\* The handler sees transitions in state-commit order, and only once, although
\* a full queue is rewritten in place, and has seen the latest whenever no
\* dispatcher is left.
EventsInOrder ==
  [][/\ delivered' # delivered => delivered'.n > delivered.n
     /\ LatestTold']_vars

\* The handler is told the last transition, or one that came after it.
Settled == ~dispatching /\ LatestTold
EventuallyTold == <>[]Settled
=============================================================================
