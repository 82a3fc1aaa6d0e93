---------------------------- MODULE WebSessionAuth ----------------------------
(***************************************************************************)
(* Continuation credentials of one web-cover connection (internal/tunnel,  *)
(* web_session_auth.go): the client numbers its requests                   *)
(* (webSessionClientAuth), the numbers travel with concurrent requests and *)
(* arrive in any order, and the server consumes them through its replay    *)
(* window (webSessionServerAuth, module ReplayWindow).                     *)
(*                                                                         *)
(* Granularity.  One action is one critical section of c.mu, or one        *)
(* verifyAuthorization.  A request may arrive any number of times and      *)
(* after its caller has given up.  Keys and tags are left out: only        *)
(* credentials the client issued reach the window.                         *)
(***************************************************************************)
EXTENDS Integers, FiniteSets, FiniteSetsExt

CONSTANTS
  Callers,       \* goroutines that send requests, one after another
  WordBits,      \* 64 in the code; the window is two words
  MaxSequence    \* the last sequence, 2^64 - 1 in the code

ASSUME WebSessionAssumption ==
  WordBits \in Nat \ {0} /\ MaxSequence \in Nat \ {0}

VARIABLES
  highest, seen, uses,  \* the server's window, see ReplayWindow
  next,        \* c.nextSequence
  ended,       \* c.sequenceEnded
  pending,     \* c.pending
  oldest,      \* c.oldestPending
  closed,      \* c.closed
  call,        \* each caller: where it is, and its exchange
  issued       \* history: the sequences of all credentials issued

Server == INSTANCE ReplayWindow
Window == Server!Window

serverVars == <<highest, seen, uses>>
clientVars == <<next, ended, pending, oldest, closed>>
vars == <<serverVars, clientVars, call, issued>>

Init ==
  /\ Server!Init
  /\ next = 1 /\ ended = FALSE /\ pending = {} /\ oldest = 0 /\ closed = FALSE
  /\ call = [c \in Callers |-> [pc |-> "idle", seq |-> 0]]
  /\ issued = {}

Goto(c, label) == call' = [call EXCEPT ![c] = [pc |-> label, seq |-> 0]]
-----------------------------------------------------------------------------
(* authorization. *)

Start(c) ==
  /\ call[c].pc = "idle"
  /\ Goto(c, "try")
  /\ UNCHANGED <<serverVars, clientVars, issued>>

\* The context ended, the session is closed, or its numbers are used up.
GivesUp(c) ==
  /\ call[c].pc \in {"try", "wait"}
  /\ Goto(c, "idle")
  /\ UNCHANGED <<serverVars, clientVars, issued>>

Exhausted == ended
Refused(c) ==
  /\ call[c].pc = "try" /\ (closed \/ Exhausted)
  /\ Goto(c, "idle")
  /\ UNCHANGED <<serverVars, clientVars, issued>>

\* The next sequence is within the window of the oldest unresolved one.
RoomByCount == Cardinality(pending) < Window    \* mutant: requests are counted
Room == pending = {} \/ next - oldest < Window

\* The last number is not followed by another one.
AdvanceForever ==                               \* mutant: the end is not marked
  ended' = ended /\ next' = IF next = MaxSequence THEN next ELSE next + 1
Advance ==
  IF next = MaxSequence
  THEN ended' = TRUE /\ next' = next
  ELSE ended' = ended /\ next' = next + 1

Issue(c) ==
  /\ call[c].pc = "try" /\ ~closed /\ ~Exhausted /\ Room
  /\ call' = [call EXCEPT ![c] = [pc |-> "sent", seq |-> next]]
  /\ pending' = pending \cup {next}
  /\ oldest' = IF pending = {} THEN next ELSE oldest
  /\ Advance
  /\ issued' = issued \cup {next}
  /\ UNCHANGED <<serverVars, closed>>

\* No room: the caller takes the channel that the next change will close.
Block(c) ==
  /\ call[c].pc = "try" /\ ~closed /\ ~Exhausted /\ ~Room
  /\ Goto(c, "wait")
  /\ UNCHANGED <<serverVars, clientVars, issued>>
-----------------------------------------------------------------------------
(* complete and close. *)

\* notifyLocked: everybody who waits tries again.
Woken(record) == IF record.pc = "wait" THEN [record EXCEPT !.pc = "try"] ELSE record
NotifyNobody(calls) == calls                    \* mutant
Notify(calls) == [d \in Callers |-> Woken(calls[d])]

\* The oldest of the sequences that remain.
OldestOf(S) == IF S = {} THEN 0 ELSE Min(S)

\* The response was verified, or the request canceled or abandoned; then the
\* caller completes its exchange.
CompleteLeaks(c) ==                             \* mutant: its number stays pending
  /\ call[c].pc = "sent" /\ Goto(c, "idle")
  /\ UNCHANGED <<serverVars, clientVars, issued>>
Complete(c) ==
  LET done == [call EXCEPT ![c] = [pc |-> "idle", seq |-> 0]]
      s == call[c].seq
  IN
  /\ call[c].pc = "sent"
  /\ pending' = pending \ {s}
  /\ IF s \in pending /\ s = oldest
     THEN oldest' = OldestOf(pending \ {s}) /\ call' = Notify(done)
     ELSE oldest' = oldest /\ call' = done
  /\ UNCHANGED <<serverVars, next, ended, closed, issued>>

\* The session of a connection that is gone.
Close ==
  /\ ~closed
  /\ closed' = TRUE /\ pending' = {}
  /\ call' = Notify(call)
  /\ UNCHANGED <<serverVars, next, ended, oldest, issued>>
-----------------------------------------------------------------------------
(* verifyAuthorization of a request that carries sequence s. *)

Arrive(s) ==
  /\ Server!Accept(s) \/ Server!Reject(s)
  /\ UNCHANGED <<clientVars, call, issued>>

Next ==
  \/ \E c \in Callers : \/ Start(c) \/ GivesUp(c) \/ Refused(c) \/ Issue(c)
                        \/ Block(c) \/ Complete(c)
  \/ Close
  \/ \E s \in issued : Arrive(s)

Safety == Init /\ [][Next]_vars

(***************************************************************************)
(* Fairness.  Goroutines that can step do, and every request is completed: *)
(* callers complete exchanges when the response is verified or the request *)
(* fails, and opening a stream has a timeout.                              *)
(***************************************************************************)
Proceed(c) == Refused(c) \/ Issue(c) \/ Block(c)
Spec ==
  /\ Safety
  /\ \A c \in Callers : WF_vars(Proceed(c)) /\ WF_vars(Complete(c))
-----------------------------------------------------------------------------
(* Properties. *)

CallRecord == [pc : {"idle", "try", "wait", "sent"}, seq : 0..MaxSequence]
ClientTypes ==
  /\ next \in 1..MaxSequence /\ ended \in BOOLEAN
  /\ pending \in SUBSET issued /\ oldest \in 0..MaxSequence
  /\ closed \in BOOLEAN
  /\ call \in [Callers -> CallRecord]
  /\ issued \in SUBSET (1..MaxSequence)
TypeOK == Server!TypeOK /\ ClientTypes

\* "Otherwise fast requests can continuously overtake a single delayed request
\* and make its valid credential too old": whatever overtakes it, the request
\* of a caller that still waits for its answer is accepted on first arrival.
LiveTicketsAccepted ==
  \A c \in Callers :
    call[c].pc = "sent" /\ uses[call[c].seq] = 0
      => Server!Acceptable(call[c].seq)

\* Completions out of order never leave the window anchored elsewhere than at
\* the oldest unresolved request.
OldestExact ==
  pending # {} => oldest \in pending /\ \A s \in pending : oldest <= s

\* No sequence is issued twice, also when the last one has been issued.
NeverReissued ==
  [][\A c \in Callers :
       call[c].pc # "sent" /\ call'[c].pc = "sent" => call'[c].seq \notin issued]_vars

\* No wake-up is lost: whoever waits has no room, on a session that is open and
\* not exhausted (complete tells nobody unless the oldest request resolves).
WaitersHaveNoRoom ==
  \A c \in Callers : call[c].pc = "wait" => ~closed /\ ~ended /\ ~Room

\* Nobody waits for ever on the requests ahead of it.
WaitersWake == \A c \in Callers : []<>(call[c].pc # "wait")

\* Together: every number is issued once, to the last, and no waiter sleeps for
\* ever, on a lost wake-up or otherwise (prepare, complete, close).
NumbersIssued == NeverReissued /\ WaitersWake
=============================================================================
