----------------------------- MODULE StreamTimers -----------------------------
(* webH2Conn of internal/tunnel/web_stream.go: a net.Conn over one HTTP/2       *)
(* CONNECT stream.  HTTP/2 has no deadline of its own, so each direction's      *)
(* deadline is a timer whose callback ends the whole stream.  A timer that has  *)
(* fired waits for mu while the deadline it served is replaced or the stream    *)
(* closes; the direction's sequence number tells whether it still counts.       *)
EXTENDS Naturals, FiniteSets

CONSTANTS MaxSets  \* bound: calls that set deadlines

Sides == {"read", "write"}

VARIABLES open,      \* not closed
          expired,   \* readExpired, writeExpired
          seq,       \* readSeq, writeSeq
          due,       \* the deadlines: "none", "ahead" or "passed"
          armed,     \* sides whose timer is armed
          fired,     \* timer callbacks that wait for mu: [side, seq]
          closers,   \* calls of closeStream under way
          released,  \* closeOnce ran: request canceled, pipe and body closed
          sets       \* calls that set deadlines so far
vars == <<open, expired, seq, due, armed, fired, closers, released, sets>>

Init == /\ open = TRUE /\ expired = [s \in Sides |-> FALSE] /\ seq = [s \in Sides |-> 0]
        /\ due = [s \in Sides |-> "none"] /\ armed = {} /\ fired = {} /\ closers = 0
        /\ released = FALSE /\ sets = 0

\* SetDeadline, SetReadDeadline and SetWriteDeadline stop the timers of their
\* sides and start new ones; once the stream is closed they return ErrClosed.
Set(sides, d) ==
  /\ open /\ sets < MaxSets /\ sets' = sets + 1
  /\ seq' = [s \in Sides |-> IF s \in sides THEN seq[s] + 1 ELSE seq[s]]
  /\ due' = [s \in Sides |-> IF s \in sides THEN d ELSE due[s]]
  /\ armed' = IF d = "none" THEN armed \ sides ELSE armed \cup sides
  /\ UNCHANGED <<open, expired, fired, closers, released>>

Passes(s) == /\ due[s] = "ahead" /\ due' = [due EXCEPT ![s] = "passed"]
             /\ UNCHANGED <<open, expired, seq, armed, fired, closers, released, sets>>
Fires(s) == /\ s \in armed /\ due[s] = "passed" /\ armed' = armed \ {s}
            /\ fired' = fired \cup {[side |-> s, seq |-> seq[s]]}
            /\ UNCHANGED <<open, expired, seq, due, closers, released, sets>>

\* stopTimersLocked
StopTimers == armed' = {} /\ seq' = [s \in Sides |-> seq[s] + 1]

CountsWhenever(t) == open
Counts(t) == open /\ t.seq = seq[t.side]
\* expireRead and expireWrite: both sides that are due report the timeout.
Expire(t) ==
  /\ t \in fired /\ fired' = fired \ {t}
  /\ IF Counts(t)
     THEN /\ expired' = [s \in Sides |-> expired[s] \/ s = t.side \/ due[s] = "passed"]
          /\ open' = FALSE /\ StopTimers /\ closers' = closers + 1
     ELSE UNCHANGED <<open, expired, seq, armed, closers>>
  /\ UNCHANGED <<due, released, sets>>

\* Close, which the relay and the owner's cancellation may both call.  One that
\* comes after closeStream ran only moves the numbers, and is left out.
Close == /\ closers < 2 /\ open' = FALSE /\ StopTimers /\ closers' = closers + 1
         /\ ~released
         /\ UNCHANGED <<expired, due, fired, released, sets>>
\* closeStream runs once; later callers wait for it and find it done.
CloseStream == /\ closers > 0 /\ closers' = closers - 1 /\ released' = TRUE
               /\ UNCHANGED <<open, expired, seq, due, armed, fired, sets>>

Next == \/ \E sides \in SUBSET Sides \ {{}}, d \in {"none", "ahead", "passed"} : Set(sides, d)
        \/ \E s \in Sides : Passes(s) \/ Fires(s)
        \/ \E t \in fired : Expire(t)
        \/ Close \/ CloseStream
Spec == Init /\ [][Next]_vars
-----------------------------------------------------------------------------
\* A side reports a timeout only for the deadline it has now: a timer that fired
\* just before its deadline was moved, cleared or overtaken by Close ends nothing
\* (webH2Conn.expireRead and expireWrite).
TimersCurrent ==
  [][\A s \in Sides : expired'[s] /\ ~expired[s] => open /\ due[s] = "passed"]_vars
=============================================================================
