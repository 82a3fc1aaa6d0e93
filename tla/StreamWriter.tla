----------------------------- MODULE StreamWriter -----------------------------
(* quicStreamConn of internal/tunnel/quic.go: a net.Conn over a QUIC stream    *)
(* whose writes are paced.  Write and CloseWrite are serialised by writeMu.  A *)
(* writer sleeps in the pacer without the deadline's lock, so deadlines move   *)
(* under it; Close never takes writeMu, so that it can cut off a writer that   *)
(* flow control holds.  What the pacer decides is Pacer's.                     *)
EXTENDS Naturals, FiniteSets

CONSTANTS Callers,     \* goroutines that write or half-close, e.g. a relay pump
          MaxOps,      \* bound: operations a caller makes
          MaxChunks,   \* bound: chunks of one Write
          MaxSets      \* bound: calls of SetDeadline and SetWriteDeadline

VARIABLES pc,        \* where each caller is
          chunks,    \* chunks its Write has still to send
          ops,       \* operations it may still make
          result,    \* what its last operation returned
          mu,        \* who holds writeMu
          deadline,  \* the write deadline: "none", "ahead" or "passed"
          gen,       \* deadlineGeneration
          wait,      \* the pacing wait of mu's holder: [gen, timed, ctx, err]
          paceable,  \* paceCtx is live
          closed, aborted,  \* writeClosed, writeAborted
          closing,   \* Close: "no", "state", "cancel" or "done"
          stream     \* the send side: "open", "fin" or "reset"
vars == <<pc, chunks, ops, result, mu, deadline, gen, wait, paceable, closed,
          aborted, closing, stream>>

Nobody == "nobody"
NoWait == [gen |-> 0, timed |-> FALSE, ctx |-> "none", err |-> "none"]
locks == <<mu, closed, aborted, closing>>

Init == /\ pc = [c \in Callers |-> "idle"] /\ chunks = [c \in Callers |-> 0]
        /\ ops = [c \in Callers |-> MaxOps] /\ result = [c \in Callers |-> "none"]
        /\ mu = Nobody /\ deadline = "none" /\ gen = 0 /\ wait = NoWait
        /\ paceable = TRUE /\ closed = FALSE /\ aborted = FALSE
        /\ closing = "no" /\ stream = "open"

To(c, s) == pc' = [pc EXCEPT ![c] = s]
\* The operation ends; a holder of writeMu releases it.
Return(c, r) == /\ To(c, "idle") /\ result' = [result EXCEPT ![c] = r]
                /\ chunks' = [chunks EXCEPT ![c] = 0]
                /\ mu' = IF mu = c THEN Nobody ELSE mu
                /\ wait' = IF mu = c THEN NoWait ELSE wait

\* A done paceCtx cancels the wait that derives from it, unless it is over.
StopPacing == /\ paceable' = FALSE
              /\ wait' = IF wait.ctx = "live" THEN [wait EXCEPT !.ctx = "canceled"]
                                              ELSE wait

\* Write queues for writeMu.
Write(c) == /\ pc[c] = "idle" /\ ops[c] > 0
            /\ \E n \in 1..MaxChunks : chunks' = [chunks EXCEPT ![c] = n]
            /\ ops' = [ops EXCEPT ![c] = @ - 1] /\ result' = [result EXCEPT ![c] = "none"]
            /\ To(c, "write")
            /\ UNCHANGED <<locks, deadline, gen, wait, paceable, stream>>

WriteEnters(c) ==
  /\ pc[c] = "write" /\ mu = Nobody
  /\ IF closed \/ aborted
     THEN Return(c, "closed")
     ELSE /\ To(c, "pace") /\ mu' = c /\ UNCHANGED <<result, chunks, wait>>
  /\ UNCHANGED <<ops, deadline, gen, paceable, closed, aborted, closing, stream>>

\* waitForPacing captures the deadline and its generation, and publishes the
\* wait's cancel function, in one critical section of deadlineMu.
BeginWait(c) ==
  /\ pc[c] = "pace" /\ To(c, "wait")
  /\ wait' = [gen |-> gen, timed |-> deadline # "none", err |-> "none",
              ctx |-> IF ~paceable THEN "canceled"
                      ELSE IF deadline = "passed" THEN "expired" ELSE "live"]
  /\ UNCHANGED <<chunks, ops, result, locks, deadline, gen, paceable, stream>>

\* The pacer admits the chunk, or reports the end of the context it waits on.
PacerReturns(c, err) ==
  /\ pc[c] = "wait" /\ err \in {"ok", wait.ctx} \ {"live"}
  /\ wait' = [wait EXCEPT !.err = err] /\ To(c, "judge")
  /\ UNCHANGED <<chunks, ops, result, locks, deadline, gen, paceable, stream>>

DeadlineUnmoved == FALSE
DeadlineMoved == wait.gen # gen
\* An interrupted wait starts over when a deadline moved meanwhile; otherwise an
\* expired one is the deadline's error, and an end of paceCtx is net.ErrClosed.
Judge(c) ==
  /\ pc[c] = "judge"
  /\ CASE wait.err = "ok" ->
            /\ To(c, "send") /\ wait' = NoWait /\ UNCHANGED <<chunks, result, mu>>
       [] wait.err # "ok" /\ DeadlineMoved /\ paceable ->
            /\ To(c, "pace") /\ UNCHANGED <<chunks, result, mu, wait>>
       [] OTHER -> Return(c, IF ~paceable THEN "closed"
                             ELSE IF wait.err = "expired" THEN "timeout" ELSE "canceled")
  /\ UNCHANGED <<ops, deadline, gen, paceable, closed, aborted, closing, stream>>

\* stream.Write: flow control may hold it; a reset or the deadline ends it.
Sent(c) ==
  /\ pc[c] = "send" /\ stream = "open"
  /\ IF chunks[c] = 1
     THEN Return(c, "ok")
     ELSE /\ To(c, "pace") /\ chunks' = [chunks EXCEPT ![c] = @ - 1]
          /\ UNCHANGED <<result, mu, wait>>
  /\ UNCHANGED <<ops, deadline, gen, paceable, closed, aborted, closing, stream>>
SendFails(c) ==
  /\ pc[c] = "send"
  /\ \/ stream # "open" /\ Return(c, "reset")
     \/ stream = "open" /\ deadline = "passed" /\ Return(c, "timeout")
  /\ UNCHANGED <<ops, deadline, gen, paceable, closed, aborted, closing, stream>>

\* SetDeadline and SetWriteDeadline: both interrupt the wait that is published.
SetDeadline(d) ==
  /\ gen < MaxSets /\ gen' = gen + 1 /\ deadline' = d
  /\ wait' = IF wait.ctx = "live" THEN [wait EXCEPT !.ctx = "canceled"] ELSE wait
  /\ UNCHANGED <<pc, chunks, ops, result, locks, paceable, stream>>
\* Time passes a deadline; a wait keeps the one it captured.
DeadlinePasses ==
  /\ deadline = "ahead" /\ deadline' = "passed"
  /\ wait' = IF wait.ctx = "live" /\ wait.timed /\ wait.gen = gen
             THEN [wait EXCEPT !.ctx = "expired"] ELSE wait
  /\ UNCHANGED <<pc, chunks, ops, result, locks, gen, paceable, stream>>

\* CloseWrite stops pacing at once, then waits for the current Write.
CloseWrite(c) ==
  /\ pc[c] = "idle" /\ ops[c] > 0 /\ ops' = [ops EXCEPT ![c] = @ - 1]
  /\ result' = [result EXCEPT ![c] = "none"] /\ To(c, "half") /\ StopPacing
  /\ UNCHANGED <<chunks, locks, deadline, gen, stream>>
CloseWriteEnters(c) ==
  /\ pc[c] = "half" /\ mu = Nobody
  /\ IF aborted \/ closed
     THEN /\ Return(c, IF aborted THEN "closed" ELSE "ok") /\ closed' = closed
     ELSE /\ To(c, "fin") /\ mu' = c /\ closed' = TRUE
          /\ UNCHANGED <<chunks, result, wait>>
  /\ UNCHANGED <<ops, deadline, gen, paceable, aborted, closing, stream>>
Fin(c) ==
  /\ pc[c] = "fin" /\ Return(c, "ok")
  /\ stream' = IF stream = "open" THEN "fin" ELSE stream
  /\ UNCHANGED <<ops, deadline, gen, paceable, closed, aborted, closing>>

\* Close, once: it stops pacing and aborts what has not been half-closed.
Close == /\ closing = "no" /\ closing' = "state" /\ StopPacing
         /\ UNCHANGED <<pc, chunks, ops, result, mu, deadline, gen, closed, aborted, stream>>
MarksOnly ==
  /\ closing = "state" /\ aborted' = TRUE /\ closing' = "done"
  /\ UNCHANGED <<pc, chunks, ops, result, mu, deadline, gen, wait, paceable, closed, stream>>
CloseMarks ==
  /\ closing = "state" /\ aborted' = TRUE
  /\ closing' = IF closed THEN "done" ELSE "cancel"
  /\ UNCHANGED <<pc, chunks, ops, result, mu, deadline, gen, wait, paceable, closed, stream>>
CancelWrite ==
  /\ closing = "cancel" /\ closing' = "done"
  /\ stream' = IF stream = "open" THEN "reset" ELSE stream
  /\ UNCHANGED <<pc, chunks, ops, result, mu, deadline, gen, wait, paceable, closed, aborted>>
\* The connection dies, or the peer stops reading; paceCtx ends with the stream.
StreamDies == /\ stream = "open" /\ stream' = "reset" /\ StopPacing
              /\ UNCHANGED <<pc, chunks, ops, result, locks, deadline, gen>>

Runs(c) == \/ WriteEnters(c) \/ BeginWait(c) \/ Judge(c)
           \/ \E e \in {"canceled", "expired"} : PacerReturns(c, e)
           \/ SendFails(c) \/ CloseWriteEnters(c) \/ Fin(c)
Next == \/ \E c \in Callers : \/ Write(c) \/ CloseWrite(c) \/ Runs(c)
                              \/ PacerReturns(c, "ok") \/ Sent(c)
        \/ \E d \in {"none", "ahead", "passed"} : SetDeadline(d)
        \/ DeadlinePasses \/ Close \/ CloseMarks \/ CancelWrite \/ StreamDies

\* Neither the peer nor a deadline is assumed to come to a blocked writer's help.
Progress == (\E c \in Callers : Runs(c)) \/ CloseMarks \/ CancelWrite
Spec == Init /\ [][Next]_vars /\ WF_vars(Progress)
-----------------------------------------------------------------------------
\* A Write reports a deadline only while the current deadline is past, and never
\* a bare context error: a deadline that was extended or cleared while the writer
\* slept in the pacer starts the wait over (quicStreamConn.waitForPacing).
HonestErrors ==
  [][\A c \in Callers : /\ result'[c] # "canceled"
                        /\ result'[c] = "timeout" /\ result[c] # "timeout"
                             => deadline = "passed"]_vars

\* Close ends every pending Write and CloseWrite, whatever flow control, the
\* pacer and the deadlines do (quicStreamConn.Close).
Quiet == \A c \in Callers : pc[c] = "idle"
Settled == closing # "no" => closing = "done" /\ Quiet
CloseUnblocks == <>[]Settled
=============================================================================
