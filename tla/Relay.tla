--------------------------------- MODULE Relay ---------------------------------
(* The byte relays: relay of internal/tunnel/common.go (native QUIC, TLS and    *)
(* HTTP/3 streams), relayWebH2 of web_handler.go, and relay of                  *)
(* internal/proxy/relay.go with its whole-tunnel idle deadline.  Each runs two  *)
(* pumps, one per direction, while either end may finish, reset, stop reading,  *)
(* or be closed under them when the relay's owner goes away.                    *)
EXTENDS Naturals, FiniteSets

CONSTANTS MaxData,  \* bound: chunks both ends send
          Idle      \* the proxy's idle timeout, in ticks

Ends == {"a", "b"}                    \* a: the client's side, b: the target's
Other(e) == IF e = "a" THEN "b" ELSE "a"
Kinds == {"tunnel", "h2", "proxy"}

VARIABLES kind,     \* which of the relays
          sent,     \* chunks each end's peer has sent
          end,      \* how its peer ended: "open", "eof" or "reset"
          put,      \* chunks written to each end
          fin,      \* its write side is half-closed
          shut,     \* it is closed on our side
          pump,     \* the pump that reads each end
          out,      \* how it ended
          owner,    \* "live", "gone", "closing" or "closed"
          left,     \* ticks until both read deadlines of the proxy's relay
          age,      \* ticks since each pump last moved data
          returned  \* the relay joined both pumps
vars == <<kind, sent, end, put, fin, shut, pump, out, owner, left, age, returned>>

outside == <<kind, sent, end>>

Init == /\ kind \in Kinds /\ sent = [e \in Ends |-> 0] /\ end = [e \in Ends |-> "open"]
        /\ put = [e \in Ends |-> 0] /\ fin = [e \in Ends |-> FALSE]
        /\ shut = [e \in Ends |-> FALSE] /\ pump = [e \in Ends |-> "read"]
        /\ out = [e \in Ends |-> "none"] /\ owner = "live"
        /\ left = Idle /\ age = [e \in Ends |-> 0] /\ returned = FALSE

PeerSends(e) == /\ end[e] = "open" /\ sent["a"] + sent["b"] < MaxData
                /\ pump[e] \notin {"report", "done"}  \* nobody would read it
                /\ sent' = [sent EXCEPT ![e] = @ + 1]
                /\ UNCHANGED <<kind, end, put, fin, shut, pump, out, owner, left, age, returned>>
PeerEnds(e, how) == /\ end[e] = "open" /\ end' = [end EXCEPT ![e] = how] /\ ~returned
                    /\ UNCHANGED <<kind, sent, put, fin, shut, pump, out, owner, left, age, returned>>
Tick == /\ kind = "proxy" /\ left > 0 /\ ~shut["a"] /\ ~shut["b"] /\ left' = left - 1
        /\ age' = [e \in Ends |-> IF age[e] < Idle THEN age[e] + 1 ELSE Idle]
        /\ UNCHANGED <<outside, put, fin, shut, pump, out, owner, returned>>

To(e, s) == pump' = [pump EXCEPT ![e] = s]
Moved(e, touch, next) ==
  IF kind = "proxy" THEN To(e, touch) /\ age' = [age EXCEPT ![e] = 0]
                    ELSE To(e, next) /\ age' = age
Read(e) == /\ pump[e] = "read" /\ ~shut[e] /\ end[e] # "reset"
           /\ put[Other(e)] < sent[e] /\ Moved(e, "got", "write")
           /\ UNCHANGED <<outside, put, fin, shut, out, owner, left, returned>>
\* Closing our side of an end ends its reads and writes, except that the Close of
\* an HTTP/2 response (webResponseStream) closes the request body only: a Write
\* that waits for the client's flow control goes on waiting.
WriteShut(d) == shut[d] /\ ~(kind = "h2" /\ d = "a")
Wrote(e) == /\ pump[e] = "write" /\ ~WriteShut(Other(e)) /\ end[Other(e)] # "reset"
            /\ put' = [put EXCEPT ![Other(e)] = @ + 1] /\ Moved(e, "gave", "read")
            /\ UNCHANGED <<outside, fin, shut, out, owner, left, returned>>

\* relayActivity.refresh reads the clock under its mutex and moves the read
\* deadline of both ends.
Touching(e) == pump[e] \in {"got", "gave"}
DeadlineOfOldClock(e) == Idle - age[e]
DeadlineFrom(e) == Idle
Refresh(e) == /\ Touching(e) /\ left' = DeadlineFrom(e)
              /\ To(e, IF pump[e] = "got" THEN "write" ELSE "read")
              /\ UNCHANGED <<outside, put, fin, shut, out, owner, age, returned>>

Stop(e, how) == /\ To(e, "report") /\ out' = [out EXCEPT ![e] = how]
                /\ UNCHANGED <<outside, put, fin, shut, owner, left, age, returned>>
ReadEnds(e) ==
  /\ pump[e] = "read"
  /\ \/ shut[e] /\ \E how \in {"closed", "hard"} : Stop(e, how)
     \/ ~shut[e] /\ end[e] = "reset" /\ Stop(e, "hard")
     \/ ~shut[e] /\ end[e] = "eof" /\ put[Other(e)] = sent[e] /\ Stop(e, "eof")
\* Both reads of the proxy's relay carry the idle deadline.
ReadTimesOut(e) == /\ pump[e] = "read" /\ kind = "proxy" /\ ~shut[e] /\ left = 0
                   /\ Stop(e, "idle")
\* A refresh fails on an end that is closed; a write also on one that was reset,
\* or whose bounded write stalls (destinationWriteConn, writeWithStallDeadline).
Bounded(d) == kind = "proxy" \/ d = "b"
WriteFails(e) ==
  \/ pump[e] = "write" /\ WriteShut(Other(e)) /\ Stop(e, "closed")
  \/ Touching(e) /\ (shut["a"] \/ shut["b"]) /\ Stop(e, "closed")
  \/ pump[e] = "write" /\ ~WriteShut(Other(e)) /\ end[Other(e)] = "reset" /\ Stop(e, "hard")
  \/ pump[e] = "write" /\ ~WriteShut(Other(e)) /\ Bounded(Other(e)) /\ Stop(e, "hard")

\* What ends a direction in order.  The tunnels count a local close as an end;
\* relayWebH2 treats every end of the download as the end of the stream.
InOrderIfClosed(e) == out[e] \in {"eof", "closed", "idle"}
InOrder(e) == \/ out[e] = "eof"
              \/ out[e] = "closed" /\ kind # "proxy"
\* The half-close of an end that was reset may fail, for which only the proxy
\* aborts.
HalfClose(d) == fin' = [fin EXCEPT ![d] = @ \/ ~shut[d]] /\ shut' = shut
HalfCloseFails(d) == kind = "proxy" /\ ~shut[d] /\ end[d] = "reset"
AbortOne(e) == shut' = [shut EXCEPT ![e] = TRUE] /\ fin' = fin
Abort(e) == shut' = [x \in Ends |-> TRUE] /\ fin' = fin
Finish(e) ==
  /\ pump[e] = "report" /\ To(e, "done")
  /\ IF InOrder(e) /\ ~(kind = "h2" /\ e = "b")
     THEN HalfClose(Other(e)) \/ (HalfCloseFails(Other(e)) /\ Abort(e))
     ELSE Abort(e)
  /\ UNCHANGED <<outside, put, out, owner, left, age, returned>>

\* The connection, request or server that owns the relay ends.  It takes a
\* tunnel's stream with it; the target, and both ends of the proxy's relay, are
\* closed by callbacks, the target first.
OwnerGone ==
  /\ owner = "live" /\ ~returned /\ owner' = "gone"
  /\ end' = IF kind = "proxy" THEN end ELSE [end EXCEPT !["a"] = "reset"]
  /\ UNCHANGED <<kind, sent, put, fin, shut, pump, out, left, age, returned>>
OwnerCloses ==
  /\ \/ owner = "gone" /\ shut' = [shut EXCEPT !["b"] = TRUE]
        /\ owner' = IF kind = "proxy" THEN "closing" ELSE "closed"
     \/ owner = "closing" /\ shut' = [shut EXCEPT !["a"] = TRUE] /\ owner' = "closed"
  /\ UNCHANGED <<outside, put, fin, pump, out, left, age, returned>>
\* The relay joins its pumps and a close callback that has started.
Return == /\ \A e \in Ends : pump[e] = "done"
          /\ ~returned /\ owner \in {"live", "closed"} /\ returned' = TRUE
          /\ UNCHANGED <<outside, put, fin, shut, pump, out, owner, left, age>>

Acts(e) == Read(e) \/ Refresh(e) \/ ReadEnds(e) \/ ReadTimesOut(e) \/ Finish(e)
Next == \/ \E e \in Ends : \/ PeerSends(e) \/ PeerEnds(e, "eof") \/ PeerEnds(e, "reset")
                           \/ Acts(e) \/ Wrote(e) \/ WriteFails(e)
        \/ Tick \/ OwnerGone \/ OwnerCloses \/ Return
\* No peer is assumed to read, so no write is assumed to succeed; a stalled one
\* fails when it is bounded or its end is closed.
Progress == \/ \E e \in Ends : Acts(e) \/ WriteFails(e)
            \/ OwnerCloses \/ Return
Spec == Init /\ [][Next]_vars /\ WF_vars(Progress)
-----------------------------------------------------------------------------
\* Unless the owner went away, a half-close follows a whole stream: every chunk
\* the other end sent before its FIN has been written (io.Copy, copyHalf).
CleanEnd == \A e \in Ends : fin[e] /\ owner = "live" /\ ~shut[e]
                              => end[Other(e)] = "eof" /\ put[e] = sent[Other(e)]

\* The proxy's relay idles out only when neither direction has moved anything
\* for the whole timeout: no refresh brings the deadlines back to an older one,
\* as long as nobody is closing the tunnel (relayActivity.refresh).
IdleIsWholeTunnel ==
  [][\A e \in Ends : out'[e] = "idle" /\ out[e] # "idle" /\ ~(shut["a"] \/ shut["b"])
       => \A x \in Ends : Touching(x) \/ age[x] >= Idle]_vars

\* The download of an HTTP/2 tunnel waits for a client that does not read, which
\* closing the tunnel on our side does not end (relayWebH2).
WaitsForReader == kind = "h2" /\ pump["b"] = "write" /\ end["a"] # "reset"

\* A hard error, a timeout, an abort or the end of the owner ends both pumps, so
\* that no goroutine is left behind in a blocked Read or Write (relay, relayWebH2,
\* watchRelayOwner), unless it is the response's Write just named.
Settled == (owner # "live" \/ shut["a"] \/ \E e \in Ends : out[e] \in {"hard", "idle"})
             => returned \/ WaitsForReader

\* A target that stalls a pending write of the tunnel, while both ends live, costs
\* the tunnel its stream slot no longer than that write lasts (destinationWriteConn).
Stalled == kind # "proxy" /\ out["a"] = "hard" /\ \A e \in Ends : end[e] = "open"
StalledTargetReleases == Stalled ~> returned
=============================================================================
