----------------------------- MODULE MCWebClient -----------------------------
(***************************************************************************)
(* The web client: its breaker between HTTP/3 and HTTP/2 (WebClient), the  *)
(* continuation credentials of one of its connections with the exit's      *)
(* replay window (WebSessionAuth), that window under any arrivals, and the *)
(* full credentials with the exit's nonce cache (NonceCache).  They share  *)
(* no state but the window; a behaviour runs one of them, part.            *)
(*                                                                         *)
(* Breaker: two stream callers, one UDP caller, three calls and one        *)
(* out-of-band report.  Credentials: three requesters, words of two bits   *)
(* and seven numbers, so that a few requests fill, overrun and use         *)
(* up the window, and the window moves by less than a word, by more and by *)
(* more than all of it.  Nonces: three nonces, two requests, clocks off by *)
(* one, a skew of one and a cache of two.                                  *)
(***************************************************************************)
EXTENDS WebSessionAuth

CONSTANTS
  StreamCallers, PacketCallers, MaxCalls, MaxReports,       \* of the breaker
  Requests, Nonces, Offsets, Skew, MaxEntries, MaxTime      \* of the nonce cache

ASSUME WebAssumption ==
  Skew \in Nat /\ MaxTime \in Nat /\ Offsets \subseteq Int

ClockOffsets == {-1, 0, 1}

VARIABLES
  part,
  circuit, probeID, nextID, stateID, stopped, dial, packet, calls, reports,
  verdicts, probers, handed,
  clock, signed, nonces, request, accepted, latest

Client == INSTANCE WebClient WITH
  Callers <- StreamCallers, closed <- stopped, call <- dial
Nonce == INSTANCE NonceCache WITH issued <- signed, uses <- accepted

breakerVars ==
  <<circuit, probeID, nextID, stateID, stopped, dial, packet, calls, reports,
    verdicts, probers, handed>>
nonceVars == <<clock, signed, nonces, request, accepted, latest>>
webVars == <<part, vars, breakerVars, nonceVars>>

WebInit ==
  /\ Init /\ Client!Init /\ Nonce!Init
  /\ part \in {"credentials", "window", "breaker", "nonces"}

Runs(p) == part = p /\ UNCHANGED part
Credentials == Runs("credentials") /\ UNCHANGED <<breakerVars, nonceVars>>
AnyArrivals ==
  Runs("window") /\ UNCHANGED <<clientVars, call, issued, breakerVars, nonceVars>>
Breaker == Runs("breaker") /\ UNCHANGED <<vars, nonceVars>>
FullCredentials == Runs("nonces") /\ UNCHANGED <<vars, breakerVars>>

WebNext ==
  \/ Credentials /\ Next
  \/ AnyArrivals /\ Server!Next
  \/ Breaker /\ Client!Next
  \/ FullCredentials /\ Nonce!Next

WebSafety == WebInit /\ [][WebNext]_webVars

WebSpec ==
  /\ WebSafety
  /\ \A c \in Callers : /\ WF_webVars(Credentials /\ Proceed(c))
                         /\ WF_webVars(Credentials /\ Complete(c))
  /\ WF_webVars(Breaker /\ Client!Progress)
-----------------------------------------------------------------------------
\* One caller probes an open circuit at a time (shouldTryPrimary).
SingleProbe == Client!SingleProbe

\* The circuit shows the verdict of the newest attempt that reported one
\* (recordPrimaryFailure, recordPrimaryHealthy).
NewestVerdict == Client!NewestVerdict

\* The exit takes no continuation credential twice (webSessionReplayWindow).
ImplementsSingleUse == Server!ImplementsSingleUse

\* A full credential's nonce buys one request (acceptNonce).
NonceSingleUse == Nonce!NonceSingleUse

\* No connection is handed out after Close (DialContext).
NothingAfterClose == Client!NothingAfterClose

\* A probe is always given up (primaryAttemptFinished).
ProbeReleased == Client!ProbeReleased
=============================================================================
