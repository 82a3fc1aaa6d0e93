------------------------------ MODULE NonceCache ------------------------------
(***************************************************************************)
(* Bootstrap credentials of the web-cover transports (internal/tunnel,     *)
(* web_auth.go): clients sign a nonce and the time, the server accepts     *)
(* each credential once while its time is within the allowed skew, and     *)
(* remembers accepted nonces in a bounded cache ordered by expiry.         *)
(*                                                                         *)
(* Granularity.  verifyBearer reads the clock and judges the time with no  *)
(* lock held; acceptNonce is one critical section of v.mu, reached later,  *)
(* so another verification with a newer reading may overtake it.  Signing  *)
(* is one step (s.mu).  A credential may arrive any number of times; one   *)
(* whose text or code is wrong is refused before any state is read, and    *)
(* is left out.  The clock never goes back.                                *)
(***************************************************************************)
EXTENDS Integers, FiniteSets

CONSTANTS
  Requests,     \* requests being verified at the same time
  Nonces,       \* nonces the signers draw, each at most once
  Offsets,      \* how far a client's clock is off the server's
  Skew,         \* webAuthClockSkewSeconds (60)
  MaxEntries,   \* v.maxEntries (65536 unless configured)
  MaxTime       \* the greatest time of the clock (2^63 - 1 in the code)

VARIABLES
  clock,      \* v.now()
  issued,     \* timestamp of each credential signed so far, by nonce
  nonces,     \* v.nonces with v.expiry: nonce -> when it expires
  request,    \* what a request presented and the time it was judged by
  uses,       \* history: how often each nonce was accepted
  latest      \* history: the newest time brought to acceptNonce so far

vars == <<clock, issued, nonces, request, uses, latest>>

Idle == [nonce |-> "none", now |-> 0]

Init ==
  /\ clock = 0 /\ latest = 0
  /\ issued = [n \in {} |-> 0] /\ nonces = [n \in {} |-> 0]
  /\ request = [r \in Requests |-> Idle]
  /\ uses = [n \in Nonces |-> 0]
-----------------------------------------------------------------------------
Tick == clock < MaxTime /\ clock' = clock + 1
        /\ UNCHANGED <<issued, nonces, request, uses, latest>>

\* authorization, on a client: no credential from a clock before the epoch.
Sign(n, offset) ==
  /\ n \notin DOMAIN issued
  /\ clock + offset \in 0..MaxTime
  /\ issued' = [m \in DOMAIN issued \cup {n} |->
                  IF m = n THEN clock + offset ELSE issued[m]]
  /\ UNCHANGED <<clock, nonces, request, uses, latest>>

\* webAuthTimestampAccepted
TimestampAccepted(now, timestamp) ==
  IF timestamp >= now THEN timestamp - now <= Skew ELSE now - timestamp <= Skew

\* verifyBearer up to acceptNonce; a credential out of its time changes nothing.
Present(r, n) ==
  /\ request[r] = Idle /\ n \in DOMAIN issued
  /\ TimestampAccepted(clock, issued[n])
  /\ request' = [request EXCEPT ![r] = [nonce |-> n, now |-> clock]]
  /\ UNCHANGED <<clock, issued, nonces, uses, latest>>

\* Entries leave the cache when their time is over, oldest expiry first.
RemainingEarly(now) == {n \in DOMAIN nonces : now < nonces[n]}  \* mutant: >=
Remaining(now) == {n \in DOMAIN nonces : now <= nonces[n]}

ExpiresAtOnce(timestamp) == timestamp        \* mutant: half the window is lost
Expires(timestamp) ==
  IF timestamp <= MaxTime - Skew THEN timestamp + Skew ELSE MaxTime

Greater(a, b) == IF a >= b THEN a ELSE b

\* acceptNonce: expired entries go first; a nonce still remembered and a full
\* cache refuse, with nothing else forgotten.
AcceptNonce(r) ==
  LET n == request[r].nonce
      remaining == Remaining(request[r].now)
      refused == n \in remaining \/ Cardinality(remaining) >= MaxEntries
  IN /\ request[r] # Idle
     /\ request' = [request EXCEPT ![r] = Idle]
     /\ latest' = Greater(latest, request[r].now)
     /\ nonces' = [m \in remaining \cup (IF refused THEN {} ELSE {n}) |->
                     IF m \in remaining THEN nonces[m] ELSE Expires(issued[n])]
     /\ uses' = [uses EXCEPT ![n] = IF refused THEN @ ELSE @ + 1]
     /\ UNCHANGED <<clock, issued>>

Next ==
  \/ Tick
  \/ \E n \in Nonces, offset \in Offsets : Sign(n, offset)
  \/ \E r \in Requests, n \in Nonces : Present(r, n)
  \/ \E r \in Requests : AcceptNonce(r)

Spec == Init /\ [][Next]_vars
-----------------------------------------------------------------------------
\* A credential buys one request: a request judged by a time no older than the
\* newest time the cache has seen is never accepted with a nonce that was
\* accepted before, whichever entries came, expired and filled the cache in
\* between.  (A request overtaken between reading the clock and taking the lock
\* is excepted: the entry it should have met may have been removed.)
NonceSingleUse ==
  [][\A n \in Nonces :
       uses[n] > 0 /\ uses'[n] > uses[n]
       => \E r \in Requests : request[r].nonce = n /\ request[r].now < latest]_vars
=============================================================================
