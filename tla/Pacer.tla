--------------------------------- MODULE Pacer ---------------------------------
(* accel.Controller (internal/accel/pacer.go, capacity_probe.go) in its paced   *)
(* modes: a token bucket that writers of one connection share.  One writer at a *)
(* time holds the admission token and sleeps for capacity; the target rate      *)
(* moves and short probes above it begin and end while it sleeps, and a writer  *)
(* that is canceled gives back what it was charged.  Sizes are in tokens, times *)
(* in ticks; what the estimator derives from a sample is left open.             *)
EXTENDS Integers, FiniteSets

CONSTANTS Writers,
          Burst,      \* bucket size, in tokens
          Rates,      \* steady targets, in tokens per tick
          Allowance,  \* budget of a probe, in tokens
          MaxWait,    \* bound: tokens one Wait asks for
          MaxTime,    \* bound: ticks
          MaxChanges  \* bound: observations that change the rate or a probe

VARIABLES pc, need, got,   \* each writer, what it has still to be admitted, and was
          canceled,        \* writers whose context is done
          holder,          \* who holds the admission token
          nap,             \* the holder's sleep: [until, woken]
          tokens, refilled,  \* the bucket, and lastRefill
          rate,            \* targetRate
          probe,           \* capacityProbe: [active, pending, left, until]
          now, changes,
          credit           \* history: capacity the rates granted less bytes let through
vars == <<pc, need, got, canceled, holder, nap, tokens, refilled, rate, probe, now,
          changes, credit>>

Nobody == "nobody"
Awake == [until |-> 0, woken |-> FALSE]
Lower(m, n) == IF m < n THEN m ELSE n
NoProbe == [active |-> FALSE, pending |-> FALSE, left |-> 0, until |-> 0, rate |-> 0]
bucket == <<tokens, refilled, probe>>

Init == /\ pc = [w \in Writers |-> "idle"] /\ need = [w \in Writers |-> 0]
        /\ got = [w \in Writers |-> 0] /\ canceled = {} /\ holder = Nobody
        /\ nap = Awake /\ tokens = Burst /\ refilled = 0 /\ rate \in Rates
        /\ probe = NoProbe /\ now = 0 /\ changes = 0 /\ credit = 0

\* The rate that is due now, whether or not anyone has looked at the clock.
RateDue == IF probe.active /\ now < probe.until THEN probe.rate ELSE rate
Tick == /\ now < MaxTime /\ now' = now + 1 /\ credit' = credit + RateDue
        /\ UNCHANGED <<pc, need, got, canceled, holder, nap, tokens, refilled, rate,
                       probe, changes>>

\* finishProbeLocked and resolveProbeLocked leave no high-rate admission.
Finished(p) == [p EXCEPT !.active = FALSE, !.pending = TRUE, !.left = 0]
PastDeadline == probe.active /\ now >= probe.until
\* refillLocked: a late look at the clock splits the interval at the deadline.
EarnedByUnsplit == (now - refilled) * (IF probe.active THEN probe.rate ELSE rate)
EarnedBy == IF PastDeadline
            THEN (IF probe.until > refilled THEN (probe.until - refilled) * probe.rate ELSE 0)
                 + (IF probe.until > refilled THEN now - probe.until ELSE now - refilled) * rate
            ELSE (now - refilled) * (IF probe.active THEN probe.rate ELSE rate)
Refilled == [tokens |-> Lower(Burst, tokens + EarnedBy),
             probe |-> IF PastDeadline THEN Finished(probe) ELSE probe]

\* signalStateChangeLocked wakes the sleeper.
WakesNobody(signal) == nap' = nap
Wake(signal) == nap' = [nap EXCEPT !.woken = @ \/ (signal /\ holder # Nobody)]

Wait(w) == /\ pc[w] = "idle" /\ w \notin canceled
           /\ \E n \in {1, MaxWait} : need' = [need EXCEPT ![w] = n]
           /\ pc' = [pc EXCEPT ![w] = "queue"] /\ got' = [got EXCEPT ![w] = 0]
           /\ UNCHANGED <<canceled, holder, nap, bucket, rate, now, changes, credit>>
Cancel(w) == /\ w \notin canceled /\ pc[w] # "idle" /\ canceled' = canceled \cup {w}
             /\ UNCHANGED <<pc, need, got, holder, nap, bucket, rate, now, changes, credit>>

\* admit waits for the token or for the end of its context.
Admission(w) ==
  /\ pc[w] = "queue" /\ holder = Nobody /\ holder' = w
  /\ pc' = [pc EXCEPT ![w] = "admit"]
  /\ UNCHANGED <<need, got, canceled, nap, bucket, rate, now, changes, credit>>

Chunk(w) == Lower(need[w], Burst)
\* One look at the bucket: a chunk the probe cannot cover ends the probe first.
Admit(w) ==
  /\ pc[w] = "admit" /\ holder = w /\ w \notin canceled
  /\ LET r == Refilled
         p == IF r.probe.active /\ Chunk(w) > r.probe.left THEN Finished(r.probe) ELSE r.probe
         due == IF p.active THEN p.rate ELSE rate
         missing == Chunk(w) - r.tokens
         sleep == (missing + due - 1) \div due
     IN /\ refilled' = now
        /\ IF missing <= 0
           THEN /\ tokens' = r.tokens - Chunk(w) /\ credit' = credit - Chunk(w)
                /\ probe' = IF p.active
                            THEN IF p.left = Chunk(w) THEN Finished(p)
                                 ELSE [p EXCEPT !.left = @ - Chunk(w)]
                            ELSE p
                /\ got' = [got EXCEPT ![w] = IF need[w] = Chunk(w) THEN 0 ELSE @ + Chunk(w)]
                /\ need' = [need EXCEPT ![w] = @ - Chunk(w)]
                /\ pc' = [pc EXCEPT ![w] = IF need[w] = Chunk(w) THEN "idle" ELSE "queue"]
                /\ holder' = Nobody /\ nap' = Awake
           ELSE /\ tokens' = r.tokens /\ probe' = p
                /\ nap' = [until |-> now + (IF p.active THEN Lower(sleep, p.until - now)
                                                       ELSE sleep), woken |-> FALSE]
                /\ pc' = [pc EXCEPT ![w] = "sleep"]
                /\ UNCHANGED <<need, got, holder, credit>>
  /\ UNCHANGED <<canceled, rate, now, changes>>

\* sleepUntilStateChange: time, a signal or the context ends the sleep.
Slept(w) == /\ pc[w] = "sleep" /\ (now >= nap.until \/ nap.woken) /\ w \notin canceled
            /\ pc' = [pc EXCEPT ![w] = "admit"]
            /\ UNCHANGED <<need, got, canceled, holder, nap, bucket, rate, now, changes, credit>>
\* Wait fails: the token goes back, and the chunks already admitted are refunded.
RefundedUncapped(w) == Refilled.tokens + got[w]
Refunded(w) == Lower(Burst, Refilled.tokens + got[w])
Interrupted(w) ==
  /\ pc[w] \in {"queue", "admit", "sleep"} /\ w \in canceled
  /\ pc' = [pc EXCEPT ![w] = "idle"] /\ holder' = IF holder = w THEN Nobody ELSE holder
  /\ IF got[w] = 0
     THEN UNCHANGED <<bucket, credit>> /\ nap' = IF holder = w THEN Awake ELSE nap
     ELSE /\ tokens' = Refunded(w) /\ refilled' = now /\ probe' = Refilled.probe
          /\ credit' = credit + got[w]
          /\ IF holder = w THEN nap' = Awake ELSE Wake(TRUE)
  /\ got' = [got EXCEPT ![w] = 0] /\ need' = [need EXCEPT ![w] = 0]
  /\ UNCHANGED <<canceled, rate, now, changes>>
Changing == changes < MaxChanges /\ changes' = changes + 1 /\ refilled' = now
            /\ tokens' = Refilled.tokens
            /\ UNCHANGED <<pc, need, got, canceled, holder, now, credit>>
\* Observe and SetFixedRate install a target; a sample may also end the probe.
SetRate(r, aborts) ==
  /\ Changing /\ rate' = r
  /\ probe' = IF aborts THEN NoProbe ELSE Refilled.probe
  /\ Wake(r # rate \/ PastDeadline \/ (aborts /\ probe.active))
\* observeProbeLocked starts a probe above the target when none is being judged.
BeginProbe(r) ==
  /\ ~probe.active /\ ~probe.pending /\ r > rate /\ Changing /\ rate' = rate
  /\ probe' = [active |-> TRUE, pending |-> FALSE, left |-> Allowance,
               until |-> now + 1, rate |-> r]
  /\ Wake(TRUE)

Runs(w) == Admission(w) \/ Admit(w) \/ Slept(w) \/ Interrupted(w)
Next == \/ Tick
        \/ \E w \in Writers : Wait(w) \/ Cancel(w) \/ Runs(w)
        \/ \E r \in Rates, aborts \in BOOLEAN : SetRate(r, aborts)
        \/ \E r \in Rates : BeginProbe(r)
Spec == Init /\ [][Next]_vars
-----------------------------------------------------------------------------
\* The bucket never holds more than a burst, nor more than a burst and what the
\* rates in force granted and no writer was let through with: cancellations,
\* refunds, rate changes and a late look at an expired probe mint nothing
\* (Controller.refillLocked, refund, admit).
Paced == tokens <= Burst /\ tokens <= Burst + credit

\* Nobody sleeps on a stale delay: while a holder sleeps unsignalled, the capacity
\* it needs is not there before it wakes, whatever rate changes, probes and
\* refunds did meanwhile (Controller.sleepUntilStateChange).
Capacity(at) == Refilled.tokens + (at - now) * RateDue
NoStaleSleep == \A w \in Writers :
  pc[w] = "sleep" /\ ~nap.woken => \A t \in now..(nap.until - 1) : Capacity(t) < Chunk(w)
=============================================================================
