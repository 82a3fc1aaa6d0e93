------------------------------- MODULE SingleUse -------------------------------
(***************************************************************************)
(* What continuation authentication promises about the credentials of one  *)
(* connection: each sequence number buys at most one request ("verifies    *)
(* and consumes", verifyAuthorization in internal/tunnel).                 *)
(***************************************************************************)
EXTENDS Naturals

CONSTANT MaxSequence     \* the greatest sequence number

VARIABLE uses            \* how often each sequence number was accepted

Init == uses = [s \in 1..MaxSequence |-> 0]

Use(s) ==
  /\ uses[s] = 0
  /\ uses' = [uses EXCEPT ![s] = 1]

Next == \E s \in 1..MaxSequence : Use(s)

Spec == Init /\ [][Next]_uses
=============================================================================
