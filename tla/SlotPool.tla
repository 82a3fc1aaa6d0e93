-------------------------------- MODULE SlotPool --------------------------------
(***************************************************************************)
(* What connection admission promises, whichever listener uses it: a fixed *)
(* number of slots, a fixed share of them per source address, every        *)
(* connection holding at most one and giving it back once.  The native     *)
(* listeners (QUIC and TLS, sharing ConnectionAdmission) and the web       *)
(* listeners (H2 and H3, sharing webConnectionAdmission) implement it.     *)
(***************************************************************************)
EXTENDS FiniteSets, Naturals

CONSTANTS
  Conns,       \* the connections
  ShareOf(_)   \* the limiter and the source address it is counted under

VARIABLES
  pool,        \* the pool each connection takes its slot from, fixed
  holders,     \* connections with a slot
  admitted,    \* those of them counted against their source
  limits       \* [slots |-> per pool, shares |-> per limiter], fixed

poolVars == <<pool, holders, admitted, limits>>

Init == holders = {} /\ admitted = {}

\* A slot is taken only while the pool has one free.
Take(c) ==
  /\ c \notin holders
  /\ Cardinality({d \in holders : pool[d] = pool[c]}) < limits.slots[pool[c]]
  /\ holders' = holders \cup {c}
  /\ UNCHANGED <<pool, admitted, limits>>

\* A connection counts against its source only within the source's share.
Admit(c) ==
  /\ c \in holders \ admitted
  /\ Cardinality({d \in admitted : ShareOf(d) = ShareOf(c)}) < limits.shares[ShareOf(c)[1]]
  /\ admitted' = admitted \cup {c}
  /\ UNCHANGED <<pool, holders, limits>>

Leave(c) ==
  /\ c \in admitted
  /\ admitted' = admitted \ {c}
  /\ UNCHANGED <<pool, holders, limits>>

Give(c) ==
  /\ c \in holders \ admitted
  /\ holders' = holders \ {c}
  /\ UNCHANGED <<pool, admitted, limits>>

Next == \E c \in Conns : Take(c) \/ Admit(c) \/ Leave(c) \/ Give(c)

Spec == Init /\ [][Next]_poolVars
=============================================================================
