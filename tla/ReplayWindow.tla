----------------------------- MODULE ReplayWindow -----------------------------
(***************************************************************************)
(* The replay window of a web-cover connection (webSessionReplayWindow in  *)
(* internal/tunnel/web_session_auth.go): the highest sequence accepted,    *)
(* and two machine words that remember which of the sequences just below   *)
(* it have been accepted.  A word is the set of its bits that are one;     *)
(* shifts drop the bits that leave it.  accept is one critical section.    *)
(***************************************************************************)
EXTENDS Integers

CONSTANTS
  WordBits,      \* 64 in the code; the window is two words
  MaxSequence    \* 2^64 - 1 in the code; both positive (WebSessionAssumption)

VARIABLES
  highest,   \* w.highest
  seen,      \* w.seen
  uses       \* history: how often each sequence was accepted

windowVars == <<highest, seen, uses>>

Bits == 0..(WordBits - 1)
Window == WordBits + WordBits        \* webSessionReplayWindowBits

Init ==
  /\ highest = 0
  /\ seen = [word \in 0..1 |-> {}]
  /\ uses = [s \in 1..MaxSequence |-> 0]
-----------------------------------------------------------------------------
ShiftLeft(word, n) == {b \in Bits : b - n \in word}
ShiftRight(word, n) == {b \in Bits : b + n \in word}

\* shift: the words after the window has moved up.
ShiftDropsCarry(distance) ==         \* mutant: bits lost between the words
  [word \in 0..1 |-> ShiftLeft(seen[word], distance)]
Shift(distance) ==
  IF distance >= Window THEN [word \in 0..1 |-> {}]
  ELSE IF distance >= WordBits
  THEN [word \in 0..1 |->
          IF word = 0 THEN {} ELSE ShiftLeft(seen[0], distance - WordBits)]
  ELSE [word \in 0..1 |->
          IF word = 0 THEN ShiftLeft(seen[0], distance)
          ELSE ShiftLeft(seen[1], distance)
                 \cup ShiftRight(seen[0], WordBits - distance)]

\* Where a distance below the window has its bit (distance/64, distance%64).
WordOf(distance) == IF distance < WordBits THEN 0 ELSE 1
BitOf(distance) == IF distance < WordBits THEN distance ELSE distance - WordBits
Marked(distance) == BitOf(distance) \in seen[WordOf(distance)]

Count(s) == uses' = [uses EXCEPT ![s] = @ + 1]

AcceptFirst(s) ==
  /\ highest = 0
  /\ highest' = s
  /\ seen' = [seen EXCEPT ![0] = {0}]
  /\ Count(s)

AcceptNewer(s) ==
  /\ highest # 0 /\ s > highest
  /\ highest' = s
  /\ seen' = [Shift(s - highest) EXCEPT ![0] = @ \cup {0}]
  /\ Count(s)

\* An older sequence inside the window, not accepted before.
InWindow(s) == highest - s < Window
AcceptOlderAgain(s) ==               \* mutant: the bit is not looked at
  /\ highest # 0 /\ s <= highest /\ InWindow(s)
  /\ seen' = [seen EXCEPT ![WordOf(highest - s)] = @ \cup {BitOf(highest - s)}]
  /\ UNCHANGED highest
  /\ Count(s)
AcceptOlder(s) ==
  /\ highest # 0 /\ s <= highest /\ InWindow(s) /\ ~Marked(highest - s)
  /\ seen' = [seen EXCEPT ![WordOf(highest - s)] = @ \cup {BitOf(highest - s)}]
  /\ UNCHANGED highest
  /\ Count(s)

Accept(s) == s # 0 /\ (AcceptFirst(s) \/ AcceptNewer(s) \/ AcceptOlder(s))

\* The condition under which accept returns true.
Acceptable(s) ==
  /\ s # 0
  /\ highest = 0 \/ s > highest \/ (InWindow(s) /\ ~Marked(highest - s))

Reject(s) == ~Acceptable(s) /\ UNCHANGED windowVars

Next == \E s \in 0..MaxSequence : Accept(s) \/ Reject(s)

Spec == Init /\ [][Next]_windowVars
-----------------------------------------------------------------------------
(* Properties. *)

TypeOK ==
  /\ highest \in 0..MaxSequence
  /\ seen \in [0..1 -> SUBSET Bits]
  /\ uses \in [1..MaxSequence -> Nat]

\* The two words are an exact record of the last Window sequences: accept takes
\* every number of the window that was not taken before, and no other below
\* the highest.
WindowExact ==
  \A s \in 1..MaxSequence :
    Acceptable(s) <=> uses[s] = 0 /\ (highest = 0 \/ highest - s < Window)

\* The window implements single use: no sequence number is accepted twice,
\* whatever the order and the distances in which the numbers arrive.
Promise == INSTANCE SingleUse
ImplementsSingleUse == Promise!Spec
=============================================================================
