---------------------------- MODULE WebClientProofs ----------------------------
(***************************************************************************)
(* Proofs about the web client as MCWebClient composes it, for any number  *)
(* of callers, calls and reports and words of any width, and about the     *)
(* nonces of its full credentials.                                         *)
(*                                                                         *)
(* Window (ReplayWindow, with arrivals in any order): the bitmap records   *)
(* exactly the accepted numbers of the window, also across its two words,  *)
(* so that it implements SingleUse.                                        *)
(*                                                                         *)
(* Credentials (WebSessionAuth): whatever overtakes it, a live request's   *)
(* credential is accepted, since a live request lies less than a window    *)
(* below the greatest number issued.                                       *)
(*                                                                         *)
(* Breaker (WebClient): attempts that are in their HTTP/3 phase have       *)
(* numbers of their own, none of which has reported yet, so a probe is     *)
(* known by its number and only its own end, a CONNECT-UDP response or     *)
(* Close gives it up; and the state the breaker shows is the verdict with  *)
(* the greatest number, stateID.                                           *)
(*                                                                         *)
(* Nonces (NonceCache): an accepted nonce is remembered until the cache    *)
(* has seen a time at which its credential is refused.                     *)
(***************************************************************************)
EXTENDS MCWebClient, WellFoundedInduction, TLAPS

(* The window. *)

\* The bit a pair of words holds for a distance.
BitIn(words, distance) == Server!BitOf(distance) \in words[Server!WordOf(distance)]

\* Nothing above the highest sequence was accepted; of those in the window,
\* exactly the marked ones were; none twice.
Recorded ==
  /\ \A s \in 1..MaxSequence : uses[s] \in 0..1 /\ (s > highest => uses[s] = 0)
  /\ highest = 0 => seen = [word \in 0..1 |-> {}]
  /\ \A s \in 1..MaxSequence :
       s <= highest /\ highest - s < Server!Window =>
         (BitIn(seen, highest - s) <=> uses[s] = 1)

WindowInv == Server!TypeOK /\ Recorded
-----------------------------------------------------------------------------
\* A shift by n moves the bit of every distance up by n and clears the lowest
\* n; distances that leave the window are forgotten.
LEMMA ShiftMoves ==
  ASSUME Server!TypeOK, NEW n \in Nat \ {0}
  PROVE  /\ Server!Shift(n) \in [0..1 -> SUBSET Server!Bits]
         /\ \A d \in 0..(Server!Window - 1) :
              BitIn(Server!Shift(n), d) <=> d >= n /\ BitIn(seen, d - n)
<1> USE WebSessionAssumption DEF Server!TypeOK, Server!Window, Server!Bits, BitIn, Server!BitOf,
                                 Server!WordOf, Server!ShiftLeft, Server!ShiftRight
<1>1. CASE n >= Server!Window
  <2>1. Server!Shift(n) = [word \in 0..1 |-> {}]
    BY <1>1 DEF Server!Shift
  <2>2. Server!Shift(n) \in [0..1 -> SUBSET Server!Bits]
    BY <2>1
  <2>3. ASSUME NEW d \in 0..(Server!Window - 1)
        PROVE  ~(d >= n) /\ ~BitIn(Server!Shift(n), d)
    BY <1>1, <2>1
  <2> QED BY <2>2, <2>3
<1>2. CASE n < Server!Window /\ n >= WordBits
  <2>1. Server!Shift(n) = [word \in 0..1 |->
                             IF word = 0 THEN {} ELSE Server!ShiftLeft(seen[0], n - WordBits)]
    BY <1>2 DEF Server!Shift
  <2>2. Server!Shift(n) \in [0..1 -> SUBSET Server!Bits]
    BY <2>1
  <2>3. ASSUME NEW d \in 0..(Server!Window - 1), d < WordBits
        PROVE  ~(d >= n) /\ ~BitIn(Server!Shift(n), d)
    BY <1>2, <2>1, <2>3
  <2>4. ASSUME NEW d \in 0..(Server!Window - 1), d >= WordBits
        PROVE  BitIn(Server!Shift(n), d) <=> d >= n /\ BitIn(seen, d - n)
    <3>1. BitIn(Server!Shift(n), d) <=> d - n \in seen[0]
      BY <1>2, <2>1, <2>4
    <3>2. d >= n => (BitIn(seen, d - n) <=> d - n \in seen[0])
      BY <1>2, <2>4
    <3>3. d - n \in seen[0] => d >= n
      BY <1>2, <2>4
    <3> QED BY <3>1, <3>2, <3>3
  <2> HIDE DEF Server!TypeOK, Server!Window, Server!Bits, BitIn, Server!BitOf, Server!WordOf,
               Server!ShiftLeft, Server!ShiftRight
  <2>5. \A d \in 0..(Server!Window - 1) : d \in Int
    OBVIOUS
  <2> QED BY <2>2, <2>3, <2>4, <2>5
<1>3. CASE n < WordBits
  <2>1. Server!Shift(n) =
          [word \in 0..1 |->
             IF word = 0 THEN Server!ShiftLeft(seen[0], n)
             ELSE Server!ShiftLeft(seen[1], n) \cup Server!ShiftRight(seen[0], WordBits - n)]
    BY <1>3 DEF Server!Shift
  <2>2. Server!Shift(n) \in [0..1 -> SUBSET Server!Bits]
    BY <1>3, <2>1
  <2>3. ASSUME NEW d \in 0..(Server!Window - 1), d < WordBits
        PROVE  BitIn(Server!Shift(n), d) <=> d >= n /\ BitIn(seen, d - n)
    <3>1. BitIn(Server!Shift(n), d) <=> d - n \in seen[0]
      BY <1>3, <2>1, <2>3
    <3>2. d >= n => (BitIn(seen, d - n) <=> d - n \in seen[0])
      BY <1>3, <2>3
    <3>3. d - n \in seen[0] => d >= n
      BY <1>3, <2>3
    <3> QED BY <3>1, <3>2, <3>3
  <2>4. ASSUME NEW d \in 0..(Server!Window - 1), d >= WordBits
        PROVE  BitIn(Server!Shift(n), d) <=> d >= n /\ BitIn(seen, d - n)
    <3>1. Server!Shift(n)[1] =
            Server!ShiftLeft(seen[1], n) \cup Server!ShiftRight(seen[0], WordBits - n)
      BY <2>1
    <3>2. BitIn(Server!Shift(n), d) <=> \/ d - WordBits - n \in seen[1]
                                        \/ d - n \in seen[0]
      <4>1. d - WordBits \in Server!Bits
        BY <2>4
      <4>2. BitIn(Server!Shift(n), d) <=> d - WordBits \in Server!Shift(n)[1]
        BY <2>4
      <4>3. d - WordBits \in Server!ShiftLeft(seen[1], n) <=> d - WordBits - n \in seen[1]
        BY <4>1
      <4>4. (d - WordBits) + (WordBits - n) = d - n
        BY <2>4
      <4>5. d - WordBits \in Server!ShiftRight(seen[0], WordBits - n) <=> d - n \in seen[0]
        BY <4>1, <4>4
      <4> QED BY <3>1, <4>2, <4>3, <4>5
    <3>3. CASE d - n >= WordBits
      BY <1>3, <2>4, <3>2, <3>3
    <3>4. CASE d - n < WordBits
      BY <1>3, <2>4, <3>2, <3>4
    <3> QED BY <3>3, <3>4
  <2> HIDE DEF Server!TypeOK, Server!Window, Server!Bits, BitIn, Server!BitOf, Server!WordOf,
               Server!ShiftLeft, Server!ShiftRight
  <2>5. \A d \in 0..(Server!Window - 1) : d \in Int
    OBVIOUS
  <2> QED BY <2>2, <2>3, <2>4, <2>5
<1>4. n >= Server!Window \/ (n < Server!Window /\ n >= WordBits) \/ n < WordBits
  OBVIOUS
<1> HIDE DEF Server!TypeOK, Server!Window, Server!Bits, BitIn, Server!BitOf, Server!WordOf,
             Server!ShiftLeft, Server!ShiftRight
<1> QED BY <1>1, <1>2, <1>3, <1>4

\* Marking one distance changes that bit and no other.
LEMMA MarkOne ==
  ASSUME NEW words \in [0..1 -> SUBSET Server!Bits], NEW e \in 0..(Server!Window - 1)
  PROVE  LET marked == [words EXCEPT ![Server!WordOf(e)] = @ \cup {Server!BitOf(e)}] IN
         /\ marked \in [0..1 -> SUBSET Server!Bits]
         /\ \A d \in 0..(Server!Window - 1) :
              BitIn(marked, d) <=> d = e \/ BitIn(words, d)
BY WebSessionAssumption DEF Server!Window, Server!Bits, BitIn, Server!BitOf, Server!WordOf
-----------------------------------------------------------------------------
\* Accepting a sequence keeps the record exact, and it was not used before.
LEMMA AcceptRecorded ==
  ASSUME WindowInv, NEW s \in 0..MaxSequence, Server!Accept(s)
  PROVE  WindowInv' /\ s \in 1..MaxSequence /\ uses[s] = 0
<1> USE WebSessionAssumption
<1>0. /\ s \in 1..MaxSequence
      /\ uses' = [uses EXCEPT ![s] = @ + 1]
      /\ seen \in [0..1 -> SUBSET Server!Bits]
      /\ highest \in 0..MaxSequence
      /\ uses \in [1..MaxSequence -> Nat]
  BY DEF Server!Accept, Server!AcceptFirst, Server!AcceptNewer, Server!AcceptOlder, Server!Count,
         WindowInv, Server!TypeOK
<1>1. CASE Server!AcceptFirst(s)
  <2>1. highest = 0 /\ highest' = s /\ seen' = [seen EXCEPT ![0] = {0}]
    BY <1>1 DEF Server!AcceptFirst
  <2>2. seen = [word \in 0..1 |-> {}] /\ \A t \in 1..MaxSequence : uses[t] = 0
    BY <1>0, <2>1 DEF WindowInv, Recorded
  <2>3. uses' \in [1..MaxSequence -> Nat] /\ uses[s] = 0 /\ uses'[s] = 1
        /\ \A t \in 1..MaxSequence : t # s => uses'[t] = 0
    BY <1>0, <2>2
  <2>4. seen' \in [0..1 -> SUBSET Server!Bits] /\ seen'[0] = {0} /\ seen'[1] = {}
    BY <2>1, <2>2 DEF Server!Bits
  <2>5. ASSUME NEW t \in 1..MaxSequence, t <= highest', highest' - t < Server!Window
        PROVE  BitIn(seen', highest' - t) <=> uses'[t] = 1
    <3>1. s - t \in 0..(Server!Window - 1)
      BY <1>0, <2>1, <2>5 DEF Server!Window
    <3>2. BitIn(seen', s - t) <=> s - t = 0
      BY <2>4, <3>1 DEF BitIn, Server!BitOf, Server!WordOf, Server!Window
    <3>3. s - t = 0 <=> t = s
      BY <1>0
    <3> QED BY <2>1, <2>3, <3>2, <3>3
  <2>6. Server!TypeOK'
    BY <1>0, <2>1, <2>3, <2>4 DEF Server!TypeOK
  <2>7. Recorded'
    <3>1. \A t \in 1..MaxSequence :
            uses'[t] \in 0..1 /\ (t > highest' => uses'[t] = 0)
      BY <1>0, <2>1, <2>3
    <3>2. highest' # 0
      BY <1>0, <2>1
    <3> QED BY <2>5, <3>1, <3>2 DEF Recorded
  <2> QED
    BY <1>0, <2>3, <2>6, <2>7 DEF WindowInv
<1>2. CASE Server!AcceptNewer(s)
  <2> DEFINE n == s - highest
             shifted == Server!Shift(n)
  <2>1. highest # 0 /\ s > highest /\ highest' = s /\ n \in Nat \ {0}
        /\ seen' = [shifted EXCEPT ![0] = @ \cup {0}]
    BY <1>0, <1>2 DEF Server!AcceptNewer
  <2> HIDE DEF n
  <2>2. /\ shifted \in [0..1 -> SUBSET Server!Bits]
        /\ \A d \in 0..(Server!Window - 1) :
             BitIn(shifted, d) <=> d >= n /\ BitIn(seen, d - n)
    BY <2>1, ShiftMoves DEF WindowInv
  <2> HIDE DEF shifted
  <2>3. Server!WordOf(0) = 0 /\ Server!BitOf(0) = 0 /\ 0 \in 0..(Server!Window - 1)
    BY DEF Server!WordOf, Server!BitOf, Server!Window
  <2>4. /\ seen' \in [0..1 -> SUBSET Server!Bits]
        /\ \A d \in 0..(Server!Window - 1) :
             BitIn(seen', d) <=> d = 0 \/ BitIn(shifted, d)
    BY <2>1, <2>2, <2>3, MarkOne
  <2>5. uses[s] = 0
    BY <1>0, <2>1 DEF WindowInv, Recorded
  <2>6. uses' \in [1..MaxSequence -> Nat] /\ uses'[s] = 1
        /\ \A t \in 1..MaxSequence : t # s => uses'[t] = uses[t]
    BY <1>0, <2>5
  <2>7. ASSUME NEW t \in 1..MaxSequence, t <= highest', highest' - t < Server!Window
        PROVE  BitIn(seen', highest' - t) <=> uses'[t] = 1
    <3>1. CASE t = s
      <4>1. highest' - t = 0
        BY <1>0, <2>1, <3>1
      <4> QED BY <2>3, <2>4, <2>6, <3>1, <4>1
    <3>2. CASE t # s /\ t > highest
      <4>1. s - t \in 1..(Server!Window - 1) /\ s - t < n /\ uses[t] = 0
        BY <1>0, <2>1, <2>7, <3>2 DEF n, WindowInv, Recorded, Server!Window
      <4>2. ~(s - t >= n) /\ s - t \in 0..(Server!Window - 1) /\ s - t # 0
        BY <2>1, <4>1
      <4>3. ~BitIn(seen', s - t)
        BY <2>2, <2>4, <4>2
      <4> QED BY <2>1, <2>6, <3>2, <4>1, <4>3
    <3>3. CASE t <= highest
      <4>1. /\ s - t \in 1..(Server!Window - 1) /\ s - t >= n
            /\ (s - t) - n = highest - t /\ highest - t < Server!Window
        BY <1>0, <2>1, <2>7, <3>3 DEF n, Server!Window
      <4>2. BitIn(seen, highest - t) <=> uses[t] = 1
        BY <3>3, <4>1 DEF WindowInv, Recorded
      <4>3. BitIn(seen', s - t) <=> BitIn(seen, highest - t)
        <5>1. s - t \in 0..(Server!Window - 1) /\ s - t # 0
          BY <4>1
        <5> QED BY <2>2, <2>4, <4>1, <5>1
      <4>4. t # s
        BY <1>0, <2>1, <3>3
      <4> QED BY <2>1, <2>6, <4>2, <4>3, <4>4
    <3>4. t = s \/ (t # s /\ t > highest) \/ t <= highest
      BY <1>0
    <3> QED BY <3>1, <3>2, <3>3, <3>4
  <2>8. ASSUME NEW t \in 1..MaxSequence
        PROVE  uses'[t] \in 0..1 /\ (t > highest' => uses'[t] = 0)
    BY <1>0, <2>1, <2>6 DEF WindowInv, Recorded
  <2>9. Server!TypeOK'
    BY <1>0, <2>1, <2>4, <2>6 DEF Server!TypeOK
  <2>10. Recorded'
    <3>1. highest' # 0
      BY <1>0, <2>1
    <3> QED BY <2>7, <2>8, <3>1 DEF Recorded
  <2> QED
    BY <1>0, <2>5, <2>9, <2>10 DEF WindowInv
<1>3. CASE Server!AcceptOlder(s)
  <2> DEFINE e == highest - s
  <2>1. /\ highest # 0 /\ s <= highest /\ e \in 0..(Server!Window - 1)
        /\ ~BitIn(seen, e) /\ highest' = highest
        /\ seen' = [seen EXCEPT ![Server!WordOf(e)] = @ \cup {Server!BitOf(e)}]
    BY <1>0, <1>3 DEF Server!AcceptOlder, Server!InWindow, Server!Marked, BitIn, Server!Window
  <2>2. uses[s] = 0
    <3>1. highest - s < Server!Window /\ (BitIn(seen, highest - s) <=> uses[s] = 1)
          /\ uses[s] \in 0..1
      BY <1>0, <2>1 DEF WindowInv, Recorded, Server!Window
    <3> QED BY <2>1, <3>1
  <2>3. uses' \in [1..MaxSequence -> Nat] /\ uses'[s] = 1
        /\ \A t \in 1..MaxSequence : t # s => uses'[t] = uses[t]
    BY <1>0, <2>2
  <2>4. /\ seen' \in [0..1 -> SUBSET Server!Bits]
        /\ \A d \in 0..(Server!Window - 1) : BitIn(seen', d) <=> d = e \/ BitIn(seen, d)
    <3> HIDE DEF e
    <3> QED BY <1>0, <2>1, MarkOne
  <2>5. ASSUME NEW t \in 1..MaxSequence, t <= highest', highest' - t < Server!Window
        PROVE  BitIn(seen', highest' - t) <=> uses'[t] = 1
    <3>1. highest - t \in 0..(Server!Window - 1)
          /\ (BitIn(seen, highest - t) <=> uses[t] = 1)
          /\ (highest - t = e <=> t = s)
      BY <1>0, <2>1, <2>5 DEF WindowInv, Recorded, Server!Window
    <3> QED BY <2>1, <2>3, <2>4, <3>1
  <2>6. ASSUME NEW t \in 1..MaxSequence
        PROVE  uses'[t] \in 0..1 /\ (t > highest' => uses'[t] = 0)
    BY <1>0, <2>1, <2>3 DEF WindowInv, Recorded
  <2> QED
    BY <1>0, <2>1, <2>2, <2>3, <2>4, <2>5, <2>6 DEF WindowInv, Server!TypeOK, Recorded
<1> QED BY <1>1, <1>2, <1>3 DEF Server!Accept

\* The record is exact in the initial state.
LEMMA WindowInitially == Server!Init => WindowInv
BY WebSessionAssumption DEF Server!Init, WindowInv, Server!TypeOK, Recorded, Server!Bits

\* A step that leaves the window alone keeps the record exact.
LEMMA StutterKeeps ==
  ASSUME WindowInv, UNCHANGED Server!windowVars
  PROVE  WindowInv'
BY DEF Server!windowVars, WindowInv, Server!TypeOK, Recorded, BitIn, Server!BitOf, Server!WordOf,
       Server!Bits, Server!Window

\* The two words are an exact record of the window (WindowExact).
LEMMA RecordExact == WindowInv => Server!WindowExact
<1> SUFFICES ASSUME WindowInv, NEW s \in 1..MaxSequence
             PROVE  Server!Acceptable(s) <=>
                      uses[s] = 0 /\ (highest = 0 \/ highest - s < Server!Window)
  BY DEF Server!WindowExact
<1>1. /\ highest \in 0..MaxSequence /\ uses[s] \in 0..1
      /\ s > highest => uses[s] = 0
      /\ s <= highest /\ highest - s < Server!Window =>
           (Server!Marked(highest - s) <=> uses[s] = 1)
  BY DEF WindowInv, Server!TypeOK, Recorded, BitIn, Server!Marked
<1>2. CASE s > highest
  <2>1. highest - s < Server!Window
    BY <1>1, <1>2, WebSessionAssumption DEF Server!Window
  <2> QED BY <1>1, <1>2, <2>1 DEF Server!Acceptable
<1>3. CASE s <= highest
  <2>1. highest # 0 /\ s # 0
    BY <1>1, <1>3
  <2> QED BY <1>1, <1>3, <2>1 DEF Server!Acceptable, Server!InWindow
<1> QED BY <1>1, <1>2, <1>3
-----------------------------------------------------------------------------
(* The credentials. *)

\* The greatest sequence issued.
Top == IF ended THEN next ELSE next - 1

Sent(c) == call[c].pc = "sent"

\* What is issued, and what the server can have seen of it.
IssuedInv ==
  /\ ended => next = MaxSequence
  /\ issued \subseteq 1..Top
  /\ highest <= Top
  /\ pending \subseteq issued

\* A live request is unresolved, alone with its number, and close to the top.
SentInv ==
  /\ closed => pending = {}
  /\ \A c \in Callers : Sent(c) =>
       /\ call[c].seq \in issued
       /\ ~closed => call[c].seq \in pending
       /\ Top - call[c].seq < Window
  /\ \A c, d \in Callers : Sent(c) /\ Sent(d) /\ c # d => call[c].seq # call[d].seq

IInv ==
  WindowInv /\ ClientTypes /\ IssuedInv /\ SentInv /\ OldestExact /\ WaitersHaveNoRoom
-----------------------------------------------------------------------------
\* A non-empty set of natural numbers has a least element, which Min returns.
LEMMA MinLeast ==
  ASSUME NEW S \in SUBSET Nat, S # {}
  PROVE  Min(S) \in S /\ \A x \in S : Min(S) <= x
<1>1. PICK x \in S : \A y \in S : ~(<<y, x>> \in OpToRel(<, Nat))
  BY NatLessThanWellFounded, WFMin
<1>2. ASSUME NEW y \in S PROVE x <= y
  <2>1. x \in Nat /\ y \in Nat
    OBVIOUS
  <2>2. ~(y < x)
    BY <1>1, <2>1 DEF OpToRel
  <2> QED BY <2>1, <2>2
<1> QED BY <1>2 DEF Min

\* A step that leaves the server alone keeps the window's record.
LEMMA ServerKept ==
  ASSUME WindowInv, UNCHANGED serverVars
  PROVE  WindowInv'
BY StutterKeeps DEF Server!windowVars, serverVars
-----------------------------------------------------------------------------
(* One lemma for each action of the client. *)

\* A caller moves to a place where it holds nothing.
LEMMA MoveKeeps ==
  ASSUME IInv, NEW c \in Callers, NEW label \in {"idle", "try", "wait"},
         Goto(c, label), UNCHANGED <<serverVars, clientVars, issued>>,
         label = "wait" => ~closed /\ ~ended /\ ~Room
  PROVE  IInv'
<1>1. call' = [call EXCEPT ![c] = [pc |-> label, seq |-> 0]] /\ UNCHANGED clientVars
      /\ issued' = issued /\ UNCHANGED serverVars
  BY DEF Goto
<1>2. /\ WindowInv /\ ClientTypes /\ IssuedInv /\ SentInv /\ OldestExact
      /\ WaitersHaveNoRoom
  BY DEF IInv
<1>3. WindowInv'
  BY <1>1, <1>2, ServerKept
<1>4. ClientTypes'
  <2>1. [pc |-> label, seq |-> 0] \in CallRecord
    BY WebSessionAssumption DEF CallRecord
  <2>2. call' \in [Callers -> CallRecord]
    BY <1>1, <1>2, <2>1 DEF ClientTypes
  <2> QED BY <1>1, <1>2, <2>2 DEF ClientTypes, clientVars
<1>5. IssuedInv' /\ OldestExact'
  BY <1>1, <1>2 DEF IssuedInv, OldestExact, Top, clientVars, serverVars
<1>6. SentInv'
  BY <1>1, <1>2 DEF SentInv, Sent, Top, ClientTypes, clientVars
<1>7. WaitersHaveNoRoom'
  BY <1>1, <1>2 DEF WaitersHaveNoRoom, Room, ClientTypes, clientVars
<1> QED BY <1>3, <1>4, <1>5, <1>6, <1>7 DEF IInv

\* A request arrives: the window stays exact, and below the greatest issued.
LEMMA ArriveKeeps ==
  ASSUME IInv, NEW s \in issued, Arrive(s)
  PROVE  IInv'
<1>1. /\ s \in 0..MaxSequence /\ s <= Top
      /\ UNCHANGED <<clientVars, call, issued>>
  BY WebSessionAssumption DEF IInv, ClientTypes, IssuedInv, Top, Arrive
<1>2. WindowInv' /\ (highest' = s \/ highest' = highest)
  <2>1. CASE Server!Accept(s)
    <3>1. WindowInv'
      BY <1>1, <2>1, AcceptRecorded DEF IInv
    <3> QED BY <2>1, <3>1
         DEF Server!Accept, Server!AcceptFirst, Server!AcceptNewer, Server!AcceptOlder
  <2>2. CASE Server!Reject(s)
    <3>1. UNCHANGED serverVars
      BY <2>2 DEF Server!Reject, Server!windowVars, serverVars
    <3> QED BY <3>1, ServerKept DEF IInv, serverVars
  <2> QED BY <2>1, <2>2 DEF Arrive
<1>3. IssuedInv'
  BY <1>1, <1>2 DEF IInv, IssuedInv, Top, clientVars
<1>4. ClientTypes' /\ SentInv' /\ OldestExact' /\ WaitersHaveNoRoom'
  BY <1>1 DEF IInv, ClientTypes, SentInv, Sent, OldestExact, WaitersHaveNoRoom,
              Room, Top, clientVars
<1> QED BY <1>2, <1>3, <1>4 DEF IInv

LEMMA WindowPositive == Window \in Nat \ {0}
BY WebSessionAssumption DEF Window, Server!Window

\* A credential is issued: room means that the new top keeps every live request
\* inside the window.
LEMMA IssueKeeps ==
  ASSUME IInv, NEW c \in Callers, Issue(c)
  PROVE  IInv'
<1>1. /\ call[c].pc = "try" /\ ~closed /\ ~ended /\ Room /\ closed' = closed
      /\ call' = [call EXCEPT ![c] = [pc |-> "sent", seq |-> next]]
      /\ pending' = pending \cup {next} /\ issued' = issued \cup {next}
      /\ oldest' = IF pending = {} THEN next ELSE oldest
      /\ UNCHANGED serverVars /\ UNCHANGED highest
  BY DEF Issue, Exhausted, serverVars
<1>2. /\ ClientTypes /\ IssuedInv /\ SentInv /\ OldestExact /\ WaitersHaveNoRoom
      /\ Top = next - 1
  BY <1>1 DEF IInv, Top
<1>3. /\ next \in 1..MaxSequence /\ next' \in 1..MaxSequence /\ ended' \in BOOLEAN
      /\ (ended' => next' = MaxSequence) /\ Top' = next
  <2>1. next \in 1..MaxSequence /\ ended \in BOOLEAN /\ Advance
    BY <1>2 DEF ClientTypes, Issue
  <2>2. CASE next = MaxSequence
    BY <1>1, <2>1, <2>2, WebSessionAssumption DEF Advance, Top
  <2>3. CASE next # MaxSequence
    BY <1>1, <2>1, <2>3, WebSessionAssumption DEF Advance, Top
  <2> QED BY <2>2, <2>3
<1>4. WindowInv'
  BY <1>1, ServerKept DEF IInv
<1>5. ClientTypes'
  <2>1. [pc |-> "sent", seq |-> next] \in CallRecord
    BY <1>3 DEF CallRecord
  <2>2. call' \in [Callers -> CallRecord]
    BY <1>1, <1>2, <2>1 DEF ClientTypes
  <2>3. oldest' \in 0..MaxSequence /\ pending' \in SUBSET issued'
        /\ issued' \in SUBSET (1..MaxSequence)
    BY <1>1, <1>2, <1>3 DEF ClientTypes
  <2> QED BY <1>1, <1>2, <1>3, <2>2, <2>3 DEF ClientTypes
<1>6. highest \in Nat
  BY DEF IInv, WindowInv, Server!TypeOK
<1>7. IssuedInv'
  BY <1>1, <1>2, <1>3, <1>6 DEF IssuedInv
<1>8. next \notin issued
  BY <1>2, <1>3 DEF IssuedInv
<1>9. SentInv'
  <2>1. /\ call'[c].pc = "sent" /\ call'[c].seq = next
        /\ \A d \in Callers : d # c => call'[d] = call[d]
    BY <1>1, <1>2 DEF ClientTypes
  <2>2. ASSUME NEW d \in Callers, Sent(d), d # c
        PROVE  call[d].seq \in pending /\ call[d].seq # next /\ next - call[d].seq < Window
    <3>1. call[d].seq \in pending /\ call[d].seq \in issued
      BY <1>1, <1>2, <2>2 DEF SentInv
    <3>2. oldest <= call[d].seq /\ next - oldest < Window
      BY <1>1, <1>2, <3>1 DEF OldestExact, Room
    <3>3. call[d].seq \in Nat /\ oldest \in Nat
      <4>1. issued \subseteq 1..MaxSequence /\ oldest \in 0..MaxSequence
        BY <1>2 DEF ClientTypes
      <4>2. call[d].seq \in 1..MaxSequence
        BY <3>1, <4>1
      <4>3. 1..MaxSequence \subseteq Nat /\ 0..MaxSequence \subseteq Nat
        BY WebSessionAssumption
      <4> QED BY <4>1, <4>2, <4>3
    <3> QED BY <1>3, <1>8, <3>1, <3>2, <3>3, WindowPositive
  <2>3. ASSUME NEW d \in Callers, call'[d].pc = "sent"
        PROVE  /\ call'[d].seq \in issued' /\ call'[d].seq \in pending'
               /\ Top' - call'[d].seq < Window
    <3>1. CASE d = c
      BY <1>1, <1>3, <2>1, <3>1, WindowPositive
    <3>2. CASE d # c
      BY <1>1, <1>2, <1>3, <2>1, <2>2, <2>3, <3>2 DEF Sent, ClientTypes
    <3> QED BY <3>1, <3>2
  <2>4. ASSUME NEW d \in Callers, NEW e \in Callers, d # e,
               call'[d].pc = "sent", call'[e].pc = "sent"
        PROVE  call'[d].seq # call'[e].seq
    <3>1. CASE d = c
      BY <2>1, <2>2, <2>4, <3>1 DEF Sent
    <3>2. CASE e = c
      BY <2>1, <2>2, <2>4, <3>2 DEF Sent
    <3>3. CASE d # c /\ e # c
      BY <1>2, <2>1, <2>4, <3>3 DEF SentInv, Sent
    <3> QED BY <3>1, <3>2, <3>3
  <2>5. Window' = Window
    BY DEF Window, Server!Window
  <2> QED BY <1>1, <2>3, <2>4, <2>5 DEF SentInv, Sent
<1>10. OldestExact'
  BY <1>1, <1>2, <1>3 DEF OldestExact, ClientTypes, IssuedInv
<1>11. WaitersHaveNoRoom'
  BY <1>1, <1>2 DEF WaitersHaveNoRoom, ClientTypes
<1> QED BY <1>4, <1>5, <1>7, <1>9, <1>10, <1>11 DEF IInv
-----------------------------------------------------------------------------
\* Waking everybody changes no exchange, and leaves nobody waiting.
LEMMA NotifyKeeps ==
  ASSUME NEW records \in [Callers -> CallRecord]
  PROVE  /\ Notify(records) \in [Callers -> CallRecord]
         /\ \A d \in Callers :
              /\ Notify(records)[d].pc # "wait"
              /\ Notify(records)[d].pc = "sent" <=> records[d].pc = "sent"
              /\ Notify(records)[d].pc = "sent" => Notify(records)[d].seq = records[d].seq
<1>1. ASSUME NEW d \in Callers
      PROVE  /\ Woken(records[d]) \in CallRecord
             /\ Woken(records[d]).pc # "wait"
             /\ Woken(records[d]).pc = "sent" <=> records[d].pc = "sent"
             /\ Woken(records[d]).pc = "sent" => Woken(records[d]).seq = records[d].seq
  <2>1. records[d] \in CallRecord
    OBVIOUS
  <2> QED BY <2>1 DEF Woken, CallRecord
<1> QED BY <1>1 DEF Notify

\* An exchange is completed: the window is anchored at the oldest of the rest,
\* and whoever waits is told unless the anchor stays.
LEMMA CompleteKeeps ==
  ASSUME IInv, NEW c \in Callers, Complete(c)
  PROVE  IInv'
<1> DEFINE s == call[c].seq
           done == [call EXCEPT ![c] = [pc |-> "idle", seq |-> 0]]
<1>1. /\ ClientTypes /\ IssuedInv /\ SentInv /\ OldestExact /\ WaitersHaveNoRoom
      /\ Sent(c)
  BY DEF IInv, Complete, Sent
<1>2. /\ pending' = pending \ {s}
      /\ next' = next /\ ended' = ended /\ closed' = closed /\ issued' = issued
      /\ UNCHANGED serverVars /\ UNCHANGED highest /\ Top' = Top /\ Window' = Window
  BY DEF Complete, serverVars, Top, Window, Server!Window
<1>3. /\ done \in [Callers -> CallRecord] /\ done[c].pc = "idle"
      /\ \A d \in Callers : d # c => done[d] = call[d]
  <2>1. [pc |-> "idle", seq |-> 0] \in CallRecord
    BY WebSessionAssumption DEF CallRecord
  <2> QED BY <1>1, <2>1 DEF ClientTypes
<1>4. WindowInv'
  BY <1>2, ServerKept DEF IInv
<1>5. IssuedInv'
  BY <1>1, <1>2 DEF IssuedInv
<1> HIDE DEF s, done
<1>6. /\ call' \in [Callers -> CallRecord]
      /\ \A d \in Callers : call'[d].pc = "sent" =>
           d # c /\ call[d].pc = "sent" /\ call'[d].seq = call[d].seq
      /\ \A d \in Callers : call'[d].pc = "wait" =>
           call[d].pc = "wait" /\ ~(s \in pending /\ s = oldest)
  <2>1. CASE s \in pending /\ s = oldest
    <3>1. call' = Notify(done)
      BY <2>1 DEF Complete, s, done
    <3> QED BY <1>3, <2>1, <3>1, NotifyKeeps
  <2>2. CASE ~(s \in pending /\ s = oldest)
    <3>1. call' = done
      BY <2>2 DEF Complete, s, done
    <3> QED BY <1>3, <2>2, <3>1
  <2> QED BY <2>1, <2>2
<1>7. issued \in SUBSET Nat /\ pending \in SUBSET Nat
  BY <1>1, WebSessionAssumption DEF ClientTypes
<1>8. SentInv'
  <2>1. ASSUME NEW d \in Callers, call'[d].pc = "sent"
        PROVE  /\ call'[d].seq \in issued'
               /\ ~closed' => call'[d].seq \in pending'
               /\ Top' - call'[d].seq < Window'
    BY <1>1, <1>2, <1>6, <2>1 DEF SentInv, Sent, s
  <2>2. ASSUME NEW d \in Callers, NEW e \in Callers, d # e,
               call'[d].pc = "sent", call'[e].pc = "sent"
        PROVE  call'[d].seq # call'[e].seq
    BY <1>1, <1>6, <2>2 DEF SentInv, Sent
  <2>3. closed' => pending' = {}
    BY <1>1, <1>2 DEF SentInv
  <2> QED BY <2>1, <2>2, <2>3 DEF SentInv, Sent
<1>9. oldest' \in 0..MaxSequence /\ OldestExact'
  <2>1. CASE s \in pending /\ s = oldest
    <3>1. oldest' = OldestOf(pending')
      BY <1>2, <2>1 DEF Complete, s
    <3>2. CASE pending' = {}
      BY <3>1, <3>2, WebSessionAssumption DEF OldestOf, OldestExact
    <3>3. CASE pending' # {}
      <4>1. pending' \in SUBSET Nat /\ pending' \subseteq 1..MaxSequence
        BY <1>1, <1>2, <1>7 DEF ClientTypes
      <4>2. oldest' \in pending' /\ \A x \in pending' : oldest' <= x
        BY <3>1, <3>3, <4>1, MinLeast DEF OldestOf
      <4> QED BY <4>1, <4>2 DEF OldestExact
    <3> QED BY <3>2, <3>3
  <2>2. CASE ~(s \in pending /\ s = oldest)
    <3>1. oldest' = oldest
      BY <2>2 DEF Complete, s
    <3> QED BY <1>1, <1>2, <2>2, <3>1 DEF OldestExact, ClientTypes
  <2> QED BY <2>1, <2>2
<1>10. ClientTypes'
  BY <1>1, <1>2, <1>6, <1>9 DEF ClientTypes
<1>11. WaitersHaveNoRoom'
  <2>1. ASSUME NEW d \in Callers, call'[d].pc = "wait"
        PROVE  ~closed' /\ ~ended' /\ ~Room'
    <3>1. ~closed /\ ~ended /\ ~Room /\ ~(s \in pending /\ s = oldest)
      BY <1>1, <1>6, <2>1 DEF WaitersHaveNoRoom
    <3>2. oldest' = oldest
      BY <3>1 DEF Complete, s
    <3>3. pending # {} /\ ~(next - oldest < Window) /\ oldest \in pending'
      BY <1>1, <1>2, <3>1 DEF Room, OldestExact
    <3> QED BY <1>2, <3>1, <3>2, <3>3 DEF Room
  <2> QED BY <2>1 DEF WaitersHaveNoRoom
<1> QED BY <1>4, <1>5, <1>8, <1>9, <1>10, <1>11 DEF IInv

\* The session is closed: nothing is pending and nobody waits.
LEMMA CloseKeeps ==
  ASSUME IInv, Close
  PROVE  IInv'
<1>1. /\ closed' = TRUE /\ pending' = {} /\ call' = Notify(call)
      /\ next' = next /\ ended' = ended /\ oldest' = oldest /\ issued' = issued
      /\ UNCHANGED serverVars /\ UNCHANGED highest /\ Top' = Top /\ Window' = Window
  BY DEF Close, serverVars, Top, Window, Server!Window
<1>2. /\ ClientTypes /\ IssuedInv /\ SentInv /\ call \in [Callers -> CallRecord]
  BY DEF IInv, ClientTypes
<1>3. /\ call' \in [Callers -> CallRecord]
      /\ \A d \in Callers :
           /\ call'[d].pc # "wait"
           /\ call'[d].pc = "sent" => call[d].pc = "sent" /\ call'[d].seq = call[d].seq
  BY <1>1, <1>2, NotifyKeeps
<1>4. WindowInv'
  BY <1>1, ServerKept DEF IInv
<1>5. ClientTypes' /\ IssuedInv'
  BY <1>1, <1>2, <1>3 DEF ClientTypes, IssuedInv
<1>6. SentInv'
  <2>1. ASSUME NEW d \in Callers, call'[d].pc = "sent"
        PROVE  call'[d].seq \in issued' /\ Top' - call'[d].seq < Window'
    BY <1>1, <1>2, <1>3, <2>1 DEF SentInv, Sent
  <2>2. ASSUME NEW d \in Callers, NEW e \in Callers, d # e,
               call'[d].pc = "sent", call'[e].pc = "sent"
        PROVE  call'[d].seq # call'[e].seq
    BY <1>2, <1>3, <2>2 DEF SentInv, Sent
  <2> QED BY <1>1, <2>1, <2>2 DEF SentInv, Sent
<1>7. OldestExact' /\ WaitersHaveNoRoom'
  BY <1>1, <1>3 DEF OldestExact, WaitersHaveNoRoom
<1> QED BY <1>4, <1>5, <1>6, <1>7 DEF IInv
-----------------------------------------------------------------------------
LEMMA InitInv == Init => IInv
<1> SUFFICES ASSUME Init PROVE IInv
  OBVIOUS
<1>1. WindowInv
  BY WindowInitially DEF Init
<1>2. highest = 0
  BY DEF Init, Server!Init
<1>3. ClientTypes
  <2>1. [pc |-> "idle", seq |-> 0] \in CallRecord
    BY WebSessionAssumption DEF CallRecord
  <2>2. call \in [Callers -> CallRecord]
    BY <2>1 DEF Init
  <2>3. 1 \in 1..MaxSequence /\ 0 \in 0..MaxSequence
    BY WebSessionAssumption
  <2> QED BY <2>2, <2>3 DEF Init, ClientTypes
<1>4. IssuedInv /\ SentInv /\ OldestExact /\ WaitersHaveNoRoom
  BY <1>2 DEF Init, IssuedInv, SentInv, Sent, OldestExact, WaitersHaveNoRoom, Top
<1> QED BY <1>1, <1>3, <1>4 DEF IInv

LEMMA NextKeeps ==
  ASSUME IInv, [Next]_vars
  PROVE  IInv'
<1>1. ASSUME NEW c \in Callers, Start(c) \/ GivesUp(c) \/ Refused(c) \/ Block(c)
      PROVE  IInv'
  <2>1. PICK label \in {"idle", "try", "wait"} :
          /\ Goto(c, label) /\ UNCHANGED <<serverVars, clientVars, issued>>
          /\ label = "wait" => ~closed /\ ~ended /\ ~Room
    BY <1>1 DEF Start, GivesUp, Refused, Block, Exhausted
  <2> QED BY <2>1, MoveKeeps
<1>2. ASSUME UNCHANGED vars
      PROVE  IInv'
  <2>1. UNCHANGED <<clientVars, call, issued>> /\ UNCHANGED serverVars
        /\ UNCHANGED highest
    BY <1>2 DEF vars, serverVars
  <2>2. WindowInv'
    BY <2>1, ServerKept DEF IInv
  <2> QED
    BY <2>1, <2>2
    DEF IInv, ClientTypes, IssuedInv, SentInv, Sent, OldestExact, WaitersHaveNoRoom, Room, Top,
        Window, Server!Window, clientVars
<1> QED BY <1>1, <1>2, IssueKeeps, CompleteKeeps, CloseKeeps, ArriveKeeps DEF Next

\* The invariant holds in every reachable state.
THEOREM Invariance == Safety => []IInv
BY InitInv, NextKeeps, PTL DEF Safety

\* The client and the server keep their types (TypeOK).
THEOREM TypeCorrectness == Safety => []TypeOK
<1>1. IInv => TypeOK
  BY DEF IInv, TypeOK, WindowInv
<1> QED BY <1>1, Invariance, PTL

\* complete never leaves the window anchored elsewhere than at the oldest
\* unresolved request (OldestExact).
THEOREM AnchorExact == Safety => []OldestExact
BY Invariance, PTL DEF IInv

\* notifyLocked is called often enough: no caller waits although there is room.
THEOREM NoLostWakeup == Safety => []WaitersHaveNoRoom
BY Invariance, PTL DEF IInv

\* No sequence number is issued twice, not even the last one (NeverReissued).
THEOREM NumbersUsedOnce == Safety => NeverReissued
<1> DEFINE Fresh(c) ==
      call[c].pc # "sent" /\ call'[c].pc = "sent" => call'[c].seq \notin issued
<1>1. ASSUME IInv, [Next]_vars, NEW c \in Callers PROVE Fresh(c)
  <2>1. call \in [Callers -> CallRecord]
    BY <1>1 DEF IInv, ClientTypes
  <2>2. ASSUME NEW d \in Callers, Issue(d) PROVE Fresh(c)
    <3>1. /\ call' = [call EXCEPT ![d] = [pc |-> "sent", seq |-> next]]
          /\ issued \subseteq 1..(next - 1) /\ next \in 1..MaxSequence
      BY <1>1, <2>2 DEF Issue, Exhausted, IInv, IssuedInv, ClientTypes, Top
    <3>2. next \notin issued
      BY <3>1, WebSessionAssumption
    <3> QED BY <2>1, <3>1, <3>2
  <2>3. ASSUME NEW d \in Callers, Complete(d) PROVE Fresh(c)
    <3> DEFINE done == [call EXCEPT ![d] = [pc |-> "idle", seq |-> 0]]
    <3>1. [pc |-> "idle", seq |-> 0] \in CallRecord
      BY WebSessionAssumption DEF CallRecord
    <3>2. done \in [Callers -> CallRecord] /\ (done[c].pc = "sent" => call[c].pc = "sent")
      BY <2>1, <3>1
    <3>3. call' = done \/ call' = Notify(done)
      BY <2>3 DEF Complete
    <3> HIDE DEF done
    <3> QED BY <3>2, <3>3, NotifyKeeps
  <2>4. ASSUME NEW d \in Callers, Start(d) \/ GivesUp(d) \/ Refused(d) \/ Block(d)
        PROVE  Fresh(c)
    BY <2>1, <2>4 DEF Start, GivesUp, Refused, Block, Goto
  <2>5. CASE Close
    BY <2>1, <2>5, NotifyKeeps DEF Close
  <2>6. CASE \E s \in issued : Arrive(s)
    BY <2>6 DEF Arrive
  <2>7. CASE UNCHANGED vars
    BY <2>7 DEF vars
  <2> HIDE DEF Fresh
  <2> QED BY <1>1, <2>2, <2>3, <2>4, <2>5, <2>6, <2>7 DEF Next
<1>2. IInv /\ [Next]_vars => [\A c \in Callers : Fresh(c)]_vars
  BY <1>1
<1> QED BY <1>2, Invariance, PTL DEF Safety, NeverReissued
\* A live request is within a window of the highest number the exit has seen.
LEMMA LiveInWindow == IInv => LiveTicketsAccepted
<1> SUFFICES ASSUME IInv, NEW c \in Callers, Sent(c), uses[call[c].seq] = 0
             PROVE  Server!Acceptable(call[c].seq)
  BY DEF LiveTicketsAccepted, Sent
<1>1. Server!WindowExact
  BY RecordExact DEF IInv
<1>2. /\ call[c].seq \in 1..MaxSequence /\ Top - call[c].seq < Window
      /\ highest <= Top /\ highest \in Nat /\ next \in Nat
  <2>1. ClientTypes /\ SentInv /\ IssuedInv /\ Server!TypeOK
    BY DEF IInv, WindowInv
  <2>2. call[c].seq \in issued /\ Top - call[c].seq < Window /\ highest <= Top
    BY <2>1 DEF SentInv, IssuedInv
  <2>3. issued \subseteq 1..MaxSequence /\ next \in 1..MaxSequence
    BY <2>1 DEF ClientTypes
  <2>4. highest \in Nat /\ next \in Nat
    BY <2>1, <2>3, WebSessionAssumption DEF Server!TypeOK
  <2> QED BY <2>2, <2>3, <2>4
<1>3. highest - call[c].seq < Window
  BY <1>2, WindowPositive DEF Top
<1> QED BY <1>1, <1>2, <1>3 DEF Server!WindowExact, Window

\* In the composition the window also sees numbers in any order (part "window"),
\* when nobody waits for an answer.
WebInv ==
  /\ WindowInv
  /\ IF part = "window" THEN \A c \in Callers : ~Sent(c) ELSE IInv

\* The window changes by arrivals only.
LEMMA WindowSteps ==
  ASSUME WebInv, [WebNext]_webVars
  PROVE  [Server!Next]_Server!windowVars
<1>1. CASE Credentials /\ Next
  <2>1. CASE \E s \in issued : Arrive(s)
    <3>1. issued \subseteq 0..MaxSequence
      BY <1>1 DEF Credentials, Runs, WebInv, IInv, ClientTypes
    <3> QED BY <2>1, <3>1 DEF Arrive, Server!Next
  <2>2. CASE UNCHANGED serverVars
    BY <2>2 DEF serverVars, Server!windowVars
  <2> QED BY <1>1, <2>1, <2>2
       DEF Next, Start, GivesUp, Refused, Issue, Block, Complete, Close
<1>2. CASE AnyArrivals /\ Server!Next
  BY <1>2
<1>3. CASE UNCHANGED vars
  BY <1>3 DEF vars, serverVars, Server!windowVars
<1> QED BY <1>1, <1>2, <1>3 DEF WebNext, Breaker, FullCredentials, webVars

\* The record stays exact, and in a connection's life its numbers in order.
LEMMA WebStep ==
  ASSUME WebInv, [WebNext]_webVars
  PROVE  WebInv'
<1>1. WindowInv'
  <2>1. CASE \E s \in 0..MaxSequence : Server!Accept(s)
    BY <2>1, AcceptRecorded DEF WebInv
  <2>2. CASE UNCHANGED Server!windowVars
    BY <2>2, StutterKeeps DEF WebInv
  <2> QED BY <2>1, <2>2, WindowSteps DEF Server!Next, Server!Reject
<1>2. part' = part
  BY DEF WebNext, Credentials, AnyArrivals, Breaker, FullCredentials, Runs, webVars
<1>3. CASE part = "window"
  <2>1. call' = call
    BY <1>3 DEF WebNext, Credentials, AnyArrivals, Breaker, FullCredentials, Runs,
                webVars, vars
  <2> QED BY <1>1, <1>2, <1>3, <2>1 DEF WebInv, Sent
<1>4. CASE part # "window"
  <2>1. [Next]_vars
    BY <1>4 DEF WebNext, AnyArrivals, Breaker, FullCredentials, Runs, webVars
  <2> QED BY <1>1, <1>2, <1>4, <2>1, NextKeeps DEF WebInv
<1> QED BY <1>3, <1>4

\* In every state of the composition the record is exact.
LEMMA WebInvariance == WebSafety => []WebInv
<1>1. WebInit => WebInv
  BY InitInv DEF WebInit, WebInv, IInv, Init, Sent
<1>2. WebInv /\ [WebNext]_webVars => WebInv'
  BY WebStep
<1> QED BY <1>1, <1>2, PTL DEF WebSafety

\* accept takes exactly the unused sequences of the window and those above it
\* (webSessionReplayWindow.accept), for words of any width.
THEOREM WindowIsExact == WebSafety => []Server!WindowExact
<1>1. WebInv => Server!WindowExact
  BY RecordExact DEF WebInv
<1> QED BY <1>1, WebInvariance, PTL

\* No sequence number is ever accepted twice, in whatever order the numbers
\* arrive: the window implements the abstract specification SingleUse.
THEOREM SingleUseImplemented == WebSafety => ImplementsSingleUse
<1>1. WebInit => Server!Promise!Init
  BY DEF WebInit, Init, Server!Init, Server!Promise!Init
<1>2. WebInv /\ [WebNext]_webVars => [Server!Promise!Next]_uses
  <2> SUFFICES ASSUME WebInv, [WebNext]_webVars, uses' # uses
               PROVE  Server!Promise!Next
    OBVIOUS
  <2>1. PICK s \in 0..MaxSequence : Server!Accept(s)
    BY WindowSteps DEF Server!Next, Server!Reject, Server!windowVars
  <2>2. s \in 1..MaxSequence /\ uses[s] = 0
    BY <2>1, AcceptRecorded DEF WebInv
  <2>3. uses' = [uses EXCEPT ![s] = 1]
    BY <2>1, <2>2
    DEF Server!Accept, Server!AcceptFirst, Server!AcceptNewer, Server!AcceptOlder,
        Server!Count, WebInv, WindowInv, Server!TypeOK
  <2> QED BY <2>2, <2>3 DEF Server!Promise!Next, Server!Promise!Use
<1> QED BY <1>1, <1>2, WebInvariance, PTL
     DEF WebSafety, ImplementsSingleUse, Server!ImplementsSingleUse, Server!Promise!Spec

\* authorization keeps every live request inside the server's replay window:
\* its credential is acceptable until the server has consumed it.
THEOREM LiveRequestsAccepted == WebSafety => []LiveTicketsAccepted
<1>1. WebInv => LiveTicketsAccepted
  BY LiveInWindow DEF WebInv, LiveTicketsAccepted, Sent
<1> QED BY <1>1, WebInvariance, PTL
-----------------------------------------------------------------------------
(* The breaker. *)

\* The locals of a DialContext call.
DialCalls == [pc : {"idle", "primary", "got", "success", "failed", "finished",
                "healthy", "unhealthy", "fallback", "got h2", "success h2"},
          id : Nat, ctx : {"live", "canceled"}, refused : BOOLEAN]

\* An HTTP/3 attempt has a number that no other one has and that has not
\* reported.
NumbersInv ==
  /\ \A c \in StreamCallers : Client!InPrimary(c) =>
       /\ dial[c].id \in 1..nextID
       /\ \A v \in verdicts : v.id # dial[c].id
  /\ \A c, d \in StreamCallers :
       Client!InPrimary(c) /\ Client!InPrimary(d) /\ dial[c].id = dial[d].id => c = d

\* A probe under way holds the probe's place, until Close.
ProbeInv ==
  ~stopped => \A c \in probers : Client!InPrimary(c) => probeID = dial[c].id

\* The newest verdict is the one of stateID.
VerdictInv ==
  /\ verdicts = {} => circuit = "closed" /\ stateID = 0
  /\ verdicts # {} => \E v \in verdicts : v.id = stateID
  /\ \A v \in verdicts : /\ v.id <= stateID
                         /\ v.id = stateID => (v.healthy <=> circuit = "closed")

BreakerInv == Client!TypeOK /\ NumbersInv /\ ProbeInv /\ VerdictInv /\ Client!SingleProbe
-----------------------------------------------------------------------------
LEMMA BreakerInit == Client!Init => BreakerInv
<1> SUFFICES ASSUME Client!Init PROVE BreakerInv
  OBVIOUS
<1>1. Client!TypeOK
  <2>1. Client!Idle \in DialCalls
    BY DEF Client!Idle, DialCalls
  <2>2. dial \in [StreamCallers -> DialCalls]
    BY <2>1 DEF Client!Init
  <2>3. verdicts \in SUBSET [id : 1..nextID, healthy : BOOLEAN]
    BY DEF Client!Init
  <2>4. circuit \in {"closed", "cooling", "elapsed"} /\ stopped \in BOOLEAN
    BY DEF Client!Init
  <2>5. probeID \in Nat /\ nextID \in Nat /\ stateID \in 0..nextID
    BY DEF Client!Init
  <2>6. packet \in [PacketCallers -> {"idle", "dialing", "open", "done"}]
    BY DEF Client!Init
  <2>7. probers \in SUBSET StreamCallers
    BY DEF Client!Init
  <2> HIDE DEF Client!Init
  <2> QED
    BY <2>2, <2>3, <2>4, <2>5, <2>6, <2>7 DEF Client!TypeOK, DialCalls
<1>2. \A c \in StreamCallers : ~Client!InPrimary(c)
  BY DEF Client!Init, Client!Idle, Client!InPrimary
<1> QED
  BY <1>1, <1>2 DEF Client!Init, BreakerInv, NumbersInv, ProbeInv, VerdictInv, Client!SingleProbe

\* A step of a call that leaves the breaker alone and stays, or ends, in its
\* phase.
LEMMA PlainStep ==
  ASSUME BreakerInv, NEW c \in StreamCallers, UNCHANGED Client!breakerVars, UNCHANGED <<stopped, packet>>,
         \A d \in StreamCallers : d # c => dial'[d] = dial[d],
         Client!InPrimary(c)' => Client!InPrimary(c) /\ dial'[c].id = dial[c].id,
         Client!TypeOK'
  PROVE  BreakerInv'
<1>1. \A d \in StreamCallers : Client!InPrimary(d)' => Client!InPrimary(d) /\ dial'[d].id = dial[d].id
  BY DEF Client!InPrimary
<1> HIDE DEF Client!InPrimary
<1>2. NumbersInv'
  BY <1>1 DEF BreakerInv, NumbersInv, Client!breakerVars
<1>3. ProbeInv' /\ Client!SingleProbe'
  BY <1>1 DEF BreakerInv, Client!TypeOK, ProbeInv, Client!SingleProbe, Client!breakerVars
<1>4. VerdictInv'
  BY DEF BreakerInv, VerdictInv, Client!breakerVars
<1> QED
  BY <1>2, <1>3, <1>4 DEF BreakerInv

\* An attempt that ends gives its place up and no other's.
LEMMA EndStep ==
  ASSUME BreakerInv, NEW c \in StreamCallers, Client!InPrimary(c), ~Client!InPrimary(c)',
         \A d \in StreamCallers : d # c => dial'[d] = dial[d],
         UNCHANGED <<nextID, probers, stopped>>,
         stopped \/ Client!ReleaseProbe(dial[c].id),
         verdicts' = verdicts
           \/ \E healthy \in BOOLEAN :
                verdicts' = verdicts \cup {[id |-> dial[c].id, healthy |-> healthy]}
  PROVE  NumbersInv' /\ ProbeInv' /\ Client!SingleProbe'
<1>1. \A d \in StreamCallers :
        Client!InPrimary(d)' => d # c /\ Client!InPrimary(d) /\ dial'[d].id = dial[d].id
  BY DEF Client!InPrimary
<1>2. \A v \in verdicts' : v \in verdicts \/ v.id = dial[c].id
  OBVIOUS
<1>3. NumbersInv'
  BY <1>1, <1>2 DEF BreakerInv, NumbersInv
<1>4. ProbeInv'
  <2> SUFFICES ASSUME ~stopped, NEW d \in probers, Client!InPrimary(d)'
               PROVE  probeID' = dial'[d].id
    BY DEF ProbeInv
  <2>1. d \in StreamCallers /\ d # c /\ Client!InPrimary(d) /\ dial'[d].id = dial[d].id
    BY <1>1 DEF BreakerInv, Client!TypeOK
  <2>2. probeID = dial[d].id /\ dial[d].id # dial[c].id
    BY <2>1 DEF BreakerInv, ProbeInv, NumbersInv
  <2> QED
    BY <2>1, <2>2 DEF Client!ReleaseProbe
<1>5. Client!SingleProbe'
  BY <1>1 DEF BreakerInv, Client!TypeOK, Client!SingleProbe
<1> QED
  BY <1>3, <1>4, <1>5

\* A verdict: it shows if no newer attempt has reported.
LEMMA JudgeStep ==
  ASSUME BreakerInv, NEW c \in StreamCallers, Client!InPrimary(c), NEW healthy \in BOOLEAN, Client!Judge(c, healthy)
  PROVE  /\ VerdictInv' /\ stateID' \in 0..nextID /\ circuit' \in {"closed", "cooling", "elapsed"}
         /\ verdicts' \in SUBSET [id : 1..nextID, healthy : BOOLEAN]
<1> DEFINE id == dial[c].id
           v == [id |-> id, healthy |-> healthy]
<1>1. id \in 1..nextID /\ nextID \in Nat /\ \A w \in verdicts : w.id # id
  BY DEF BreakerInv, NumbersInv, Client!TypeOK
<1>2. verdicts' = verdicts \cup {v} /\ v.id = id /\ (v.healthy <=> healthy)
  BY DEF Client!Judge
<1>3. /\ verdicts \in SUBSET [id : 1..nextID, healthy : BOOLEAN]
      /\ stateID \in 0..nextID /\ circuit \in {"closed", "cooling", "elapsed"}
  BY DEF BreakerInv, Client!TypeOK
<1>4. \A w \in verdicts : w.id \in Nat /\ w.id <= stateID /\ w.id # id
  BY <1>1, <1>3 DEF BreakerInv, VerdictInv
<1>5. CASE Client!Counts(id)
  <2>1. stateID' = id /\ (circuit' = "closed" <=> healthy) /\ id >= stateID
        /\ circuit' \in {"closed", "cooling"}
    BY <1>5 DEF Client!Judge, Client!Counts
  <2> HIDE DEF v, id
  <2>2. \A w \in verdicts' : w = v \/ w \in verdicts
    BY <1>2
  <2>3. VerdictInv'
    <3>1. verdicts' # {} /\ v \in verdicts'
      BY <1>2
    <3>2. ASSUME NEW w \in verdicts'
          PROVE  /\ w.id <= stateID'
                 /\ w.id = stateID' => (w.healthy <=> circuit' = "closed")
      <4>1. CASE w = v
        BY <1>1, <1>2, <2>1, <4>1
      <4>2. CASE w \in verdicts
        BY <1>1, <1>3, <1>4, <2>1, <4>2
      <4> QED
        BY <2>2, <4>1, <4>2
    <3> QED
      BY <1>2, <2>1, <3>1, <3>2 DEF VerdictInv
  <2> QED
    BY <1>1, <1>2, <1>3, <2>1, <2>3 DEF v
<1>6. CASE ~Client!Counts(id)
  <2>1. UNCHANGED <<stateID, circuit>> /\ id < stateID
    BY <1>1, <1>3, <1>6 DEF Client!Judge, Client!Counts
  <2> HIDE DEF v, id
  <2>2. \A w \in verdicts' : w = v \/ w \in verdicts
    BY <1>2
  <2>3. verdicts # {}
    <3> SUFFICES ASSUME verdicts = {} PROVE FALSE
      OBVIOUS
    <3> QED
      BY <1>1, <1>3, <2>1 DEF BreakerInv, VerdictInv
  <2>4. VerdictInv'
    <3>1. ASSUME NEW w \in verdicts'
          PROVE  /\ w.id <= stateID'
                 /\ w.id = stateID' => (w.healthy <=> circuit' = "closed")
      <4>1. CASE w = v
        BY <1>1, <1>2, <1>3, <2>1, <4>1
      <4>2. CASE w \in verdicts
        BY <2>1, <4>2 DEF BreakerInv, VerdictInv
      <4> QED
        BY <2>2, <4>1, <4>2
    <3>2. verdicts' # {} /\ \E w \in verdicts' : w.id = stateID'
      BY <1>2, <2>1, <2>3 DEF BreakerInv, VerdictInv
    <3> QED
      BY <3>1, <3>2 DEF VerdictInv
  <2> QED
    BY <1>1, <1>2, <1>3, <2>1, <2>4 DEF v
<1> QED
  BY <1>5, <1>6
\* Where a step takes its call.
LEMMA DialMoves ==
  ASSUME dial \in [StreamCallers -> DialCalls], NEW c \in StreamCallers
  PROVE  /\ Client!Return(c) => dial'[c] = Client!Idle /\ ~Client!InPrimary(c)'
         /\ \A l : Client!Goto(c, l) => dial'[c].pc = l /\ dial'[c].id = dial[c].id
<1>1. Client!Return(c) => dial'[c] = Client!Idle
  BY DEF Client!Return
<1>2. Client!Idle.pc = "idle"
  BY DEF Client!Idle
<1>3. ASSUME NEW l, Client!Goto(c, l) PROVE dial'[c].pc = l /\ dial'[c].id = dial[c].id
  <2>1. dial' = [dial EXCEPT ![c] = [dial[c] EXCEPT !.pc = l]]
    BY <1>3 DEF Client!Goto
  <2>2. dial'[c] = [dial[c] EXCEPT !.pc = l] /\ dial[c] \in DialCalls
    BY <2>1
  <2> QED
    BY <2>2 DEF DialCalls
<1>4. Client!Return(c) => ~Client!InPrimary(c)'
  BY <1>1, <1>2 DEF Client!InPrimary
<1> QED
  BY <1>1, <1>3, <1>4

\* A step of one call keeps the calls typed.
LEMMA DialTypes ==
  ASSUME dial \in [StreamCallers -> DialCalls], NEW c \in StreamCallers, Client!CallStep(c) \/ Client!CallerCancels(c)
  PROVE  /\ dial' \in [StreamCallers -> DialCalls]
         /\ \A d \in StreamCallers : d # c => dial'[d] = dial[d]
<1> USE DEF Client!Goto, Client!Return
<1>0. Client!Idle \in DialCalls
  BY DEF Client!Idle, DialCalls
<1>1. ASSUME NEW x \in DialCalls, dial' = [dial EXCEPT ![c] = x]
      PROVE  /\ dial' \in [StreamCallers -> DialCalls]
             /\ \A d \in StreamCallers : d # c => dial'[d] = dial[d]
  BY <1>1
<1>2. \E x \in DialCalls : dial' = [dial EXCEPT ![c] = x]
  <2>1. dial[c] \in DialCalls
    OBVIOUS
  <2>2. CASE Client!PrimaryReturns(c) \/ Client!PrimaryChecked(c) \/ Client!PrimaryFailed(c)
    BY <2>1, <2>2 DEF Client!PrimaryReturns, Client!PrimaryChecked, Client!PrimaryFailed, DialCalls
  <2>3. CASE Client!RecordPrimarySuccess(c) \/ Client!PrimaryAttemptFinished(c) \/ Client!RecordPrimaryHealthy(c)
    BY <1>0, <2>3 DEF Client!RecordPrimarySuccess, Client!PrimaryAttemptFinished,
       Client!RecordPrimaryHealthy
  <2>4. CASE Client!RecordPrimaryFailure(c)
    BY <1>0, <2>1, <2>4 DEF Client!RecordPrimaryFailure, DialCalls
  <2>5. CASE Client!FallbackReturns(c) \/ Client!FallbackChecked(c)
    BY <1>0, <2>1, <2>5 DEF Client!FallbackReturns, Client!FallbackChecked, DialCalls
  <2>6. CASE Client!RecordFallbackSuccess(c)
    BY <1>0, <2>6 DEF Client!RecordFallbackSuccess
  <2>7. CASE Client!CallerCancels(c)
    BY <2>1, <2>7 DEF Client!CallerCancels, DialCalls
  <2> QED
    BY <2>2, <2>3, <2>4, <2>5, <2>6, <2>7 DEF Client!CallStep
<1> QED
  BY <1>1, <1>2

\* The steps of a call that report nothing.
LEMMA PlainSteps ==
  ASSUME BreakerInv, NEW c \in StreamCallers,
         \/ Client!PrimaryReturns(c) \/ Client!PrimaryChecked(c) \/ Client!PrimaryFailed(c)
         \/ Client!FallbackReturns(c) \/ Client!FallbackChecked(c) \/ Client!RecordFallbackSuccess(c)
         \/ Client!CallerCancels(c)
         \/ stopped /\ (Client!RecordPrimarySuccess(c) \/ Client!RecordPrimaryHealthy(c))
  PROVE  BreakerInv'
<1>1. dial \in [StreamCallers -> DialCalls]
  BY DEF BreakerInv, Client!TypeOK, DialCalls
<1>2. dial' \in [StreamCallers -> DialCalls] /\ \A d \in StreamCallers : d # c => dial'[d] = dial[d]
  BY <1>1, DialTypes DEF Client!CallStep
<1>3. UNCHANGED Client!breakerVars /\ UNCHANGED <<stopped, packet>>
  BY DEF Client!PrimaryReturns, Client!PrimaryChecked, Client!PrimaryFailed,
         Client!FallbackReturns, Client!FallbackChecked, Client!RecordFallbackSuccess,
         Client!CallerCancels, Client!RecordPrimarySuccess, Client!RecordPrimaryHealthy,
         Client!HandsOver
<1>4. Client!InPrimary(c)' => Client!InPrimary(c) /\ dial'[c].id = dial[c].id
  <2>1. CASE Client!Return(c)
    BY <1>1, <2>1, DialMoves
  <2>4. CASE Client!CallerCancels(c)
    <3>1. dial[c] \in DialCalls
      BY <1>1
    <3>2. dial'[c].pc = dial[c].pc /\ dial'[c].id = dial[c].id
      BY <1>1, <2>4, <3>1 DEF Client!CallerCancels, DialCalls
    <3> QED
      BY <3>2 DEF Client!InPrimary
  <2>2. CASE dial[c].pc \in {"fallback", "got h2"}
    <3>1. \/ Client!Return(c) \/ Client!Goto(c, "got h2") \/ Client!Goto(c, "success h2")
          \/ Client!CallerCancels(c)
      BY <2>2 DEF Client!PrimaryReturns, Client!PrimaryChecked, Client!PrimaryFailed,
         Client!FallbackReturns, Client!FallbackChecked, Client!RecordFallbackSuccess,
         Client!RecordPrimarySuccess, Client!RecordPrimaryHealthy
    <3>2. CASE Client!Goto(c, "got h2") \/ Client!Goto(c, "success h2")
      BY <1>1, <3>2, DialMoves DEF Client!InPrimary
    <3> QED
      BY <2>1, <2>4, <3>1, <3>2
  <2>3. CASE Client!PrimaryReturns(c) \/ Client!PrimaryChecked(c) \/ Client!PrimaryFailed(c)
    <3>1. Client!InPrimary(c)
      BY <2>3 DEF Client!PrimaryReturns, Client!PrimaryChecked, Client!PrimaryFailed,
         Client!InPrimary
    <3>2. \/ \E l : Client!Goto(c, l)
          \/ \E refused \in BOOLEAN :
               dial' = [dial EXCEPT ![c].pc = "failed", ![c].refused = refused]
      BY <2>3 DEF Client!PrimaryReturns, Client!PrimaryChecked, Client!PrimaryFailed
    <3>3. CASE \E l : Client!Goto(c, l)
      BY <1>1, <3>1, <3>3, DialMoves
    <3>4. ASSUME NEW refused \in BOOLEAN,
                 dial' = [dial EXCEPT ![c].pc = "failed", ![c].refused = refused]
          PROVE  dial'[c].id = dial[c].id
      <4>1. dial[c] \in DialCalls
        BY <1>1
      <4> QED
        BY <1>1, <3>4, <4>1 DEF DialCalls
    <3> QED
      BY <3>1, <3>2, <3>3, <3>4
  <2>5. CASE Client!RecordFallbackSuccess(c) \/ Client!RecordPrimarySuccess(c) \/ Client!RecordPrimaryHealthy(c)
    BY <2>1, <2>5 DEF Client!RecordFallbackSuccess, Client!RecordPrimarySuccess,
       Client!RecordPrimaryHealthy
  <2>6. CASE Client!FallbackReturns(c) \/ Client!FallbackChecked(c)
    BY <2>2, <2>6 DEF Client!FallbackReturns, Client!FallbackChecked
  <2> QED
    BY <2>3, <2>4, <2>5, <2>6
<1>5. Client!TypeOK'
  BY <1>2, <1>3 DEF BreakerInv, Client!TypeOK, DialCalls, Client!breakerVars
<1> QED
  BY <1>2, <1>3, <1>4, <1>5, PlainStep

\* The steps that report a verdict or give a probe up.
LEMMA EndSteps ==
  ASSUME BreakerInv, NEW c \in StreamCallers,
         \/ ~stopped /\ (Client!RecordPrimarySuccess(c) \/ Client!RecordPrimaryHealthy(c))
         \/ Client!PrimaryAttemptFinished(c) \/ Client!RecordPrimaryFailure(c)
  PROVE  BreakerInv'
<1>1. dial \in [StreamCallers -> DialCalls]
  BY DEF BreakerInv, Client!TypeOK, DialCalls
<1>2. dial' \in [StreamCallers -> DialCalls] /\ \A d \in StreamCallers : d # c => dial'[d] = dial[d]
  BY <1>1, DialTypes DEF Client!CallStep
<1>3. Client!InPrimary(c) /\ ~Client!InPrimary(c)'
  <2>1. Client!InPrimary(c) /\ (Client!Return(c) \/ Client!Goto(c, "fallback"))
    BY DEF Client!InPrimary, Client!RecordPrimarySuccess, Client!RecordPrimaryHealthy,
           Client!PrimaryAttemptFinished, Client!RecordPrimaryFailure
  <2>2. CASE Client!Goto(c, "fallback")
    BY <1>1, <2>1, <2>2, DialMoves DEF Client!InPrimary
  <2> QED
    BY <1>1, <2>1, <2>2, DialMoves
<1>4. /\ UNCHANGED <<nextID, probers, stopped, packet>>
      /\ Client!ReleaseProbe(dial[c].id)
      /\ \/ UNCHANGED <<stateID, circuit, verdicts>>
         \/ \E healthy \in BOOLEAN : Client!Judge(c, healthy)
  BY DEF Client!RecordPrimarySuccess, Client!RecordPrimaryHealthy, Client!PrimaryAttemptFinished,
         Client!RecordPrimaryFailure, Client!HandsOver, Client!Judge
<1>5. /\ VerdictInv' /\ stateID' \in 0..nextID
      /\ circuit' \in {"closed", "cooling", "elapsed"}
      /\ verdicts' \in SUBSET [id : 1..nextID, healthy : BOOLEAN]
  <2>1. CASE UNCHANGED <<stateID, circuit, verdicts>>
    BY <2>1 DEF BreakerInv, VerdictInv, Client!TypeOK
  <2>2. ASSUME NEW healthy \in BOOLEAN, Client!Judge(c, healthy)
        PROVE  /\ VerdictInv' /\ stateID' \in 0..nextID
               /\ circuit' \in {"closed", "cooling", "elapsed"}
               /\ verdicts' \in SUBSET [id : 1..nextID, healthy : BOOLEAN]
    BY <1>3, <2>2, JudgeStep
  <2> QED
    BY <1>4, <2>1, <2>2
<1>6. \/ verdicts' = verdicts
      \/ \E healthy \in BOOLEAN :
           verdicts' = verdicts \cup {[id |-> dial[c].id, healthy |-> healthy]}
  BY <1>4 DEF Client!Judge
<1>7. NumbersInv' /\ ProbeInv' /\ Client!SingleProbe'
  BY <1>2, <1>3, <1>4, <1>6, EndStep
<1>8. Client!TypeOK'
  <2>1. probeID' \in Nat
    BY <1>4 DEF Client!ReleaseProbe, BreakerInv, Client!TypeOK
  <2> QED
    BY <1>2, <1>4, <1>5, <2>1 DEF BreakerInv, Client!TypeOK, DialCalls
<1> QED
  BY <1>5, <1>7, <1>8 DEF BreakerInv
\* A call begins: as fallback, as one of the attempts of a closed circuit, or
\* as the probe of an open one.
LEMMA StartStep ==
  ASSUME BreakerInv, NEW c \in StreamCallers, Client!Start(c)
  PROVE  BreakerInv'
<1>1. dial \in [StreamCallers -> DialCalls] /\ nextID \in Nat /\ probers \in SUBSET StreamCallers
  BY DEF BreakerInv, Client!TypeOK, DialCalls
<1>2. UNCHANGED <<stopped, packet>> /\ ~stopped
  BY DEF Client!Start
<1>3. CASE Client!CircuitOpen
  <2>1. Client!Goto(c, "fallback") /\ UNCHANGED Client!breakerVars
    BY <1>3 DEF Client!Start
  <2>2. dial' = [dial EXCEPT ![c] = [dial[c] EXCEPT !.pc = "fallback"]]
    BY <2>1 DEF Client!Goto
  <2>3. [dial[c] EXCEPT !.pc = "fallback"] \in DialCalls
    <3>1. dial[c] \in DialCalls
      BY <1>1
    <3> QED
      BY <3>1 DEF DialCalls
  <2>4. /\ dial' \in [StreamCallers -> DialCalls]
        /\ \A d \in StreamCallers : d # c => dial'[d] = dial[d]
    BY <1>1, <2>2, <2>3
  <2>5. ~Client!InPrimary(c)'
    BY <1>1, <2>1, DialMoves DEF Client!InPrimary
  <2>6. Client!TypeOK'
    BY <1>2, <2>1, <2>4 DEF BreakerInv, Client!TypeOK, DialCalls, Client!breakerVars
  <2> QED
    BY <1>2, <2>1, <2>4, <2>5, <2>6, PlainStep
<1>4. CASE ~Client!CircuitOpen
  <2> DEFINE n == nextID + 1
             x == [Client!Idle EXCEPT !.pc = "primary", !.id = n]
  <2>1. /\ nextID' = n /\ dial' = [dial EXCEPT ![c] = x]
        /\ UNCHANGED <<circuit, stateID, verdicts>>
        /\ circuit = "closed" => probeID' = probeID /\ probers' = probers \ {c}
        /\ circuit # "closed" => probeID' = n /\ probers' = probers \cup {c}
    BY <1>4 DEF Client!Start
  <2>2. x \in DialCalls /\ x.id = n /\ x.pc = "primary"
    <3> DEFINE y == [Client!Idle EXCEPT !.pc = "primary"]
    <3>1. y \in DialCalls /\ y.pc = "primary"
      BY DEF Client!Idle, DialCalls
    <3>2. n \in Nat /\ x = [y EXCEPT !.id = n]
      BY <1>1
    <3> HIDE DEF x, y, n
    <3> QED
      BY <3>1, <3>2 DEF DialCalls
  <2> HIDE DEF x
  <2>3. /\ dial' \in [StreamCallers -> DialCalls] /\ dial'[c] = x
        /\ \A d \in StreamCallers : d # c => dial'[d] = dial[d]
    BY <1>1, <2>1, <2>2
  <2>4. /\ dial'[c].id = n /\ n \in Nat /\ n > nextID
        /\ \A d \in StreamCallers : d # c /\ Client!InPrimary(d)' => Client!InPrimary(d) /\ dial'[d].id = dial[d].id
    BY <1>1, <2>2, <2>3 DEF Client!InPrimary
  <2>5. /\ \A d \in StreamCallers : Client!InPrimary(d) => dial[d].id \in 1..nextID
        /\ \A v \in verdicts : v.id \in 1..nextID
    BY DEF BreakerInv, NumbersInv, Client!TypeOK
  <2>6. NumbersInv'
    <3>1. \A d \in StreamCallers : Client!InPrimary(d)' =>
            /\ dial'[d].id \in 1..nextID'
            /\ \A v \in verdicts' : v.id # dial'[d].id
      <4> SUFFICES ASSUME NEW d \in StreamCallers, Client!InPrimary(d)'
                   PROVE  /\ dial'[d].id \in 1..nextID'
                          /\ \A v \in verdicts' : v.id # dial'[d].id
        OBVIOUS
      <4>1. CASE d = c
        BY <1>1, <2>1, <2>4, <2>5, <4>1
      <4>2. CASE d # c
        <5>1. /\ dial'[d].id = dial[d].id /\ dial[d].id \in 1..nextID
              /\ \A v \in verdicts : v.id # dial[d].id
          BY <2>4, <4>2 DEF BreakerInv, NumbersInv
        <5> QED
          BY <1>1, <2>1, <5>1
      <4> QED
        BY <4>1, <4>2
    <3>2. ASSUME NEW d \in StreamCallers, NEW e \in StreamCallers, Client!InPrimary(d)', Client!InPrimary(e)',
                 dial'[d].id = dial'[e].id
          PROVE  d = e
      <4>1. CASE d # c /\ e # c
        BY <2>4, <3>2, <4>1 DEF BreakerInv, NumbersInv
      <4>2. CASE d = c /\ e # c
        BY <1>1, <2>4, <2>5, <3>2, <4>2
      <4>3. CASE d # c /\ e = c
        BY <1>1, <2>4, <2>5, <3>2, <4>3
      <4> QED
        BY <4>1, <4>2, <4>3
    <3> QED
      BY <3>1, <3>2 DEF NumbersInv
  <2>7. \A d \in probers : Client!InPrimary(d) => probeID = dial[d].id /\ probeID # 0
    BY <1>1, <1>2, <2>5 DEF BreakerInv, ProbeInv
  <2>8. ProbeInv' /\ Client!SingleProbe'
    <3>1. CASE circuit = "closed"
      BY <1>1, <1>2, <2>1, <2>4, <2>7, <3>1 DEF ProbeInv, Client!SingleProbe, BreakerInv
    <3>2. CASE circuit # "closed"
      <4>1. probeID = 0
        BY <1>4, <3>2 DEF Client!CircuitOpen, BreakerInv, Client!TypeOK
      <4>2. \A d \in probers' : Client!InPrimary(d)' => d = c
        BY <1>1, <2>1, <2>4, <2>7, <3>2, <4>1
      <4> QED
        BY <2>1, <2>4, <3>2, <4>2 DEF ProbeInv, Client!SingleProbe
    <3> QED
      BY <3>1, <3>2
  <2>9. VerdictInv'
    BY <2>1 DEF BreakerInv, VerdictInv
  <2>10. Client!TypeOK'
    <3>1. /\ circuit' \in {"closed", "cooling", "elapsed"} /\ stopped' \in BOOLEAN
          /\ packet' \in [PacketCallers -> {"idle", "dialing", "open", "done"}]
          /\ probers' \in SUBSET StreamCallers
      <4>1. /\ circuit \in {"closed", "cooling", "elapsed"} /\ stopped \in BOOLEAN
            /\ packet \in [PacketCallers -> {"idle", "dialing", "open", "done"}]
        BY DEF BreakerInv, Client!TypeOK
      <4> QED
        BY <1>1, <1>2, <2>1, <4>1
    <3>2. stateID' \in 0..nextID' /\ nextID' \in Nat /\ probeID' \in Nat
      <4>1. stateID \in 0..nextID /\ probeID \in Nat
        BY DEF BreakerInv, Client!TypeOK
      <4>2. n \in Nat /\ n > nextID
        BY <1>1
      <4> HIDE DEF n
      <4> QED
        BY <1>1, <2>1, <4>1, <4>2
    <3>3. verdicts' \in SUBSET [id : 1..nextID', healthy : BOOLEAN]
      <4>1. verdicts \in SUBSET [id : 1..nextID, healthy : BOOLEAN]
        BY DEF BreakerInv, Client!TypeOK
      <4>2. 1..nextID \subseteq 1..nextID'
        BY <1>1, <2>1
      <4> QED
        BY <2>1, <4>1, <4>2
    <3> QED
      BY <2>3, <3>1, <3>2, <3>3 DEF Client!TypeOK, DialCalls
  <2> QED
    BY <2>6, <2>8, <2>9, <2>10 DEF BreakerInv
<1> QED
  BY <1>3, <1>4

\* A CONNECT-UDP response reports with the greatest number of all.
LEMMA ReportStep ==
  ASSUME BreakerInv, NEW p \in PacketCallers, Client!RecordOutOfBandPrimaryHealthy(p)
  PROVE  BreakerInv'
<1> DEFINE n == nextID + 1
           v == [id |-> n, healthy |-> TRUE]
<1>1. /\ nextID' = n /\ stateID' = n /\ circuit' = "closed" /\ probeID' = 0
      /\ verdicts' = verdicts \cup {v} /\ probers' = {}
      /\ UNCHANGED <<stopped, dial, packet>>
  BY DEF Client!RecordOutOfBandPrimaryHealthy, Client!FreshNumber
<1>2. nextID \in Nat /\ n \in Nat /\ n > nextID /\ v.id = n /\ v.healthy = TRUE
  <2>1. nextID \in Nat
    BY DEF BreakerInv, Client!TypeOK
  <2> QED
    BY <2>1
<1>3. /\ verdicts \in SUBSET [id : 1..nextID, healthy : BOOLEAN]
      /\ \A w \in verdicts : w.id \in 1..nextID
  BY DEF BreakerInv, Client!TypeOK
<1> HIDE DEF v, n
<1>4. \A w \in verdicts' : w = v \/ w \in verdicts
  BY <1>1
<1>5. VerdictInv'
  <2>1. v \in verdicts'
    BY <1>1
  <2>2. \A w \in verdicts' : w.id <= n /\ (w.id = n => w = v)
    BY <1>2, <1>3, <1>4
  <2> QED
    BY <1>1, <1>2, <2>1, <2>2 DEF VerdictInv
<1>6. NumbersInv'
  <2>1. \A c \in StreamCallers : Client!InPrimary(c)' <=> Client!InPrimary(c)
    BY <1>1 DEF Client!InPrimary
  <2>2. \A c \in StreamCallers : Client!InPrimary(c) =>
          dial[c].id \in 1..nextID /\ \A w \in verdicts : w.id # dial[c].id
    BY DEF BreakerInv, NumbersInv
  <2>3. \A c \in StreamCallers : Client!InPrimary(c)' =>
          /\ dial'[c].id \in 1..nextID'
          /\ \A w \in verdicts' : w.id # dial'[c].id
    BY <1>1, <1>2, <1>4, <2>1, <2>2
  <2> QED
    BY <1>1, <2>1, <2>3 DEF BreakerInv, NumbersInv
<1>7. ProbeInv' /\ Client!SingleProbe'
  BY <1>1 DEF ProbeInv, Client!SingleProbe
<1>8. Client!TypeOK'
  <2>1. v \in [id : 1..n, healthy : BOOLEAN]
    BY <1>2 DEF v
  <2>2. 1..nextID \subseteq 1..n
    BY <1>2
  <2>3. verdicts' \in SUBSET [id : 1..nextID', healthy : BOOLEAN]
    BY <1>1, <1>3, <2>1, <2>2
  <2>4. probeID' \in Nat /\ nextID' \in Nat /\ stateID' \in 0..nextID'
    BY <1>1, <1>2
  <2> QED
    BY <1>1, <2>3, <2>4 DEF BreakerInv, Client!TypeOK
<1> QED
  BY <1>5, <1>6, <1>7, <1>8 DEF BreakerInv

\* The invariant is inductive.
LEMMA BreakerNext == BreakerInv /\ [Client!Next]_Client!vars => BreakerInv'
<1> SUFFICES ASSUME BreakerInv, [Client!Next]_Client!vars PROVE BreakerInv'
  OBVIOUS
<1>1. ASSUME NEW c \in StreamCallers, Client!Start(c) PROVE BreakerInv'
  BY <1>1, StartStep
<1>2. ASSUME NEW c \in StreamCallers, Client!CallStep(c) \/ Client!CallerCancels(c) PROVE BreakerInv'
  <2>1. stopped \in BOOLEAN
    BY DEF BreakerInv, Client!TypeOK
  <2> QED
    BY <1>2, <2>1, PlainSteps, EndSteps DEF Client!CallStep
<1>3. ASSUME NEW p \in PacketCallers, Client!DialPacket(p) \/ Client!DialPacketReturns(p)
      PROVE  BreakerInv'
  <2>1. UNCHANGED Client!breakerVars /\ UNCHANGED <<stopped, dial>>
    BY <1>3 DEF Client!DialPacket, Client!DialPacketReturns
  <2>2. packet' \in [PacketCallers -> {"idle", "dialing", "open", "done"}]
    BY <1>3 DEF Client!DialPacket, Client!DialPacketReturns, BreakerInv, Client!TypeOK
  <2>3. Client!TypeOK'
    BY <2>1, <2>2 DEF BreakerInv, Client!TypeOK, Client!breakerVars
  <2> QED
    BY <2>1, <2>3 DEF BreakerInv, NumbersInv, ProbeInv, VerdictInv, Client!SingleProbe,
       Client!InPrimary, Client!breakerVars
<1>4. ASSUME NEW p \in PacketCallers, Client!RecordOutOfBandPrimaryHealthy(p) PROVE BreakerInv'
  BY <1>4, ReportStep
<1>5. CASE Client!CooldownElapses
  <2>1. /\ circuit = "cooling" /\ circuit' = "elapsed"
        /\ UNCHANGED <<probeID, nextID, stateID, verdicts, probers, stopped, dial, packet>>
    BY <1>5 DEF Client!CooldownElapses
  <2>2. Client!TypeOK'
    BY <2>1 DEF BreakerInv, Client!TypeOK
  <2>3. VerdictInv'
    BY <2>1 DEF BreakerInv, VerdictInv
  <2> QED
    BY <2>1, <2>2, <2>3 DEF BreakerInv, NumbersInv, ProbeInv, Client!SingleProbe, Client!InPrimary
<1>6. CASE Client!Close
  <2>1. /\ stopped' = TRUE /\ probeID' = 0
        /\ UNCHANGED <<circuit, nextID, stateID, verdicts, probers, dial, packet>>
    BY <1>6 DEF Client!Close
  <2>2. Client!TypeOK'
    BY <2>1 DEF BreakerInv, Client!TypeOK
  <2> QED
    BY <2>1, <2>2 DEF BreakerInv, NumbersInv, ProbeInv, VerdictInv, Client!SingleProbe,
       Client!InPrimary
<1>7. CASE UNCHANGED Client!vars
  BY <1>7 DEF Client!vars, Client!breakerVars, BreakerInv, Client!TypeOK, NumbersInv, ProbeInv,
     VerdictInv, Client!SingleProbe, Client!InPrimary
<1> QED
  BY <1>1, <1>2, <1>3, <1>4, <1>5, <1>6, <1>7 DEF Client!Next
-----------------------------------------------------------------------------
\* A behaviour of the instance is one of the breaker.
LEMMA BreakerSafety == WebSafety => Client!Safety
<1>1. WebInit => Client!Init
  BY DEF WebInit
<1>2. [WebNext]_webVars => [Client!Next]_Client!vars
  BY DEF WebNext, Credentials, AnyArrivals, Breaker, FullCredentials, webVars, breakerVars,
         Client!vars, Client!breakerVars
<1> QED
  BY <1>1, <1>2, PTL DEF WebSafety, Client!Safety

\* The inductive invariant holds in every state.
THEOREM BreakerInvariance == WebSafety => []BreakerInv
BY BreakerSafety, BreakerInit, BreakerNext, PTL DEF Client!Safety

\* Only one caller probes an open circuit at a time, unless a CONNECT-UDP
\* response proved the path healthy in between (shouldTryPrimary).
THEOREM OneProbe == WebSafety => []SingleProbe
BY BreakerInvariance, PTL DEF BreakerInv, SingleProbe

\* The breaker shows the verdict of the newest attempt that reported one, in
\* whatever order the attempts report (recordPrimaryFailure,
\* recordPrimaryHealthy, recordOutOfBandPrimaryHealthy).
THEOREM ShowsNewestVerdict == WebSafety => []NewestVerdict
<1>1. BreakerInv => NewestVerdict
  <2> SUFFICES ASSUME BreakerInv PROVE NewestVerdict
    OBVIOUS
  <2> DEFINE newest == CHOOSE v \in verdicts : \A w \in verdicts : w.id <= v.id
  <2>1. verdicts \in SUBSET [id : 1..nextID, healthy : BOOLEAN] /\ stateID \in 0..nextID
        /\ nextID \in Nat
    BY DEF BreakerInv, Client!TypeOK
  <2>2. CASE verdicts = {}
    BY <2>2 DEF NewestVerdict, Client!NewestVerdict, BreakerInv, VerdictInv
  <2>3. CASE verdicts # {}
    <3>1. PICK v \in verdicts : v.id = stateID
      BY <2>3 DEF BreakerInv, VerdictInv
    <3>2. \A w \in verdicts : w.id <= v.id /\ w.id \in Nat
      BY <2>1, <3>1 DEF BreakerInv, VerdictInv
    <3>3. newest \in verdicts /\ \A w \in verdicts : w.id <= newest.id
      BY <3>2
    <3> HIDE DEF newest
    <3>4. newest.id = stateID
      BY <3>1, <3>2, <3>3
    <3>5. newest.healthy <=> circuit = "closed"
      BY <3>3, <3>4 DEF BreakerInv, VerdictInv
    <3> QED
      BY <2>3, <3>5 DEF NewestVerdict, Client!NewestVerdict, newest
  <2> QED
    BY <2>2, <2>3
<1> QED
  BY <1>1, BreakerInvariance, PTL

\* A dial that succeeds after Close has begun hands out nothing, at whichever
\* of its steps Close overtakes it (recordPrimarySuccess, recordFallbackSuccess).
THEOREM ClosedHandsOutNothing == WebSafety => NothingAfterClose
<1>1. [Client!Next]_Client!vars => [stopped => handed' = handed]_Client!vars
  BY DEF Client!Next, Client!Start, Client!CallStep, Client!PrimaryReturns,
         Client!PrimaryChecked, Client!RecordPrimarySuccess, Client!PrimaryFailed,
         Client!PrimaryAttemptFinished, Client!RecordPrimaryHealthy, Client!RecordPrimaryFailure,
         Client!FallbackReturns, Client!FallbackChecked, Client!RecordFallbackSuccess,
         Client!CallerCancels, Client!DialPacket, Client!DialPacketReturns,
         Client!RecordOutOfBandPrimaryHealthy, Client!CooldownElapses, Client!Close,
         Client!HandsOver
<1> QED
  BY <1>1, BreakerSafety, PTL DEF Client!Safety, NothingAfterClose, Client!NothingAfterClose
-----------------------------------------------------------------------------
(* The nonce cache. *)

\* A request in flight carries a signed nonce whose time was accepted.
Judged(q) ==
  /\ q.nonce \in DOMAIN signed
  /\ q.now <= MaxTime
  /\ Nonce!TimestampAccepted(q.now, signed[q.nonce])

NonceTypes ==
  /\ clock \in 0..MaxTime
  /\ latest \in Int
  /\ DOMAIN signed \subseteq Nonces
  /\ \A n \in DOMAIN signed : signed[n] \in Int
  /\ accepted \in [Nonces -> Nat]
  /\ request \in [Requests -> [nonce : Nonces \cup {"none"}, now : Int]]

\* A nonce that was accepted is remembered until its time is over, and by then
\* the cache has seen a later time.
Remembered(n) ==
  \/ n \in DOMAIN nonces /\ nonces[n] = Nonce!Expires(signed[n])
  \/ latest > Nonce!Expires(signed[n])

NonceInv ==
  /\ NonceTypes
  /\ \A r \in Requests : request[r] # Nonce!Idle => Judged(request[r])
  /\ \A n \in Nonces : accepted[n] > 0 => n \in DOMAIN signed /\ Remembered(n)
-----------------------------------------------------------------------------
\* The skew window takes no time after the entry's expiry: acceptNonce keeps a
\* nonce for as long as webAuthTimestampAccepted would take its credential.
LEMMA ExpiryCoversSkew ==
  ASSUME NEW now \in Int, NEW timestamp \in Int,
         now <= MaxTime, Nonce!TimestampAccepted(now, timestamp)
  PROVE  now <= Nonce!Expires(timestamp)
BY WebAssumption DEF Nonce!TimestampAccepted, Nonce!Expires

LEMMA ExpiresIsTime ==
  ASSUME NEW timestamp \in Int
  PROVE  Nonce!Expires(timestamp) \in Int
BY WebAssumption DEF Nonce!Expires

LEMMA NonceInit == Nonce!Init => NonceInv
BY WebAssumption DEF Nonce!Init, NonceInv, NonceTypes, Nonce!Idle

LEMMA TickInvariant ==
  ASSUME NonceInv, Nonce!Tick
  PROVE  NonceInv'
BY WebAssumption DEF NonceInv, NonceTypes, Nonce!Tick, Judged, Remembered, Nonce!Expires,
       Nonce!TimestampAccepted

LEMMA SignInvariant ==
  ASSUME NonceInv, NEW n \in Nonces, NEW offset \in Offsets,
         Nonce!Sign(n, offset)
  PROVE  NonceInv'
<1>1. /\ DOMAIN signed' = DOMAIN signed \cup {n}
      /\ \A m \in DOMAIN signed : signed'[m] = signed[m]
      /\ signed'[n] \in Int
  BY WebAssumption DEF Nonce!Sign, NonceInv, NonceTypes
<1>2. NonceTypes'
  BY <1>1 DEF Nonce!Sign, NonceInv, NonceTypes
<1>3. \A r \in Requests : request'[r] # Nonce!Idle => Judged(request[r])'
  BY <1>1 DEF Nonce!Sign, NonceInv, Judged, Nonce!TimestampAccepted
<1>4. \A m \in Nonces : accepted'[m] > 0 => m \in DOMAIN signed' /\ Remembered(m)'
  BY <1>1 DEF Nonce!Sign, NonceInv, Remembered, Nonce!Expires
<1> QED BY <1>2, <1>3, <1>4 DEF NonceInv

LEMMA PresentInvariant ==
  ASSUME NonceInv, NEW r \in Requests, NEW n \in Nonces,
         Nonce!Present(r, n)
  PROVE  NonceInv'
<1>1. /\ request'[r] = [nonce |-> n, now |-> clock]
      /\ \A s \in Requests \ {r} : request'[s] = request[s]
  BY DEF Nonce!Present, NonceInv, NonceTypes
<1>2. NonceTypes'
  BY WebAssumption DEF Nonce!Present, NonceInv, NonceTypes
<1>3. ASSUME NEW s \in Requests, request'[s] # Nonce!Idle
      PROVE  Judged(request[s])'
  <2>1. CASE s = r
    BY <1>1, <2>1, WebAssumption DEF Nonce!Present, NonceInv, NonceTypes, Judged,
       Nonce!TimestampAccepted
  <2>2. CASE s # r
    BY <1>1, <1>3, <2>2 DEF Nonce!Present, NonceInv, Judged, Nonce!TimestampAccepted
  <2> QED BY <2>1, <2>2
<1>4. \A m \in Nonces : accepted'[m] > 0 => m \in DOMAIN signed' /\ Remembered(m)'
  BY DEF Nonce!Present, NonceInv, Remembered, Nonce!Expires
<1> QED BY <1>2, <1>3, <1>4 DEF NonceInv

LEMMA AcceptNonceInvariant ==
  ASSUME NonceInv, NEW r \in Requests, Nonce!AcceptNonce(r)
  PROVE  NonceInv'
<1> DEFINE q == request[r]
           n == q.nonce
           remaining == Nonce!Remaining(q.now)
           refused == n \in remaining \/ Nonce!Cardinality(remaining) >= MaxEntries
<1>1. /\ q # Nonce!Idle /\ q \in [nonce : Nonces \cup {"none"}, now : Int]
      /\ Judged(q) /\ n \in DOMAIN signed /\ n \in Nonces
  BY DEF Nonce!AcceptNonce, NonceInv, NonceTypes, Judged
<1>2. /\ request' = [request EXCEPT ![r] = Nonce!Idle]
      /\ latest' = Nonce!Greater(latest, q.now)
      /\ accepted' = [accepted EXCEPT ![n] = IF refused THEN @ ELSE @ + 1]
      /\ nonces' = [m \in remaining \cup (IF refused THEN {} ELSE {n}) |->
                      IF m \in remaining THEN nonces[m] ELSE Nonce!Expires(signed[n])]
      /\ signed' = signed /\ clock' = clock
  BY DEF Nonce!AcceptNonce
<1>3. /\ latest' \in Int /\ latest' >= latest /\ latest' >= q.now
  BY <1>1, <1>2 DEF Nonce!Greater, NonceInv, NonceTypes
<1> HIDE DEF refused
<1>4. /\ accepted' \in [Nonces -> Nat]
      /\ \A m \in Nonces \ {n} : accepted'[m] = accepted[m]
      /\ refused => accepted'[n] = accepted[n]
  BY <1>1, <1>2 DEF NonceInv, NonceTypes
<1>5. NonceTypes'
  BY <1>1, <1>2, <1>3, <1>4 DEF NonceInv, NonceTypes, Nonce!Idle
<1>6. ASSUME NEW s \in Requests, request'[s] # Nonce!Idle
      PROVE  Judged(request[s])'
  BY <1>2, <1>6 DEF NonceInv, NonceTypes, Judged, Nonce!TimestampAccepted
<1>7. ASSUME NEW m \in Nonces, accepted'[m] > 0
      PROVE  m \in DOMAIN signed' /\ Remembered(m)'
  <2>1. CASE m = n /\ ~refused
    <3>1. n \notin remaining
      BY <2>1 DEF refused
    <3>2. n \in DOMAIN nonces' /\ nonces'[n] = Nonce!Expires(signed[n])
      BY <1>2, <2>1, <3>1
    <3> QED BY <1>1, <1>2, <2>1, <3>2 DEF Remembered, Nonce!Expires
  <2>2. CASE ~(m = n /\ ~refused)
    <3>1. accepted[m] > 0 /\ m \in DOMAIN signed /\ Remembered(m)
      BY <1>4, <1>7, <2>2 DEF NonceInv
    <3>2. Nonce!Expires(signed[m]) \in Int
      BY <3>1, ExpiresIsTime DEF NonceInv, NonceTypes
    <3>3. CASE m \in remaining
      <4>1. m \in DOMAIN nonces' /\ nonces'[m] = nonces[m]
        BY <1>2, <3>3
      <4> QED BY <1>2, <1>3, <3>1, <3>2, <4>1
           DEF Remembered, Nonce!Expires, NonceInv, NonceTypes
    <3>4. CASE m \notin remaining
      <4>1. latest > Nonce!Expires(signed[m]) \/ ~(q.now <= Nonce!Expires(signed[m]))
        BY <3>1, <3>4 DEF Remembered, Nonce!Remaining
      <4>2. latest' > Nonce!Expires(signed[m])
        BY <1>1, <1>3, <3>2, <4>1 DEF NonceInv, NonceTypes
      <4> QED BY <1>2, <3>1, <4>2 DEF Remembered, Nonce!Expires
    <3> QED BY <3>3, <3>4
  <2> QED BY <2>1, <2>2
<1> QED BY <1>5, <1>6, <1>7 DEF NonceInv

LEMMA NonceStep ==
  ASSUME NonceInv, [Nonce!Next]_(Nonce!vars)
  PROVE  NonceInv'
<1>1. CASE Nonce!Tick
  BY <1>1, TickInvariant
<1>2. ASSUME NEW n \in Nonces, NEW offset \in Offsets, Nonce!Sign(n, offset)
      PROVE  NonceInv'
  BY <1>2, SignInvariant
<1>3. ASSUME NEW r \in Requests, NEW n \in Nonces, Nonce!Present(r, n)
      PROVE  NonceInv'
  BY <1>3, PresentInvariant
<1>4. ASSUME NEW r \in Requests, Nonce!AcceptNonce(r)
      PROVE  NonceInv'
  BY <1>4, AcceptNonceInvariant
<1>5. CASE UNCHANGED Nonce!vars
  BY <1>5 DEF Nonce!vars, NonceInv, NonceTypes, Judged, Remembered, Nonce!Expires,
     Nonce!TimestampAccepted
<1> QED BY <1>1, <1>2, <1>3, <1>4, <1>5 DEF Nonce!Next

\* A behaviour of the instance is one of the nonce cache.
LEMMA NonceSafety == WebSafety => Nonce!Spec
<1>1. WebInit => Nonce!Init
  BY DEF WebInit
<1>2. [WebNext]_webVars => [Nonce!Next]_Nonce!vars
  BY DEF WebNext, Credentials, AnyArrivals, Breaker, FullCredentials, webVars, nonceVars,
         Nonce!vars
<1> QED BY <1>1, <1>2, PTL DEF WebSafety, Nonce!Spec

\* Whatever is signed, presented, accepted and forgotten, an accepted nonce is
\* remembered until the cache has seen a time after its expiry (acceptNonce).
THEOREM NonceInvariance == WebSafety => []NonceInv
<1>1. NonceInv /\ [Nonce!Next]_(Nonce!vars) => NonceInv'
  BY NonceStep
<1> QED BY <1>1, NonceInit, NonceSafety, PTL DEF Nonce!Spec
-----------------------------------------------------------------------------
\* Only AcceptNonce counts a use, and then the entry that should have refused
\* it is gone: either the request's own time is after the expiry, which its
\* judgement excludes, or the cache has seen a later one.
LEMMA StepSingleUse ==
  ASSUME NonceInv, Nonce!Next,
         NEW n \in Nonces, accepted[n] > 0, accepted'[n] > accepted[n]
  PROVE  \E r \in Requests : request[r].nonce = n /\ request[r].now < latest
<1>1. PICK r \in Requests : Nonce!AcceptNonce(r)
  <2>1. accepted' # accepted
    <3>1. accepted[n] \in Nat
      BY DEF NonceInv, NonceTypes
    <3> QED BY <3>1
  <2>2. ~Nonce!Tick /\ (\A m, offset : ~Nonce!Sign(m, offset)) /\ (\A s, m : ~Nonce!Present(s, m))
    BY <2>1 DEF Nonce!Tick, Nonce!Sign, Nonce!Present
  <2> QED BY <2>2 DEF Nonce!Next
<1> DEFINE q == request[r]
           remaining == Nonce!Remaining(q.now)
<1>2. /\ q # Nonce!Idle /\ q \in [nonce : Nonces \cup {"none"}, now : Int]
      /\ Judged(q)
  BY <1>1 DEF Nonce!AcceptNonce, NonceInv, NonceTypes
<1>3. q.nonce = n /\ n \notin remaining
  BY <1>1 DEF Nonce!AcceptNonce, NonceInv, NonceTypes
<1>4. n \in DOMAIN signed /\ signed[n] \in Int /\ Remembered(n)
  BY DEF NonceInv, NonceTypes
<1>5. Nonce!Expires(signed[n]) \in Int /\ q.now <= Nonce!Expires(signed[n])
  BY <1>2, <1>3, <1>4, ExpiresIsTime, ExpiryCoversSkew DEF Judged
<1>6. latest > Nonce!Expires(signed[n])
  BY <1>3, <1>4, <1>5 DEF Remembered, Nonce!Remaining
<1>7. q.now < latest
  BY <1>2, <1>5, <1>6 DEF NonceInv, NonceTypes
<1> QED BY <1>3, <1>7

\* A nonce is accepted a second time only by a request that was overtaken
\* between its reading of the clock and the cache's lock.
THEOREM NoncesUsedOnce == WebSafety => NonceSingleUse
<1> DEFINE Single == \A n \in Nonces :
                       accepted[n] > 0 /\ accepted'[n] > accepted[n]
                       => \E r \in Requests :
                            request[r].nonce = n /\ request[r].now < latest
<1>1. NonceInv /\ [Nonce!Next]_(Nonce!vars) => [Single]_(Nonce!vars)
  BY StepSingleUse
<1> QED BY <1>1, NonceInvariance, NonceSafety, PTL
     DEF Nonce!Spec, NonceSingleUse, Nonce!NonceSingleUse
================================================================================
