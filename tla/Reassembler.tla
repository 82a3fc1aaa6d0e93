------------------------------ MODULE Reassembler ------------------------------
(***************************************************************************)
(* Fragmentation and reassembly of UDP messages (internal/datagram,        *)
(* codec.go and reassembler.go) over a network that loses, duplicates and  *)
(* reorders fragments.                                                     *)
(*                                                                         *)
(* Abstraction.  A key stands for session id, message id and direction,    *)
(* meta for flags and address; the bytes of the frame header, and of the   *)
(* names, are left out.  Every method is one critical section; the clock   *)
(* it read just before is the current one (one receive loop feeds a        *)
(* reassembler, and no other goroutine reads its clock).                   *)
(***************************************************************************)
EXTENDS Integers, Sequences, FiniteSets, Functions, SequencesExt

CONSTANTS
  Traffic,           \* messages the sender may encode
  Foreign,           \* fragments a peer with other limits may send
  MaxMessages,       \* config.MaxMessages
  MaxBufferedBytes,  \* config.MaxBufferedBytes
  TTL,               \* config.TTL
  MaxPayloadSize,    \* 4096 in the code
  MaxFragments,      \* 256 in the code
  MaxClock           \* bound: ticks of the clock

\* A message has a key, its meta, a payload and room, the payload one frame
\* takes (payloadPerFrame: the frame size less header and address).
\* The limits are at least 1, and no fragment of a foreign peer has the key of a
\* message of ours: it is another connection's, or another session's.

VARIABLES
  messages,       \* r.messages, key -> assembly
  bufferedBytes,  \* r.bufferedBytes
  clock,          \* r.now()
  sent,           \* history: messages encoded so far
  inFlight,       \* those whose fragments may still arrive
  lastArrival,    \* history: when a fragment of a key last arrived
  delivered       \* history: messages completed so far

vars == <<messages, bufferedBytes, clock, sent, inFlight, lastArrival,
          delivered>>

Keys == {m.key : m \in Traffic} \cup {f.key : f \in Foreign}

Init ==
  /\ messages = [k \in {} |-> {}] /\ bufferedBytes = 0
  /\ clock = 0
  /\ sent = {} /\ inFlight = {}
  /\ lastArrival = [k \in {m.key : m \in Traffic} |-> 0]
  /\ delivered = {}
-----------------------------------------------------------------------------
(* Encode: the fragments of a message. *)

CountRoundsDown(m) == Len(m.payload) \div m.room   \* mutant: the rest is lost
FragmentCount(m) ==
  IF m.payload = <<>> THEN 1
  ELSE (Len(m.payload) + m.room - 1) \div m.room

Encodable(m) ==
  /\ Len(m.payload) <= MaxPayloadSize /\ m.room >= 1
  /\ FragmentCount(m) <= MaxFragments

Smaller(x, y) == IF x <= y THEN x ELSE y
Fragments(m) ==
  {[key |-> m.key, meta |-> m.meta, index |-> i, count |-> FragmentCount(m),
    payload |-> SubSeq(m.payload, i * m.room + 1,
                       Smaller((i + 1) * m.room, Len(m.payload)))] :
     i \in 0..(FragmentCount(m) - 1)}

\* validateFragment, as far as sizes go.
ValidFragment(f) ==
  /\ f.count \in 1..MaxFragments /\ f.index \in 0..(f.count - 1)
  /\ f.count > 1 => f.payload # <<>>
  /\ Len(f.payload) <= MaxPayloadSize

\* The sender numbers messages with a 32-bit counter: a key comes back once
\* the fragments of its last use are gone for a lifetime.  A message with
\* another meta may use a key at any time (two senders at odds).
Send(m) ==
  LET reused == {n \in inFlight : n.key = m.key /\ n.meta = m.meta} IN
  /\ m \notin sent /\ Encodable(m)
  /\ reused # {} => clock >= lastArrival[m.key] + TTL
  /\ sent' = sent \cup {m}
  /\ inFlight' = (inFlight \ reused) \cup {m}
  /\ UNCHANGED <<messages, bufferedBytes, clock, lastArrival, delivered>>
-----------------------------------------------------------------------------
(* The reassembler. *)

\* expireLocked: the assemblies that outlive a call at this time.
KeepsAll == DOMAIN messages                        \* mutant: nothing expires
Unexpired == {k \in DOMAIN messages : clock < messages[k].createdAt + TTL}

\* An assembly knows its meta and fragment count, the time of its first
\* fragment, the parts by index, and their bytes.
BytesOf(K) == SumFunction([k \in K |-> messages[k].bytes])

\* r.bufferedBytes once only the keys of K are left: each removal returns the
\* bytes of its assembly.
Buffered(K) == bufferedBytes - BytesOf(DOMAIN messages \ K)

KeepOnly(K) ==
  /\ messages' = Restrict(messages, K)
  /\ bufferedBytes' = Buffered(K)
KeepStored(K, f, assembly) ==
  /\ messages' = [k \in K \cup {f.key} |->
                    IF k = f.key THEN assembly ELSE messages[k]]
  /\ bufferedBytes' = Buffered(K) + Len(f.payload)

EmptyAssembly(f) ==
  [meta |-> f.meta, count |-> f.count, createdAt |-> clock,
   parts |-> [i \in {} |-> <<>>], bytes |-> 0]
Matches(assembly, f) == assembly.meta = f.meta /\ assembly.count = f.count

WithPartRefreshed(assembly, f) ==                  \* mutant: lifetime restarts
  [assembly EXCEPT
     !.parts = [i \in DOMAIN @ \cup {f.index} |->
                  IF i = f.index THEN f.payload ELSE @[i]],
     !.bytes = @ + Len(f.payload), !.createdAt = clock]
WithPart(assembly, f) ==
  [assembly EXCEPT
     !.parts = [i \in DOMAIN @ \cup {f.index} |->
                  IF i = f.index THEN f.payload ELSE @[i]],
     !.bytes = @ + Len(f.payload)]

\* The parts in index order.
Joined(assembly) ==
  FlattenSeq([i \in 1..assembly.count |-> assembly.parts[i - 1]])
Deliver(f, payload) ==
  delivered' = delivered \cup {[key |-> f.key, meta |-> f.meta,
                                payload |-> payload]}

\* The limits that concern the whole reassembler.
NoByteLimit(f, K) == TRUE                          \* mutant
Fits(f, K) == Len(f.payload) <= MaxBufferedBytes - Buffered(K)

\* A fragment of a key with no live assembly.
AddFirst(f, K) ==
  \/ /\ f.count = 1
     /\ Deliver(f, f.payload) /\ KeepOnly(K)
  \/ /\ f.count > 1 /\ Cardinality(K) < MaxMessages /\ Fits(f, K)
     /\ KeepStored(K, f, WithPart(EmptyAssembly(f), f))
     /\ UNCHANGED delivered
  \/ /\ f.count > 1 /\ (Cardinality(K) >= MaxMessages \/ ~Fits(f, K))
     /\ KeepOnly(K) /\ UNCHANGED delivered         \* ErrCapacity

\* A fragment of a live assembly: conflicting meta or content drops it, an
\* exact duplicate changes nothing.
AddNext(f, K) ==
  LET current == messages[f.key] IN
  \/ /\ ~Matches(current, f)
     /\ KeepOnly(K \ {f.key}) /\ UNCHANGED delivered
  \/ /\ Matches(current, f) /\ f.index \in DOMAIN current.parts
     /\ KeepOnly(IF current.parts[f.index] = f.payload THEN K ELSE K \ {f.key})
     /\ UNCHANGED delivered
  \/ /\ Matches(current, f) /\ f.index \notin DOMAIN current.parts
     /\ Len(f.payload) > MaxPayloadSize - current.bytes
     /\ KeepOnly(K \ {f.key}) /\ UNCHANGED delivered
  \/ /\ Matches(current, f) /\ f.index \notin DOMAIN current.parts
     /\ Len(f.payload) <= MaxPayloadSize - current.bytes
     /\ IF ~Fits(f, K)
        THEN KeepOnly(K) /\ UNCHANGED delivered    \* ErrCapacity
        ELSE LET stored == WithPart(current, f) IN
             IF Cardinality(DOMAIN stored.parts) < f.count
             THEN KeepStored(K, f, stored) /\ UNCHANGED delivered
             ELSE Deliver(f, Joined(stored)) /\ KeepOnly(K \ {f.key})

Add(f) ==
  /\ ValidFragment(f)
  /\ IF f.key \in Unexpired THEN AddNext(f, Unexpired) ELSE AddFirst(f, Unexpired)
  /\ lastArrival' = [k \in DOMAIN lastArrival |->
                       IF k = f.key THEN clock ELSE lastArrival[k]]
  /\ UNCHANGED <<clock, sent, inFlight>>

\* Any fragment in flight may arrive, any number of times, in any order.
Arrive ==
  \/ \E m \in inFlight : \E f \in Fragments(m) : Add(f)
  \/ \E f \in Foreign : Add(f)

\* Expire; Stats starts with it too.
Expire ==
  /\ KeepOnly(Unexpired)
  /\ UNCHANGED <<clock, sent, inFlight, lastArrival, delivered>>

\* DiscardSession.
DiscardSession(session) ==
  /\ KeepOnly({k \in DOMAIN messages : k.session # session})
  /\ UNCHANGED <<clock, sent, inFlight, lastArrival, delivered>>

Tick ==
  /\ clock < MaxClock
  /\ clock' = clock + 1
  /\ UNCHANGED <<messages, bufferedBytes, sent, inFlight, lastArrival, delivered>>

Next ==
  \/ \E m \in Traffic : Send(m)
  \/ Arrive
  \/ Expire
  \/ \E k \in Keys : DiscardSession(k.session)
  \/ Tick

Safety == Init /\ [][Next]_vars
-----------------------------------------------------------------------------
(* Properties. *)

SumOfParts(assembly) ==
  SumFunction([i \in DOMAIN assembly.parts |-> Len(assembly.parts[i])])

ByteAccounting ==
  /\ bufferedBytes = SumFunction([k \in DOMAIN messages |->
                                    SumOfParts(messages[k])])
  /\ \A k \in DOMAIN messages : messages[k].bytes = SumOfParts(messages[k])

\* The byte counters are the sums of what is really held, whatever was dropped,
\* expired, discarded or completed, and unfinished messages stay inside the
\* limits; none is empty or complete: a fragment that completes a message or is
\* refused leaves nothing behind.
Bounded ==
  /\ ByteAccounting
  /\ Cardinality(DOMAIN messages) <= MaxMessages
  /\ bufferedBytes <= MaxBufferedBytes
  /\ \A k \in DOMAIN messages :
       /\ messages[k].bytes <= MaxPayloadSize
       /\ Cardinality(DOMAIN messages[k].parts) \in 1..(messages[k].count - 1)

\* Whatever is delivered is, byte for byte, a message that was sent: fragments
\* of different messages are never combined, although keys are reused after a
\* lifetime and senders with other metadata use them at any time.
Intact ==
  \A d \in delivered :
    /\ Len(d.payload) <= MaxPayloadSize
    /\ \/ \E m \in sent : d = [key |-> m.key, meta |-> m.meta,
                               payload |-> m.payload]
       \/ \E f \in Foreign : d.key = f.key

\* Duplicates do not extend a message's lifetime: an assembly keeps its birth
\* time until it is gone, and only expiry makes room for a younger one.
FixedLifetime ==
  \A k \in DOMAIN messages \cap DOMAIN messages' :
    \/ messages'[k].createdAt = messages[k].createdAt
    \/ messages'[k].createdAt >= messages[k].createdAt + TTL

\* Together, at every step of Encode, Add, DiscardSession and the clock.
Reassembles == [][Intact' /\ Bounded' /\ FixedLifetime]_vars
=============================================================================
