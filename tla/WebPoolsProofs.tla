-------------------------------- MODULE WebPoolsProofs --------------------------------
(***************************************************************************)
(* Proofs about the two session pools of the web client, for any number of *)
(* callers, connections and addresses.                                     *)
(*                                                                         *)
(* Both keep their promise for the same reason: one dial is at work, what  *)
(* it opens is in the pool before anybody can hold it, a call that holds a *)
(* connection holds one that has been opened, and what is detached or      *)
(* retired has no user left and gets none.                                 *)
(***************************************************************************)
EXTENDS MCWebPools, FiniteSetTheorems, WellFoundedInduction, TLAPS

\* The pools count with the Cardinality of FiniteSets.
LEMMA H2Count == \A S : H2!Cardinality(S) = Cardinality(S)
BY DEF H2!Cardinality, Cardinality

\* The same for the HTTP/3 pool.
LEMMA H3Count == \A S : H3!Cardinality(S) = Cardinality(S)
BY DEF H3!Cardinality, Cardinality
-----------------------------------------------------------------------------
(* The HTTP/2 pool. *)

\* The steps of a call at which it holds a connection, is about to look at one,
\* holds the gate, and relies on its cohort.
Holding == H2!Opening \cup {"open"}
Looked == {"inspect", "can take", "cannot take"}
AtGate == {"inside"} \cup Looked
Queued == {"gate"} \cup AtGate
H2Steps == {"idle", "enter", "await", "joining", "returned"} \cup Queued \cup Holding
Cohorts == 1..(MaxDials + 1)
\* The locals of a DialContext call.
H2CallRecord == [pc : H2Steps, cohort : Cohorts \cup {0}, on : 0..MaxDials,
                 seen : {"", "fresh", "ready", "unsent"}, again : BOOLEAN]
H2Auths == {"none", "fresh", "bootstrapping", "ready", "failed"}
Wires == {"none", "up", "draining", "dead"}
\* A webH2Session.
H2SessionRecord == [auth : H2Auths, wire : Wires, closed : BOOLEAN]
\* The calls that the reference counts of s stand for.
Holders(s) == {c \in Callers : caller[c].pc \in H2!Opening \cup {"open"} /\ caller[c].on = s}

\* The types of the variables.
H2TypeInv ==
  /\ caller \in [Callers -> H2CallRecord]
  /\ session \in [H2!Dials -> H2SessionRecord]
  /\ current \in H2!Dials \cup {NoSession}
  /\ tracked \subseteq H2!Dials /\ retired \subseteq H2!Dials /\ doomed \subseteq H2!Dials
  /\ dial \in [H2!Dials -> {"none", "opening", "opened", "late", "done", "error"}]
  /\ dialing \in 0..MaxDials
  /\ cohort \in [Cohorts -> 0..MaxDials]
  /\ selection \in Cohorts \cup {0}
  /\ closer \in {"idle", "closing", "waiting", "done"}

\* One dial is at work, the one of c.dial; before it has opened a connection
\* there is nothing of one, and what opens too late opens for a closed client.
H2DialInv ==
  \A d \in H2!Dials :
    /\ dial[d] \in {"opening", "opened", "late"} => d = dialing
    /\ dial[d] \in {"none", "opening"} =>
         session[d] = [auth |-> "none", wire |-> "none", closed |-> FALSE]
    /\ dial[d] = "late" => H2!Closed

\* Each cohort shares one dial of its own, and is selected until that dial is
\* published.
CohortInv ==
  /\ \A k \in Cohorts : cohort[k] # 0 => dial[cohort[k]] # "none"
  /\ \A k, j \in Cohorts : cohort[k] # 0 /\ cohort[k] = cohort[j] => k = j
  /\ dialing # 0 => selection # 0 /\ cohort[selection] = dialing
  /\ selection # 0 /\ cohort[selection] # 0 => cohort[selection] = dialing

\* What a call holds, and what it may rely on while it queues and looks.
H2CallInv ==
  \A c \in Callers :
    /\ caller[c].pc \in Holding \cup Looked =>
         caller[c].on \in H2!Dials /\ session[caller[c].on].auth # "none"
    /\ caller[c].pc = "doom" => session[caller[c].on].auth = "failed"
    /\ caller[c].pc \in AtGate => gate = c
    /\ caller[c].pc \in Queued =>
         /\ caller[c].cohort \in Cohorts
         /\ cohort[caller[c].cohort] = 0 => caller[c].cohort = selection
    /\ caller[c].pc \in Looked =>
         cohort[caller[c].cohort] = 0 /\ caller[c].seen \in {"fresh", "ready"}
    /\ closer = "done" => caller[c].pc \notin H2!Opening

\* What is detached is no longer selected, and nobody is on it.
RetireInv ==
  /\ current \notin retired
  /\ \A s \in retired : Holders(s) = {}
  /\ \A s \in tracked \cup retired \cup doomed : session[s].auth # "none"

\* An open connection has an owner.
OwnInv == \A s \in H2!Dials : session[s].wire # "none" /\ ~session[s].closed => H2!OwnedBy(s)

\* The inductive invariant.
H2PoolInv == H2TypeInv /\ H2DialInv /\ CohortInv /\ H2CallInv /\ RetireInv /\ OwnInv
-----------------------------------------------------------------------------
\* It holds of a new client, and of one that has a ready connection.
LEMMA H2InitInv == H2!Init => H2PoolInv
<1> SUFFICES ASSUME H2!Init PROVE H2PoolInv
  OBVIOUS
<1> DEFINE had == {s \in H2!Dials : s = current}
<1>1. /\ caller = [c \in Callers |-> H2!Outside("idle")]
      /\ current \in {NoSession, 1} /\ dialing = 0 /\ closer = "idle" /\ selection = 0
      /\ session = [s \in H2!Dials |-> IF s \in had
          THEN [auth |-> "ready", wire |-> "up", closed |-> FALSE]
          ELSE [auth |-> "none", wire |-> "none", closed |-> FALSE]]
      /\ tracked = had /\ retired = {} /\ doomed = {}
      /\ dial = [d \in H2!Dials |-> IF d \in had THEN "done" ELSE "none"]
      /\ cohort = [k \in 1..(MaxDials + 1) |-> IF k \in had THEN k ELSE 0]
  BY DEF H2!Init
<1>2. had \subseteq H2!Dials /\ 0 \notin H2!Dials /\ H2!Dials \subseteq 0..MaxDials /\ 0 \in 0..MaxDials
  BY PoolsAssumption DEF H2!Dials
<1> HIDE DEF had
<1>3. H2!Outside("idle") \in H2CallRecord /\ H2!Outside("idle").pc = "idle"
  <2>1. "idle" \in H2Steps
    BY DEF H2Steps
  <2> QED
    BY <1>2, <2>1 DEF H2CallRecord, H2!Outside
<1>4. \A s \in H2!Dials : session[s] \in H2SessionRecord
  BY <1>1 DEF H2SessionRecord, H2Auths, Wires
<1>5. H2TypeInv
  <2>1. caller \in [Callers -> H2CallRecord] /\ session \in [H2!Dials -> H2SessionRecord]
    BY <1>1, <1>3, <1>4
  <2>2. current \in H2!Dials \cup {NoSession}
    BY <1>1, PoolsAssumption DEF H2!Dials
  <2>3. cohort \in [Cohorts -> 0..MaxDials]
    BY <1>1, <1>2 DEF Cohorts
  <2>4. /\ dialing \in 0..MaxDials /\ closer \in {"idle", "closing", "waiting", "done"}
        /\ selection \in Cohorts \cup {0}
        /\ tracked \subseteq H2!Dials /\ retired \subseteq H2!Dials /\ doomed \subseteq H2!Dials
        /\ dial \in [H2!Dials -> {"none", "opening", "opened", "late", "done", "error"}]
    BY <1>1, <1>2
  <2> QED
    BY <2>1, <2>2, <2>3, <2>4 DEF H2TypeInv
<1>6. H2DialInv
  BY <1>1 DEF H2DialInv
<1>7. CohortInv
  BY <1>1, <1>2 DEF CohortInv, Cohorts
<1>8. H2CallInv
  <2>1. "idle" \notin Queued \cup Holding
    BY DEF Queued, AtGate, Looked, Holding, H2!Opening
  <2>2. \A c \in Callers : caller[c].pc = "idle"
    BY <1>1, <1>3
  <2> QED
    BY <1>1, <2>1, <2>2 DEF H2CallInv, Queued, AtGate
<1>9. RetireInv
  BY <1>1, <1>2 DEF RetireInv
<1>10. OwnInv
  BY <1>1, <1>2 DEF OwnInv, H2!OwnedBy, H2!Closed
<1> QED
  BY <1>5, <1>6, <1>7, <1>8, <1>9, <1>10 DEF H2PoolInv

\* The least of a set of numbers.
LEMMA Least ==
  ASSUME NEW S \in SUBSET Nat, S # {}
  PROVE  \E x \in S : \A y \in S : x <= y
<1>2. PICK x \in S : \A y \in S : ~(<<y, x>> \in OpToRel(<, Nat))
  BY NatLessThanWellFounded, WFMin
<1>3. ASSUME NEW y \in S PROVE x <= y
  <2>1. x \in Nat /\ y \in Nat
    OBVIOUS
  <2>2. ~(y < x)
    BY <1>2, <2>1 DEF OpToRel
  <2> QED
    BY <2>1, <2>2
<1> QED
  BY <1>3

\* There is one cohort more than dials, so one has not been used.
LEMMA FreeCohort ==
  ASSUME H2TypeInv, CohortInv
  PROVE  H2!NextCohort \in Cohorts /\ cohort[H2!NextCohort] = 0
<1> DEFINE free == {k \in Cohorts : cohort[k] = 0}
<1>1. free # {}
  <2> SUFFICES ASSUME \A k \in Cohorts : cohort[k] # 0 PROVE FALSE
    OBVIOUS
  <2>1. cohort \in [Cohorts -> H2!Dials]
    <3>1. \A k \in Cohorts : cohort[k] \in H2!Dials
      BY PoolsAssumption DEF H2TypeInv, H2!Dials
    <3> QED
      BY <3>1 DEF H2TypeInv
  <2>2. /\ IsFiniteSet(Cohorts) /\ IsFiniteSet(H2!Dials)
        /\ Cardinality(Cohorts) = MaxDials + 1 /\ Cardinality(H2!Dials) = MaxDials
    BY PoolsAssumption, FS_Interval DEF Cohorts, H2!Dials
  <2>3. Cardinality(H2!Dials) < Cardinality(Cohorts)
    BY <2>2, PoolsAssumption
  <2>4. \E x, y \in Cohorts : x # y /\ cohort[x] = cohort[y]
    BY <2>1, <2>2, <2>3, FS_PigeonHole
  <2> QED
    BY <2>4 DEF CohortInv
<1>2. free \in SUBSET Nat
  BY PoolsAssumption DEF Cohorts
<1>3. PICK k \in free : \A j \in free : k <= j
  BY <1>1, <1>2, Least
<1>4. DOMAIN cohort = Cohorts
  BY DEF H2TypeInv
<1>5. \A j \in 1..(k - 1) : cohort[j] # 0
  <2> SUFFICES ASSUME NEW j \in 1..(k - 1), cohort[j] = 0 PROVE FALSE
    OBVIOUS
  <2>1. j \in Cohorts /\ j < k
    BY PoolsAssumption DEF Cohorts
  <2> QED
    BY <1>2, <1>3, <2>1
<1> QED
  BY <1>3, <1>4, <1>5 DEF H2!NextCohort

\* A call takes on another record of locals.
Becomes(c, r) == caller' = [caller EXCEPT ![c] = r]

\* The record a call becomes, and what stays of the others'.
LEMMA Moves ==
  ASSUME H2TypeInv, NEW c \in Callers, NEW r \in H2CallRecord, Becomes(c, r)
  PROVE  /\ caller' \in [Callers -> H2CallRecord]
         /\ \A d \in Callers : d # c => caller'[d] = caller[d]
         /\ caller'[c] = r
BY DEF H2TypeInv, Becomes

\* A call that only takes a step.
LEMMA SetTo ==
  ASSUME H2TypeInv, NEW c \in Callers, NEW pc \in H2Steps, H2!Set(c, pc)
  PROVE  \E r \in H2CallRecord : /\ Becomes(c, r)
                                 /\ r.pc = pc /\ r.cohort = caller[c].cohort
                                 /\ r.on = caller[c].on /\ r.seen = caller[c].seen
<1>1. caller[c] \in H2CallRecord
  BY DEF H2TypeInv
<1>2. caller' = [caller EXCEPT ![c] = [caller[c] EXCEPT !.pc = pc]]
  BY DEF H2!Set
<1>3. [caller[c] EXCEPT !.pc = pc] \in H2CallRecord
  BY <1>1 DEF H2CallRecord
<1> QED
  BY <1>1, <1>2, <1>3 DEF H2CallRecord, Becomes

\* The records of calls that have forgotten what they saw.
LEMMA Outsides ==
  ASSUME NEW pc \in H2Steps, NEW s \in 0..MaxDials, NEW again \in BOOLEAN
  PROVE  /\ H2!Outside(pc) \in H2CallRecord /\ H2!Outside(pc).pc = pc
         /\ [H2!Outside(pc) EXCEPT !.on = s, !.again = again] \in H2CallRecord
         /\ [H2!Outside(pc) EXCEPT !.on = s, !.again = again].pc = pc
         /\ [H2!Outside(pc) EXCEPT !.on = s, !.again = again].on = s
         /\ [H2!Outside(pc) EXCEPT !.on = s] \in H2CallRecord
         /\ [H2!Outside(pc) EXCEPT !.on = s].pc = pc
         /\ [H2!Outside(pc) EXCEPT !.on = s].on = s
         /\ [H2!Outside(pc) EXCEPT !.again = again] \in H2CallRecord
         /\ [H2!Outside(pc) EXCEPT !.again = again].pc = pc
<1>1. 0 \in 0..MaxDials
  BY PoolsAssumption
<1> QED
  BY <1>1 DEF H2!Outside, H2CallRecord

\* Who holds a connection, after one call has moved.
LEMMA HoldersMove ==
  ASSUME H2TypeInv, NEW c \in Callers, NEW r \in H2CallRecord, Becomes(c, r)
  PROVE  \A s \in H2!Dials :
           /\ (r.pc \in Holding /\ r.on = s
               <=> caller[c].pc \in Holding /\ caller[c].on = s) => Holders(s)' = Holders(s)
           /\ r.pc \in Holding /\ r.on = s => Holders(s)' = Holders(s) \cup {c}
           /\ ~(r.pc \in Holding /\ r.on = s) => Holders(s)' = Holders(s) \ {c}
<1>1. /\ caller' \in [Callers -> H2CallRecord]
      /\ \A d \in Callers : d # c => caller'[d] = caller[d]
      /\ caller'[c] = r
  BY Moves
<1> QED
  BY <1>1 DEF Holders, Holding

\* A step of a call that holds nothing before or after it, and touches no
\* connection: it comes to the gate, goes through it, or waits.
LEMMA QuietStep ==
  ASSUME H2PoolInv, NEW c \in Callers, NEW r \in H2CallRecord, Becomes(c, r),
         UNCHANGED <<H2!poolVars, dial, dialing, cohort, H2!closeVars>>,
         caller[c].pc \notin Holding, r.pc \notin Holding,
         gate' = gate \/ gate = c \/ gate = H2!Nobody,
         r.pc \in AtGate => gate' = c,
         r.pc \in Queued => /\ r.cohort \in Cohorts
                            /\ cohort[r.cohort] = 0 => r.cohort = selection',
         r.pc \in Looked => /\ cohort[r.cohort] = 0 /\ r.seen \in {"fresh", "ready"}
                            /\ r.on \in H2!Dials /\ session[r.on].auth # "none",
         \/ UNCHANGED selection
         \/ selection = 0 /\ selection' \in Cohorts /\ cohort[selection'] = 0
  PROVE  H2PoolInv' /\ UNCHANGED H2!Pool!vars
<1>1. /\ caller' \in [Callers -> H2CallRecord]
      /\ \A d \in Callers : d # c => caller'[d] = caller[d]
      /\ caller'[c] = r
  BY Moves DEF H2PoolInv
<1>2. \A s \in H2!Dials : Holders(s)' = Holders(s)
  BY HoldersMove DEF H2PoolInv
<1>3. /\ H2TypeInv /\ H2DialInv /\ CohortInv /\ H2CallInv /\ RetireInv /\ OwnInv
      /\ UNCHANGED <<session, current, tracked, retired, dial, dialing, cohort, closer, doomed>>
      /\ "nobody" \notin Callers
  BY PoolsAssumption DEF H2PoolInv, H2!poolVars, H2!closeVars
<1>4. /\ "open" \in Holding /\ H2!Opening \subseteq Holding /\ "doom" \in H2!Opening
      /\ Looked \subseteq AtGate /\ AtGate \subseteq Queued
  BY DEF Holding, H2!Opening, AtGate, Queued
<1>5. H2TypeInv'
  BY <1>1, <1>3 DEF H2TypeInv
<1>6. H2DialInv'
  BY <1>3 DEF H2DialInv, H2!Closed
<1>7. CohortInv'
  BY <1>3 DEF CohortInv
<1>8. H2CallInv'
  <2> SUFFICES ASSUME NEW d \in Callers
               PROVE
    /\ caller'[d].pc \in Holding \cup Looked =>
         caller'[d].on \in H2!Dials /\ session'[caller'[d].on].auth # "none"
    /\ caller'[d].pc = "doom" => session'[caller'[d].on].auth = "failed"
    /\ caller'[d].pc \in AtGate => gate' = d
    /\ caller'[d].pc \in Queued =>
         /\ caller'[d].cohort \in Cohorts
         /\ cohort'[caller'[d].cohort] = 0 => caller'[d].cohort = selection'
    /\ caller'[d].pc \in Looked =>
         cohort'[caller'[d].cohort] = 0 /\ caller'[d].seen \in {"fresh", "ready"}
    /\ closer' = "done" => caller'[d].pc \notin H2!Opening
    BY DEF H2CallInv, H2!Dials, Queued, AtGate, Looked, Holding, H2!Opening, Cohorts
  <2>1. CASE d = c
    BY <1>1, <1>3, <1>4, <2>1
  <2>2. CASE d # c
    <3>1. /\ caller[d].pc \in Holding \cup Looked =>
               caller[d].on \in H2!Dials /\ session[caller[d].on].auth # "none"
          /\ caller[d].pc = "doom" => session[caller[d].on].auth = "failed"
          /\ caller[d].pc \in AtGate => gate = d
          /\ caller[d].pc \in Queued =>
               /\ caller[d].cohort \in Cohorts
               /\ cohort[caller[d].cohort] = 0 => caller[d].cohort = selection
          /\ caller[d].pc \in Looked =>
               cohort[caller[d].cohort] = 0 /\ caller[d].seen \in {"fresh", "ready"}
          /\ closer = "done" => caller[d].pc \notin H2!Opening
      BY <1>3 DEF H2CallInv
    <3>2. caller'[d] = caller[d]
      BY <1>1, <2>2
    <3>3. caller[d].pc \in AtGate => gate' = d
      BY <1>3, <2>2, <3>1 DEF H2!Nobody
    <3>4. caller[d].pc \in Queued /\ cohort[caller[d].cohort] = 0 => caller[d].cohort = selection'
      <4>1. 0 \notin Cohorts
        BY PoolsAssumption DEF Cohorts
      <4> QED
        BY <3>1, <4>1
    <3> QED
      BY <1>3, <3>1, <3>2, <3>3, <3>4
  <2> QED
    BY <2>1, <2>2
<1>9. RetireInv'
  BY <1>2, <1>3 DEF RetireInv, H2TypeInv
<1>10. OwnInv'
  <2>1. \A d \in Callers : caller[d].pc = "doom" => caller'[d] = caller[d]
    BY <1>1, <1>4
  <2> QED
    BY <1>3, <2>1 DEF OwnInv, H2!OwnedBy, H2!Closed
<1>11. UNCHANGED H2!Pool!vars
  BY <1>2, <1>3 DEF H2!Pool!vars, H2!Closed, Holders
<1> QED
  BY <1>5, <1>6, <1>7, <1>8, <1>9, <1>10, <1>11 DEF H2PoolInv

\* What a sweep detaches is not selected, and nobody counted is on it.
LEMMA Sweeps ==
  ASSUME NEW now, NEW cs \in SUBSET Callers, H2!Sweep(now, cs)
  PROVE  /\ tracked' \subseteq tracked /\ retired \subseteq retired'
         /\ retired' \subseteq tracked \cup retired
         /\ tracked \subseteq tracked' \cup retired'
         /\ \A s \in retired' : s \notin retired =>
              s # now /\ \A d \in cs : caller[d].pc \in Holding => caller[d].on # s
BY DEF H2!Sweep, H2!Idle, H2!Users, Holding

\* The call behind the gate joins the dial in flight or begins one, which is
\* its cohort's.
LEMMA JoinStep ==
  ASSUME H2PoolInv, NEW c \in Callers, caller[c].pc \in AtGate,
         cohort[caller[c].cohort] = 0, H2!JoinDial(c), UNCHANGED <<canceled, H2!closeVars>>
  PROVE  H2PoolInv' /\ UNCHANGED H2!Pool!vars
<1>1. /\ H2TypeInv /\ H2DialInv /\ CohortInv /\ H2CallInv /\ RetireInv /\ OwnInv
      /\ UNCHANGED <<session, selection, closer, doomed>>
      /\ "nobody" \notin Callers /\ 0 \notin Cohorts /\ 0 \notin H2!Dials
      /\ NoSession \notin H2!Dials /\ H2!Dials \subseteq 0..MaxDials
  BY PoolsAssumption DEF H2PoolInv, H2!JoinDial, H2!closeVars, Cohorts, H2!Dials
<1>2. /\ "open" \in Holding /\ H2!Opening \subseteq Holding /\ "doom" \in H2!Opening
      /\ Looked \subseteq AtGate /\ AtGate \subseteq Queued /\ "await" \in H2Steps
      /\ "await" \notin Holding /\ "await" \notin Queued /\ caller[c].pc \notin Holding
  BY DEF Holding, H2!Opening, AtGate, Queued, H2Steps, Looked
<1> PICK k : k = caller[c].cohort
  OBVIOUS
<1>3. k \in Cohorts /\ cohort[k] = 0 /\ k = selection /\ gate = c
  BY <1>1, <1>2 DEF H2CallInv
<1>4. dialing = 0
  BY <1>1, <1>3 DEF CohortInv
<1>5. H2!Unstarted # {} /\ H2!Unstarted \subseteq H2!Dials
  BY <1>4 DEF H2!JoinDial, H2!NoDialInFlight, H2!Unstarted
<1>6. PICK d : d = H2!First(H2!Unstarted)
  OBVIOUS
<1>7. d \in H2!Unstarted /\ d \in H2!Dials /\ dial[d] = "none"
  <2>1. H2!Unstarted \subseteq Nat
    BY <1>5 DEF H2!Dials
  <2>2. \E x \in H2!Unstarted : \A y \in H2!Unstarted : x <= y
    BY <1>5, <2>1, Least
  <2>3. d \in H2!Unstarted
    BY <1>6, <2>2 DEF H2!First
  <2> QED
    BY <2>3 DEF H2!Unstarted
<1>0. PICK r : r = [H2!Outside("await") EXCEPT !.on = d, !.again = caller[c].again]
  OBVIOUS
<1>8. /\ current' = NoSession /\ H2!Sweep(NoSession, Callers)
      /\ dial' = [dial EXCEPT ![d] = IF @ = "none" THEN "opening" ELSE @]
      /\ dialing' = d
      /\ cohort' = [cohort EXCEPT ![k] = d]
      /\ Becomes(c, r)
      /\ gate' = H2!Nobody
  BY <1>0, <1>4, <1>6 DEF H2!JoinDial, H2!NoDialInFlight, Becomes
<1>9. r \in H2CallRecord /\ r.pc = "await"
  <2>1. caller[c].again \in BOOLEAN /\ d \in 0..MaxDials
    BY <1>1, <1>7 DEF H2TypeInv, H2CallRecord
  <2>2. 0 \in 0..MaxDials
    BY PoolsAssumption
  <2> QED
    BY <1>0, <1>2, <2>1, <2>2 DEF H2!Outside, H2CallRecord
<1>10. /\ caller' \in [Callers -> H2CallRecord]
       /\ \A e \in Callers : e # c => caller'[e] = caller[e]
       /\ caller'[c] = r
  BY <1>1, <1>8, <1>9, Moves
<1>11. \A s \in H2!Dials : Holders(s)' = Holders(s)
  <2>1. r.pc \notin Holding /\ caller[c].pc \notin Holding
    BY <1>2, <1>9
  <2>2. H2TypeInv /\ Becomes(c, r) /\ r \in H2CallRecord
    BY <1>1, <1>8, <1>9
  <2> QED
    BY <2>1, <2>2, HoldersMove
<1>12. /\ dial' \in [H2!Dials -> {"none", "opening", "opened", "late", "done", "error"}]
       /\ dial'[d] = "opening" /\ \A e \in H2!Dials : e # d => dial'[e] = dial[e]
  BY <1>1, <1>7, <1>8 DEF H2TypeInv
<1>13. /\ cohort' \in [Cohorts -> 0..MaxDials]
       /\ cohort'[k] = d /\ \A j \in Cohorts : j # k => cohort'[j] = cohort[j]
  BY <1>1, <1>3, <1>7, <1>8 DEF H2TypeInv
<1>14. /\ tracked' \subseteq tracked /\ retired \subseteq retired'
       /\ retired' \subseteq tracked \cup retired
       /\ tracked \subseteq tracked' \cup retired'
       /\ \A s \in retired' : s \notin retired =>
            \A e \in Callers : caller[e].pc \in Holding => caller[e].on # s
  BY <1>8, Sweeps
<1>15. H2TypeInv'
  BY <1>1, <1>7, <1>8, <1>10, <1>12, <1>13, <1>14 DEF H2TypeInv
<1>16. \A e \in H2!Dials : dial[e] \notin {"opening", "opened", "late"}
  BY <1>1, <1>4 DEF H2DialInv
<1>17. H2DialInv'
  <2>1. session[d] = [auth |-> "none", wire |-> "none", closed |-> FALSE]
    BY <1>1, <1>7 DEF H2DialInv
  <2> QED
    BY <1>1, <1>8, <1>12, <1>16, <2>1 DEF H2DialInv, H2!Closed
<1>18. CohortInv'
  <2>1. \A j \in Cohorts : cohort[j] # d
    BY <1>1, <1>7 DEF CohortInv
  <2>2. \A j \in Cohorts : cohort'[j] # 0 => dial'[cohort'[j]] # "none"
    BY <1>1, <1>12, <1>13 DEF CohortInv, H2TypeInv, H2!Dials
  <2>3. \A i, j \in Cohorts : cohort'[i] # 0 /\ cohort'[i] = cohort'[j] => i = j
    BY <1>1, <1>13, <2>1 DEF CohortInv
  <2>4. /\ dialing' # 0 => selection' # 0 /\ cohort'[selection'] = dialing'
        /\ selection' # 0 /\ cohort'[selection'] # 0 => cohort'[selection'] = dialing'
    BY <1>1, <1>3, <1>8, <1>13
  <2> QED
    BY <2>2, <2>3, <2>4 DEF CohortInv
<1>19. H2CallInv'
  <2> SUFFICES ASSUME NEW e \in Callers
               PROVE
    /\ caller'[e].pc \in Holding \cup Looked =>
         caller'[e].on \in H2!Dials /\ session'[caller'[e].on].auth # "none"
    /\ caller'[e].pc = "doom" => session'[caller'[e].on].auth = "failed"
    /\ caller'[e].pc \in AtGate => gate' = e
    /\ caller'[e].pc \in Queued =>
         /\ caller'[e].cohort \in Cohorts
         /\ cohort'[caller'[e].cohort] = 0 => caller'[e].cohort = selection'
    /\ caller'[e].pc \in Looked =>
         cohort'[caller'[e].cohort] = 0 /\ caller'[e].seen \in {"fresh", "ready"}
    /\ closer' = "done" => caller'[e].pc \notin H2!Opening
    BY DEF H2CallInv, H2!Dials, Queued, AtGate, Looked, Holding, H2!Opening, Cohorts
  <2>1. CASE e = c
    BY <1>2, <1>9, <1>10, <2>1
  <2>2. CASE e # c
    <3>1. /\ caller[e].pc \in Holding \cup Looked =>
               caller[e].on \in H2!Dials /\ session[caller[e].on].auth # "none"
          /\ caller[e].pc = "doom" => session[caller[e].on].auth = "failed"
          /\ caller[e].pc \notin AtGate
          /\ caller[e].pc \in Queued =>
               /\ caller[e].cohort \in Cohorts
               /\ cohort[caller[e].cohort] = 0 => caller[e].cohort = selection
          /\ closer = "done" => caller[e].pc \notin H2!Opening
      BY <1>1, <1>3, <2>2 DEF H2CallInv
    <3>2. caller'[e] = caller[e]
      BY <1>10, <2>2
    <3>3. caller[e].pc \in Queued /\ cohort'[caller[e].cohort] = 0 => caller[e].cohort = selection
      BY <1>3, <1>7, <1>1, <1>13, <3>1
    <3> QED
      BY <1>1, <1>2, <3>1, <3>2, <3>3
  <2> QED
    BY <2>1, <2>2
<1>20. RetireInv'
  <2>1. current' \notin retired'
    BY <1>1, <1>8, <1>14 DEF H2TypeInv
  <2>2. \A s \in retired' : Holders(s) = {}
    BY <1>1, <1>14 DEF RetireInv, Holders, Holding
  <2>3. retired' \subseteq H2!Dials
    BY <1>1, <1>14 DEF H2TypeInv
  <2> QED
    BY <1>1, <1>11, <1>14, <2>1, <2>2, <2>3 DEF RetireInv
<1>21. OwnInv'
  <2>1. \A e \in Callers : caller[e].pc = "doom" => caller'[e] = caller[e]
    BY <1>2, <1>10
  <2>2. \A s \in H2!Dials : dial[s] = "late" => dial'[s] = "late"
    BY <1>7, <1>12
  <2> QED
    BY <1>1, <1>14, <2>1, <2>2 DEF OwnInv, H2!OwnedBy, H2!Closed
<1>22. UNCHANGED H2!Pool!vars
  BY <1>1, <1>11 DEF H2!Pool!vars, H2!Closed, Holders
<1> QED
  BY <1>15, <1>17, <1>18, <1>19, <1>20, <1>21, <1>22 DEF H2PoolInv

\* The steps of a call, by where they are.
LEMMA Places ==
  /\ {"idle", "enter", "await", "joining", "returned"} \subseteq H2Steps
  /\ {"idle", "enter", "await", "joining", "returned"} \cap (Queued \cup Holding) = {}
  /\ Queued \subseteq H2Steps /\ Holding \subseteq H2Steps /\ Queued \cap Holding = {}
  /\ AtGate \subseteq Queued /\ Looked \subseteq AtGate
  /\ "gate" \in Queued /\ "gate" \notin AtGate
  /\ "inside" \in AtGate /\ "inside" \notin Looked
  /\ Looked = {"inspect", "can take", "cannot take"}
  /\ H2!Opening \subseteq Holding /\ "open" \in Holding
BY DEF H2Steps, Queued, AtGate, Looked, Holding, H2!Opening

\* A call that leaves the gate, its wait or its place in the queue for a step
\* at which nothing is asked of it.
LEMMA StandBack ==
  ASSUME H2PoolInv, NEW c \in Callers, NEW r \in H2CallRecord, Becomes(c, r),
         UNCHANGED <<H2!poolVars, H2!dialVars, H2!closeVars>>,
         caller[c].pc \notin Holding,
         r.pc \in {"enter", "await", "joining", "returned"},
         gate' = gate \/ (caller[c].pc \in AtGate /\ gate' = H2!Nobody)
  PROVE  H2PoolInv' /\ UNCHANGED H2!Pool!vars
<1>1. r.pc \notin Holding /\ r.pc \notin Queued /\ r.pc \notin AtGate /\ r.pc \notin Looked
  BY Places
<1>2. gate' = gate \/ gate = c
  BY DEF H2PoolInv, H2CallInv
<1> QED
  BY <1>1, <1>2, QuietStep DEF H2!dialVars

\* Calls that begin, queue, wait and give up.
LEMMA H2WaitSteps ==
  ASSUME H2PoolInv, NEW c \in Callers,
         H2!Start(c) \/ H2!LeaveGate(c) \/ H2!Joined(c) \/ H2!Awaited(c) \/ (H2!Enter(c) /\ H2!Stopped(c))
  PROVE  H2PoolInv' /\ UNCHANGED H2!Pool!vars
<1>1. /\ UNCHANGED <<gate, H2!poolVars, H2!dialVars, H2!closeVars>>
      /\ caller[c].pc \in {"idle", "gate", "joining", "await", "enter"}
  BY DEF H2!Start, H2!LeaveGate, H2!Joined, H2!Awaited, H2!Enter, H2!dialVars
<1>2. caller[c].pc \notin Holding
  BY <1>1, Places
<1>3. \E r \in H2CallRecord : Becomes(c, r) /\ r.pc \in {"enter", "returned"}
  <2>0. H2TypeInv /\ "enter" \in H2Steps /\ "returned" \in H2Steps
    BY Places DEF H2PoolInv
  <2>1. CASE H2!Set(c, "enter")
    BY <2>0, <2>1, SetTo
  <2>2. CASE H2!Return(c)
    <3>1. H2!Outside("returned") \in H2CallRecord /\ H2!Outside("returned").pc = "returned"
      BY <2>0, PoolsAssumption DEF H2!Outside, H2CallRecord
    <3> QED
      BY <2>2, <3>1 DEF H2!Return, Becomes
  <2>3. CASE H2!Again(c)
    <3>1. PICK r : r = [H2!Outside("enter") EXCEPT !.again = caller[c].again]
      OBVIOUS
    <3>2. caller[c].again \in BOOLEAN
      BY <2>0 DEF H2TypeInv, H2CallRecord
    <3>3. r \in H2CallRecord /\ r.pc = "enter"
      <4>1. 0 \in 0..MaxDials
        BY PoolsAssumption
      <4> QED
        BY <2>0, <3>1, <3>2, <4>1 DEF H2!Outside, H2CallRecord
    <3> QED
      BY <2>3, <3>1, <3>3 DEF H2!Again, Becomes
  <2> QED
    BY <2>1, <2>2, <2>3 DEF H2!Start, H2!LeaveGate, H2!Joined, H2!Awaited, H2!Enter
<1>4. PICK r \in H2CallRecord : Becomes(c, r) /\ r.pc \in {"enter", "returned"}
  BY <1>3
<1> QED
  BY <1>1, <1>2, <1>4, StandBack

\* A call joins the selected cohort, or selects one that has no dial yet.
LEMMA EnterStep ==
  ASSUME H2PoolInv, NEW c \in Callers, H2!Enter(c), ~H2!Stopped(c)
  PROVE  H2PoolInv' /\ UNCHANGED H2!Pool!vars
<1>1. PICK k : k = IF selection = 0 THEN H2!NextCohort ELSE selection
  OBVIOUS
<1>2. /\ selection' = k /\ caller[c].pc = "enter"
      /\ caller' = [caller EXCEPT ![c].pc = "gate", ![c].cohort = k]
      /\ UNCHANGED <<gate, H2!poolVars, dial, dialing, cohort, H2!closeVars>>
  BY <1>1 DEF H2!Enter
<1>3. H2TypeInv /\ CohortInv
  BY DEF H2PoolInv
<1>4. k \in Cohorts /\ (selection = 0 => cohort[k] = 0) /\ (selection # 0 => k = selection)
  <2>1. H2!NextCohort \in Cohorts /\ cohort[H2!NextCohort] = 0
    BY <1>3, FreeCohort
  <2> QED
    BY <1>1, <1>3, <2>1 DEF H2TypeInv
<1>5. PICK r : r = [caller[c] EXCEPT !.pc = "gate", !.cohort = k]
  OBVIOUS
<1>6. r \in H2CallRecord /\ r.pc = "gate" /\ r.cohort = k
  <2>1. caller[c] \in H2CallRecord /\ "gate" \in H2Steps
    BY <1>3, Places DEF H2TypeInv
  <2> QED
    BY <1>4, <1>5, <2>1 DEF H2CallRecord
<1>7. Becomes(c, r)
  BY <1>2, <1>3, <1>5 DEF H2TypeInv, H2CallRecord, Becomes
<1>8. caller[c].pc \notin Holding /\ r.pc \notin Holding /\ r.pc \notin AtGate /\ r.pc \notin Looked
  BY <1>2, <1>6, Places
<1>9. /\ r.cohort \in Cohorts
      /\ cohort[r.cohort] = 0 => r.cohort = selection'
  BY <1>2, <1>4, <1>6
<1>10. UNCHANGED selection \/ (selection = 0 /\ selection' \in Cohorts /\ cohort[selection'] = 0)
  BY <1>2, <1>4
<1> QED
  BY <1>2, <1>6, <1>7, <1>8, <1>9, <1>10, QuietStep

\* A call takes the gate.
LEMMA TakeStep ==
  ASSUME H2PoolInv, NEW c \in Callers, H2!TakeGate(c)
  PROVE  H2PoolInv' /\ UNCHANGED H2!Pool!vars
<1>1. /\ caller[c].pc = "gate" /\ gate = H2!Nobody /\ gate' = c /\ H2!Set(c, "inside")
      /\ UNCHANGED <<H2!poolVars, H2!dialVars, H2!closeVars>>
  BY DEF H2!TakeGate
<1>2. H2TypeInv /\ "inside" \in H2Steps
  BY Places DEF H2PoolInv
<1>3. PICK r \in H2CallRecord :
        /\ Becomes(c, r)
        /\ r.pc = "inside" /\ r.cohort = caller[c].cohort
  BY <1>1, <1>2, SetTo
<1>4. caller[c].pc \notin Holding /\ r.pc \notin Holding /\ r.pc \notin Looked
  BY <1>1, <1>3, Places
<1>5. r.cohort \in Cohorts /\ (cohort[r.cohort] = 0 => r.cohort = selection')
  BY <1>1, <1>3, Places DEF H2PoolInv, H2CallInv, H2!dialVars
<1> QED
  BY <1>1, <1>3, <1>4, <1>5, QuietStep DEF H2!dialVars

\* The first look under the lock.
LEMMA InsideStep ==
  ASSUME H2PoolInv, NEW c \in Callers, H2!Inside(c)
  PROVE  H2PoolInv' /\ UNCHANGED H2!Pool!vars
<1>1. PICK mine : mine = cohort[caller[c].cohort]
  OBVIOUS
<1>2. PICK auth : auth = IF current = NoSession THEN "none" ELSE session[current].auth
  OBVIOUS
<1>3. /\ caller[c].pc = "inside" /\ UNCHANGED <<canceled, H2!closeVars>>
      /\ caller[c].pc \in AtGate /\ caller[c].pc \in Queued /\ caller[c].pc \notin Holding
  BY Places DEF H2!Inside
<1>4. H2TypeInv /\ H2CallInv /\ NoSession \notin H2!Dials /\ 0 \in 0..MaxDials /\ H2!Dials \subseteq 0..MaxDials
  BY PoolsAssumption DEF H2PoolInv, H2!Dials
<1>5. /\ caller[c].cohort \in Cohorts /\ gate = c
      /\ cohort[caller[c].cohort] = 0 => caller[c].cohort = selection
      /\ caller[c] \in H2CallRecord /\ caller[c].again \in BOOLEAN
      /\ mine \in 0..MaxDials
  BY <1>1, <1>3, <1>4 DEF H2CallInv, H2TypeInv, H2CallRecord
<1>6. ASSUME NEW pc \in {"await", "joining"}, NEW s \in 0..MaxDials,
             H2!Leave(c, [H2!Outside(pc) EXCEPT !.on = s, !.again = caller[c].again]),
             UNCHANGED <<H2!poolVars, H2!dialVars>>
      PROVE  H2PoolInv' /\ UNCHANGED H2!Pool!vars
  <2>1. PICK r : r = [H2!Outside(pc) EXCEPT !.on = s, !.again = caller[c].again]
    OBVIOUS
  <2>2. r \in H2CallRecord /\ r.pc = pc
    <3>1. pc \in H2Steps
      BY Places
    <3> QED
      BY <1>4, <1>5, <2>1, <3>1 DEF H2!Outside, H2CallRecord
  <2>3. Becomes(c, r) /\ gate' = H2!Nobody
    BY <1>6, <2>1 DEF H2!Leave, Becomes
  <2> QED
    BY <1>3, <1>6, <2>2, <2>3, StandBack
<1>7. CASE H2!Stopped(c)
  <2>1. H2!Leave(c, H2!Outside("returned")) /\ UNCHANGED <<H2!poolVars, H2!dialVars>>
    BY <1>7 DEF H2!Inside
  <2>2. H2!Outside("returned") \in H2CallRecord /\ H2!Outside("returned").pc = "returned"
    BY <1>4, Places DEF H2!Outside, H2CallRecord
  <2>3. Becomes(c, H2!Outside("returned")) /\ gate' = H2!Nobody
    BY <2>1 DEF H2!Leave, Becomes
  <2> QED
    BY <1>3, <2>1, <2>2, <2>3, StandBack
<1>8. CASE ~H2!Stopped(c) /\ mine # 0
  <2>1. /\ H2!Leave(c, [H2!Outside("await") EXCEPT !.on = mine, !.again = caller[c].again])
        /\ UNCHANGED <<H2!poolVars, H2!dialVars>>
    BY <1>1, <1>8 DEF H2!Inside
  <2> QED
    BY <1>5, <1>6, <2>1
<1>9. CASE ~H2!Stopped(c) /\ mine = 0 /\ auth \in {"fresh", "ready"}
  <2>1. /\ caller' = [caller EXCEPT ![c].pc = "inspect", ![c].on = current, ![c].seen = auth]
        /\ UNCHANGED <<gate, H2!poolVars, H2!dialVars>>
    BY <1>1, <1>2, <1>9 DEF H2!Inside
  <2>2. current \in H2!Dials /\ auth = session[current].auth
    BY <1>2, <1>4, <1>9 DEF H2TypeInv
  <2>3. PICK r : r = [caller[c] EXCEPT !.pc = "inspect", !.on = current, !.seen = auth]
    OBVIOUS
  <2>4. /\ r \in H2CallRecord /\ r.pc = "inspect" /\ r.cohort = caller[c].cohort
        /\ r.on = current /\ r.seen = auth
    <3>1. "inspect" \in H2Steps
      BY Places
    <3> QED
      BY <1>4, <1>5, <1>9, <2>2, <2>3, <3>1 DEF H2CallRecord
  <2>5. Becomes(c, r)
    BY <1>4, <1>5, <2>1, <2>3 DEF H2TypeInv, H2CallRecord, Becomes
  <2>6. r.pc \notin Holding
    BY <2>4, Places
  <2>7. /\ r.cohort \in Cohorts /\ cohort[r.cohort] = 0 /\ r.cohort = selection'
        /\ r.seen \in {"fresh", "ready"} /\ r.on \in H2!Dials /\ session[r.on].auth # "none"
        /\ gate' = c /\ gate' = gate
    BY <1>1, <1>5, <1>9, <2>1, <2>2, <2>4 DEF H2!dialVars
  <2> QED
    BY <1>3, <2>1, <2>4, <2>5, <2>6, <2>7, QuietStep DEF H2!dialVars
<1>10. CASE ~H2!Stopped(c) /\ mine = 0 /\ auth = "bootstrapping"
  <2>1. /\ H2!Leave(c, [H2!Outside("joining") EXCEPT !.on = current, !.again = caller[c].again])
        /\ UNCHANGED <<H2!poolVars, H2!dialVars>>
    BY <1>1, <1>2, <1>10 DEF H2!Inside
  <2>2. PICK s : s = current
    OBVIOUS
  <2>3. s \in 0..MaxDials
    BY <1>2, <1>4, <1>10, <2>2 DEF H2TypeInv
  <2> QED
    BY <1>6, <2>1, <2>2, <2>3
<1>11. CASE ~H2!Stopped(c) /\ mine = 0 /\ auth \notin {"fresh", "ready", "bootstrapping"}
  <2>1. H2!JoinDial(c)
    BY <1>1, <1>2, <1>11 DEF H2!Inside
  <2> QED
    BY <1>1, <1>3, <1>11, <2>1, JoinStep
<1> QED
  BY <1>7, <1>8, <1>9, <1>10, <1>11

\* Outside the lock, the connection is asked whether it takes a request.
LEMMA InspectStep ==
  ASSUME H2PoolInv, NEW c \in Callers, H2!Inspect(c)
  PROVE  H2PoolInv' /\ UNCHANGED H2!Pool!vars
<1>1. /\ caller[c].pc = "inspect" /\ UNCHANGED <<canceled, gate, H2!poolVars, H2!dialVars, H2!closeVars>>
      /\ caller[c].pc \in Looked /\ caller[c].pc \in Queued /\ caller[c].pc \in AtGate
      /\ caller[c].pc \notin Holding
  BY Places DEF H2!Inspect
<1>2. H2TypeInv /\ H2CallInv
  BY DEF H2PoolInv
<1>3. PICK pc \in {"can take", "cannot take"} : H2!Set(c, pc)
  BY DEF H2!Inspect
<1>4. pc \in H2Steps /\ pc \in Looked /\ pc \notin Holding
  BY Places
<1>5. PICK r \in H2CallRecord :
        /\ Becomes(c, r) /\ r.pc = pc
        /\ r.cohort = caller[c].cohort /\ r.on = caller[c].on /\ r.seen = caller[c].seen
  <2>1. caller[c] \in H2CallRecord
    BY <1>2 DEF H2TypeInv
  <2>2. PICK r : r = [caller[c] EXCEPT !.pc = pc]
    OBVIOUS
  <2>3. /\ r \in H2CallRecord /\ r.pc = pc
        /\ r.cohort = caller[c].cohort /\ r.on = caller[c].on /\ r.seen = caller[c].seen
    BY <1>4, <2>1, <2>2 DEF H2CallRecord
  <2>4. Becomes(c, r)
    BY <1>3, <2>2 DEF H2!Set, Becomes
  <2> QED
    BY <2>3, <2>4
<1>6. /\ r.cohort \in Cohorts /\ cohort[r.cohort] = 0 /\ r.cohort = selection'
      /\ r.seen \in {"fresh", "ready"} /\ r.on \in H2!Dials /\ session[r.on].auth # "none"
      /\ gate' = c /\ gate' = gate
  BY <1>1, <1>2, <1>5 DEF H2CallInv, H2!dialVars
<1> QED
  BY <1>1, <1>4, <1>5, <1>6, QuietStep DEF H2!dialVars

\* A step of a call with its connection: the dials and Close go on untouched.
LEMMA MoveStep ==
  ASSUME H2PoolInv, NEW c \in Callers, NEW r \in H2CallRecord, Becomes(c, r),
         UNCHANGED <<H2!dialVars, H2!closeVars>>,
         gate' = gate \/ gate = c,
         session' \in [H2!Dials -> H2SessionRecord],
         \A t \in H2!Dials :
           /\ session[t].auth = "none" => session'[t] = session[t]
           /\ session[t].auth # "none" => session'[t].auth # "none"
           /\ session[t].auth = "failed" => session'[t].auth = "failed"
           /\ session'[t].wire # "none" /\ ~session'[t].closed =>
                session[t].wire # "none" /\ ~session[t].closed,
         r.pc \notin Queued,
         r.pc \in Holding =>
           r.on \in H2!Dials /\ session'[r.on].auth # "none" /\ r.on \notin retired',
         r.pc = "doom" => session'[r.on].auth = "failed",
         r.pc \in H2!Opening => closer # "done",
         current' \in {current, NoSession},
         tracked' \subseteq tracked, retired \subseteq retired', retired' \subseteq tracked \cup retired,
         \A s \in tracked : s \in tracked' \cup retired' \/ (r.pc = "doom" /\ r.on = s),
         \A s \in retired' : s \notin retired =>
           s # current' /\ \A d \in Callers : d # c /\ caller[d].pc \in Holding => caller[d].on # s,
         caller[c].pc = "doom" => session'[caller[c].on].closed
  PROVE  H2PoolInv'
<1>1. /\ caller' \in [Callers -> H2CallRecord]
      /\ \A d \in Callers : d # c => caller'[d] = caller[d]
      /\ caller'[c] = r
  BY Moves DEF H2PoolInv
<1>2. /\ H2TypeInv /\ H2DialInv /\ CohortInv /\ H2CallInv /\ RetireInv /\ OwnInv
      /\ UNCHANGED <<dial, dialing, cohort, selection, closer, doomed>>
      /\ NoSession \notin H2!Dials
  BY PoolsAssumption DEF H2PoolInv, H2!dialVars, H2!closeVars, H2!Dials
<1>3. H2TypeInv'
  BY <1>1, <1>2 DEF H2TypeInv
<1>4. H2DialInv'
  BY <1>2 DEF H2DialInv, H2!Closed
<1>5. CohortInv'
  BY <1>2 DEF CohortInv
<1>6. H2CallInv'
  <2> SUFFICES ASSUME NEW e \in Callers
               PROVE
    /\ caller'[e].pc \in Holding \cup Looked =>
         caller'[e].on \in H2!Dials /\ session'[caller'[e].on].auth # "none"
    /\ caller'[e].pc = "doom" => session'[caller'[e].on].auth = "failed"
    /\ caller'[e].pc \in AtGate => gate' = e
    /\ caller'[e].pc \in Queued =>
         /\ caller'[e].cohort \in Cohorts
         /\ cohort'[caller'[e].cohort] = 0 => caller'[e].cohort = selection'
    /\ caller'[e].pc \in Looked =>
         cohort'[caller'[e].cohort] = 0 /\ caller'[e].seen \in {"fresh", "ready"}
    /\ closer' = "done" => caller'[e].pc \notin H2!Opening
    BY DEF H2CallInv, H2!Dials, Queued, AtGate, Looked, Holding, H2!Opening, Cohorts
  <2>1. CASE e = c
    <3>1. r.pc \notin AtGate /\ r.pc \notin Looked
      BY Places
    <3> QED
      BY <1>1, <1>2, <2>1, <3>1
  <2>2. CASE e # c
    <3>1. /\ caller[e].pc \in Holding \cup Looked =>
               caller[e].on \in H2!Dials /\ session[caller[e].on].auth # "none"
          /\ caller[e].pc = "doom" => session[caller[e].on].auth = "failed"
          /\ caller[e].pc \in AtGate => gate = e
          /\ caller[e].pc \in Queued =>
               /\ caller[e].cohort \in Cohorts
               /\ cohort[caller[e].cohort] = 0 => caller[e].cohort = selection
          /\ caller[e].pc \in Looked =>
               cohort[caller[e].cohort] = 0 /\ caller[e].seen \in {"fresh", "ready"}
          /\ closer = "done" => caller[e].pc \notin H2!Opening
      BY <1>2 DEF H2CallInv
    <3>2. caller'[e] = caller[e] /\ (caller[e].pc = "doom" => caller[e].pc \in Holding)
      BY <1>1, <2>2 DEF Holding, H2!Opening
    <3>3. caller[e].pc \in AtGate => gate' = e
      BY <2>2, <3>1
    <3> QED
      BY <1>2, <3>1, <3>2, <3>3
  <2> QED
    BY <2>1, <2>2
<1>7. RetireInv'
  <2>1. current' \notin retired'
    BY <1>2 DEF RetireInv, H2TypeInv
  <2>2. ASSUME NEW s \in retired', NEW d \in Callers, caller'[d].pc \in Holding
        PROVE  caller'[d].on # s
    <3>1. CASE d = c
      BY <1>1, <2>2, <3>1
    <3>2. CASE d # c
      <4>1. caller'[d] = caller[d]
        BY <1>1, <3>2
      <4>2. CASE s \in retired
        BY <1>2, <2>2, <4>1, <4>2 DEF RetireInv, Holders, Holding
      <4>3. CASE s \notin retired
        BY <2>2, <3>2, <4>1, <4>3
      <4> QED
        BY <4>2, <4>3
    <3> QED
      BY <3>1, <3>2
  <2>3. \A s \in retired' : Holders(s)' = {}
    BY <2>2 DEF Holders, Holding
  <2>4. \A s \in tracked' \cup retired' \cup doomed' : session'[s].auth # "none"
    BY <1>2 DEF RetireInv, H2TypeInv
  <2> QED
    BY <2>1, <2>3, <2>4 DEF RetireInv
<1>8. OwnInv'
  <2> SUFFICES ASSUME NEW s \in H2!Dials, session'[s].wire # "none" /\ ~session'[s].closed
               PROVE  H2!OwnedBy(s)'
    BY DEF OwnInv
  <2>1. H2!OwnedBy(s)
    BY <1>2 DEF OwnInv
  <2>2. CASE s \in tracked /\ ~H2!Closed
    BY <1>1, <1>2, <2>2 DEF H2!OwnedBy, H2!Closed
  <2>3. CASE s \in retired \/ dial[s] = "late" \/ (closer = "closing" /\ s \in doomed)
    BY <1>2, <2>3 DEF H2!OwnedBy
  <2>4. ASSUME NEW d \in Callers, caller[d].pc = "doom" /\ caller[d].on = s
        PROVE  H2!OwnedBy(s)'
    <3>1. d # c
      BY <2>4
    <3> QED
      BY <1>1, <2>4, <3>1 DEF H2!OwnedBy
  <2> QED
    BY <2>1, <2>2, <2>3, <2>4 DEF H2!OwnedBy
<1> QED
  BY <1>3, <1>4, <1>5, <1>6, <1>7, <1>8 DEF H2PoolInv

\* Setting the authentication of one session, or closing it.
LEMMA SessionSet ==
  ASSUME session \in [H2!Dials -> H2SessionRecord], NEW s \in H2!Dials, NEW x \in H2Auths,
         \/ session' = [session EXCEPT ![s].auth = x]
         \/ session' = [session EXCEPT ![s].closed = TRUE] /\ x = session[s].auth
  PROVE  /\ session' \in [H2!Dials -> H2SessionRecord]
         /\ session'[s].auth = x /\ session'[s].wire = session[s].wire
         /\ session' = [session EXCEPT ![s].auth = x] => session'[s].closed = session[s].closed
         /\ session' = [session EXCEPT ![s].closed = TRUE] => session'[s].closed
         /\ \A d \in H2!Dials : d # s => session'[d] = session[d]
<1>1. CASE session' = [session EXCEPT ![s].auth = x]
  BY <1>1 DEF H2SessionRecord
<1>2. CASE session' = [session EXCEPT ![s].closed = TRUE] /\ x = session[s].auth
  BY <1>2 DEF H2SessionRecord
<1> QED
  BY <1>1, <1>2

\* What a call holds.
LEMMA H2Held ==
  ASSUME H2PoolInv, NEW c \in Callers, caller[c].pc \in Holding
  PROVE  /\ caller[c].on \in H2!Dials /\ session[caller[c].on].auth # "none"
         /\ session[caller[c].on] \in H2SessionRecord /\ session[caller[c].on].auth \in H2Auths
         /\ session \in [H2!Dials -> H2SessionRecord]
         /\ c \in Holders(caller[c].on) /\ caller[c].on \notin retired
         /\ H2TypeInv /\ caller[c].pc \notin Queued
         /\ caller[c].pc \in H2!Opening => closer # "done"
BY Places DEF H2PoolInv, H2CallInv, H2TypeInv, RetireInv, Holders, Holding, H2SessionRecord

\* A call that has looked at the current connection bootstraps it or uses it.
LEMMA DecideStep ==
  ASSUME H2PoolInv, NEW c \in Callers, H2!Decide(c)
  PROVE  H2PoolInv' /\ (H2!Pool!Next \/ UNCHANGED H2!Pool!vars)
<1> PICK s : s = caller[c].on
  OBVIOUS
<1>1. /\ caller[c].pc \in {"can take", "cannot take"} /\ UNCHANGED <<canceled, H2!closeVars>>
      /\ caller[c].pc \in Looked /\ caller[c].pc \in AtGate /\ caller[c].pc \notin Holding
  BY Places DEF H2!Decide
<1>2. /\ H2TypeInv /\ H2CallInv /\ RetireInv /\ NoSession \notin H2!Dials /\ 0 \in 0..MaxDials
      /\ H2!Dials \subseteq 0..MaxDials
      /\ session \in [H2!Dials -> H2SessionRecord]
  BY PoolsAssumption DEF H2PoolInv, H2TypeInv, H2!Dials
<1>3. /\ s \in H2!Dials /\ session[s].auth # "none" /\ gate = c
      /\ cohort[caller[c].cohort] = 0 /\ caller[c].seen \in {"fresh", "ready"}
      /\ caller[c].again \in BOOLEAN
  BY <1>1, <1>2 DEF H2CallInv, H2TypeInv, H2CallRecord
<1>4. CASE H2!Stopped(c) \/ ~H2!StillSeen(c)
  <2>1. /\ H2!Leave(c, [H2!Outside("enter") EXCEPT !.again = caller[c].again])
        /\ UNCHANGED <<H2!poolVars, H2!dialVars>>
    BY <1>4 DEF H2!Decide
  <2>2. PICK r : r = [H2!Outside("enter") EXCEPT !.again = caller[c].again]
    OBVIOUS
  <2>3. r \in H2CallRecord /\ r.pc = "enter"
    BY <1>2, <1>3, <2>2, Places DEF H2!Outside, H2CallRecord
  <2>4. Becomes(c, r) /\ gate' = H2!Nobody
    BY <2>1, <2>2 DEF H2!Leave, Becomes
  <2> QED
    BY <1>1, <2>1, <2>3, <2>4, StandBack
<1>5. CASE ~H2!Stopped(c) /\ H2!StillSeen(c) /\ caller[c].pc = "cannot take"
  <2>1. H2!JoinDial(c)
    BY <1>5 DEF H2!Decide
  <2> QED
    BY <1>1, <1>3, <2>1, JoinStep
<1>6. CASE ~H2!Stopped(c) /\ H2!StillSeen(c) /\ caller[c].pc = "can take"
  <2>0. PICK pc : pc = IF caller[c].seen = "fresh" THEN "lead" ELSE "follow"
    OBVIOUS
  <2>1. PICK r : r = [H2!Outside(pc) EXCEPT !.on = s, !.again = caller[c].again]
    OBVIOUS
  <2>2. /\ Becomes(c, r) /\ gate' = H2!Nobody
        /\ UNCHANGED <<current, tracked, retired, H2!dialVars>>
        /\ caller[c].seen = "fresh" => H2!Claim(s)
        /\ caller[c].seen # "fresh" => UNCHANGED session
    BY <1>6, <2>0, <2>1 DEF H2!Decide, H2!Leave, Becomes
  <2>3. pc \in Holding /\ pc \in H2Steps /\ pc \notin Queued /\ pc # "doom"
    BY <2>0, Places DEF H2!Opening
  <2>4. r \in H2CallRecord /\ r.pc = pc /\ r.on = s
    BY <1>2, <1>3, <2>1, <2>3 DEF H2!Outside, H2CallRecord
  <2>5. /\ ~H2!Closed /\ current = s /\ session[s].auth = caller[c].seen
        /\ s \notin retired /\ closer # "done"
    BY <1>2, <1>6 DEF H2!Stopped, H2!StillSeen, RetireInv, H2!Closed
  <2>6. PICK x \in H2Auths :
          /\ session' \in [H2!Dials -> H2SessionRecord]
          /\ session'[s].auth = x /\ session'[s].wire = session[s].wire
          /\ session'[s].closed = session[s].closed
          /\ \A d \in H2!Dials : d # s => session'[d] = session[d]
          /\ caller[c].seen = "fresh" => x = "bootstrapping"
          /\ caller[c].seen = "ready" => x = "ready"
    <3>1. CASE caller[c].seen = "fresh"
      <4>1. session' = [session EXCEPT ![s].auth = "bootstrapping"]
        BY <2>2, <3>1 DEF H2!Claim
      <4> QED
        BY <1>2, <1>3, <3>1, <4>1, SessionSet DEF H2Auths
    <3>2. CASE caller[c].seen = "ready"
      BY <1>2, <2>2, <2>5, <3>2 DEF H2Auths
    <3> QED
      BY <1>3, <3>1, <3>2
  <2>7. H2PoolInv'
    <3>1. \A t \in H2!Dials :
           /\ session[t].auth = "none" => session'[t] = session[t]
           /\ session[t].auth # "none" => session'[t].auth # "none"
           /\ session[t].auth = "failed" => session'[t].auth = "failed"
           /\ session'[t].wire # "none" /\ ~session'[t].closed =>
                session[t].wire # "none" /\ ~session[t].closed
      BY <1>3, <2>5, <2>6
    <3>2. /\ r.pc \notin Queued /\ r.pc # "doom" /\ caller[c].pc # "doom"
          /\ r.on \in H2!Dials /\ session'[r.on].auth # "none" /\ r.on \notin retired'
      BY <1>3, <1>6, <2>2, <2>3, <2>4, <2>5, <2>6
    <3> QED
      BY <1>1, <1>3, <2>2, <2>4, <2>5, <2>6, <3>1, <3>2, MoveStep
  <2>8. \A t \in H2!Dials : /\ t = s => Holders(t)' = Holders(t) \cup {c}
                            /\ t # s => Holders(t)' = Holders(t)
    <3>1. H2TypeInv /\ Becomes(c, r) /\ r \in H2CallRecord
      BY <1>2, <2>2, <2>4
    <3>2. r.pc \in Holding /\ r.on = s /\ caller[c].pc \notin Holding
      BY <1>1, <2>3, <2>4
    <3>3. \A t \in H2!Dials :
            /\ (r.pc \in Holding /\ r.on = t
                <=> caller[c].pc \in Holding /\ caller[c].on = t) => Holders(t)' = Holders(t)
            /\ r.pc \in Holding /\ r.on = t => Holders(t)' = Holders(t) \cup {c}
      BY <3>1, HoldersMove
    <3> QED
      BY <3>2, <3>3
  <2>9. [t \in H2!Dials |-> Holders(t)'] = [[t \in H2!Dials |-> Holders(t)] EXCEPT ![s] = Holders(s) \cup {c}]
    BY <1>3, <2>8
  <2>10. {t \in H2!Dials : session'[t].wire # "none" /\ ~session'[t].closed}
         = {t \in H2!Dials : session[t].wire # "none" /\ ~session[t].closed}
    BY <2>6
  <2>11. UNCHANGED closer
    BY <1>1 DEF H2!closeVars
  <2>12. CASE caller[c].seen = "fresh"
    <3>1. [t \in H2!Dials |-> session'[t].auth] = [[t \in H2!Dials |-> session[t].auth] EXCEPT ![s] = "bootstrapping"]
      BY <1>3, <2>6, <2>12
    <3>2. H2!Pool!Lead(s, c)
      BY <1>3, <2>5, <2>9, <2>10, <2>11, <2>12, <3>1 DEF H2!Pool!Lead, H2!Closed, Holders
    <3> QED
      BY <1>3, <2>7, <3>2 DEF H2!Pool!Next
  <2>13. CASE caller[c].seen = "ready"
    <3>1. [t \in H2!Dials |-> session'[t].auth] = [t \in H2!Dials |-> session[t].auth]
      BY <1>3, <2>5, <2>6, <2>13
    <3>2. H2!Pool!Join(s, c)
      BY <1>3, <2>5, <2>9, <2>10, <2>11, <2>13, <3>1 DEF H2!Pool!Join, H2!Closed, Holders
    <3> QED
      BY <1>3, <2>7, <3>2 DEF H2!Pool!Next
  <2> QED
    BY <1>3, <2>12, <2>13
<1> QED
  BY <1>1, <1>4, <1>5, <1>6

\* A step of a call that holds its connection before and after it, and leaves
\* the connections and what is detached as they are.
LEMMA H2HeldStep ==
  ASSUME H2PoolInv, NEW c \in Callers, caller[c].pc \in Holding,
         NEW r \in H2CallRecord, Becomes(c, r),
         r.pc \in Holding, r.on = caller[c].on,
         r.pc \in H2!Opening => caller[c].pc \in H2!Opening,
         UNCHANGED <<gate, H2!dialVars, H2!closeVars>>,
         session' \in [H2!Dials -> H2SessionRecord],
         \A t \in H2!Dials :
           /\ session[t].auth = "none" => session'[t] = session[t]
           /\ session[t].auth # "none" => session'[t].auth # "none"
           /\ session[t].auth = "failed" => session'[t].auth = "failed"
           /\ session'[t].wire # "none" /\ ~session'[t].closed =>
                session[t].wire # "none" /\ ~session[t].closed,
         r.pc = "doom" => session'[r.on].auth = "failed",
         current' \in {current, NoSession},
         tracked' \subseteq tracked, retired \subseteq retired', retired' \subseteq tracked \cup retired,
         \A s \in tracked : s \in tracked' \cup retired' \/ (r.pc = "doom" /\ r.on = s),
         \A s \in retired' : s \notin retired =>
           s # current' /\ \A d \in Callers : caller[d].pc \in Holding => caller[d].on # s,
         caller[c].pc = "doom" => session'[caller[c].on].closed
  PROVE  H2PoolInv' /\ \A t \in H2!Dials : Holders(t)' = Holders(t)
<1>1. /\ r.on \in H2!Dials /\ session[r.on].auth # "none" /\ r.on \notin retired
      /\ H2TypeInv /\ (caller[c].pc \in H2!Opening => closer # "done")
  BY H2Held
<1>2. r.pc \notin Queued /\ r.on \notin retired' /\ session'[r.on].auth # "none"
  BY <1>1, Places
<1>3. H2PoolInv'
  <2>1. /\ UNCHANGED <<H2!dialVars, H2!closeVars>>
        /\ gate' = gate \/ gate = c
    OBVIOUS
  <2>2. /\ r.pc \in Holding =>
             r.on \in H2!Dials /\ session'[r.on].auth # "none" /\ r.on \notin retired'
        /\ r.pc \in H2!Opening => closer # "done"
        /\ r.pc \notin Queued
    BY <1>1, <1>2
  <2>3. \A s \in retired' : s \notin retired =>
           s # current' /\ \A d \in Callers : d # c /\ caller[d].pc \in Holding => caller[d].on # s
    OBVIOUS
  <2> QED
    BY <2>1, <2>2, <2>3, MoveStep
<1>4. \A t \in H2!Dials : Holders(t)' = Holders(t)
  <2>1. \A t \in H2!Dials :
          r.pc \in Holding /\ r.on = t <=> caller[c].pc \in Holding /\ caller[c].on = t
    OBVIOUS
  <2>2. \A t \in H2!Dials :
          (r.pc \in Holding /\ r.on = t
               <=> caller[c].pc \in Holding /\ caller[c].on = t) => Holders(t)' = Holders(t)
    BY <1>1, HoldersMove
  <2> QED
    BY <2>1, <2>2
<1> QED
  BY <1>3, <1>4

\* An answer leaves the pool as it is; a request that was refused or failed
\* deselects the connection and sweeps.
LEMMA H2AnswerSteps ==
  ASSUME H2PoolInv, NEW c \in Callers,
         H2!FollowAnswered(c) \/ H2!Refused(c) \/ H2!Handoff(c) \/ H2!FollowUnsent(c) \/ H2!FollowFails(c)
  PROVE  H2PoolInv' /\ UNCHANGED H2!Pool!vars
<1>1. /\ caller[c].pc \in H2!Opening /\ caller[c].pc \in Holding /\ caller[c].pc # "doom"
      /\ UNCHANGED <<session, H2!streamOnly>>
  BY Places
     DEF H2!FollowAnswered, H2!Refused, H2!Handoff, H2!FollowUnsent, H2!FollowFails, H2!Opening, H2!poolVars
<1>2. /\ session \in [H2!Dials -> H2SessionRecord] /\ caller[c] \in H2CallRecord /\ H2TypeInv
      /\ UNCHANGED <<gate, H2!dialVars, H2!closeVars>>
  BY <1>1, H2Held DEF H2TypeInv, H2!streamOnly
<1>3. PICK r \in H2CallRecord :
        /\ Becomes(c, r)
        /\ r.pc \in H2!Opening \ {"doom"} /\ r.on = caller[c].on
  <2>1. H2!Opening \subseteq H2Steps
    BY Places
  <2>2. CASE H2!FollowUnsent(c)
    <3>1. PICK x : x = IF caller[c].again THEN "" ELSE "unsent"
      OBVIOUS
    <3>2. PICK r : r = [caller[c] EXCEPT !.pc = "finish", !.seen = x]
      OBVIOUS
    <3>3. r \in H2CallRecord /\ r.pc = "finish" /\ r.on = caller[c].on
      BY <1>2, <2>1, <3>1, <3>2 DEF H2CallRecord, H2!Opening
    <3>4. Becomes(c, r)
      BY <1>2, <2>2, <3>1, <3>2 DEF H2!FollowUnsent, H2TypeInv, H2CallRecord, Becomes
    <3> QED
      BY <3>3, <3>4 DEF H2!Opening
  <2>3. CASE \E pc \in {"answered", "cleaning", "handed", "finish"} : H2!Set(c, pc)
    <3>1. PICK pc \in {"answered", "cleaning", "handed", "finish"} : H2!Set(c, pc)
      BY <2>3
    <3>2. PICK r : r = [caller[c] EXCEPT !.pc = pc]
      OBVIOUS
    <3>3. r \in H2CallRecord /\ r.pc = pc /\ r.on = caller[c].on
      BY <1>2, <2>1, <3>2 DEF H2CallRecord, H2!Opening
    <3>4. Becomes(c, r)
      BY <3>1, <3>2 DEF H2!Set, Becomes
    <3> QED
      BY <3>3, <3>4 DEF H2!Opening
  <2> QED
    BY <2>2, <2>3 DEF H2!FollowAnswered, H2!Refused, H2!Handoff, H2!FollowUnsent, H2!FollowFails
<1>4. /\ current' \in {current, NoSession}
      /\ tracked' \subseteq tracked /\ retired \subseteq retired' /\ retired' \subseteq tracked \cup retired
      /\ \A s \in tracked : s \in tracked' \cup retired'
      /\ \A s \in retired' : s \notin retired =>
           s # current' /\ \A d \in Callers : caller[d].pc \in Holding => caller[d].on # s
  <2>1. CASE UNCHANGED H2!poolVars
    BY <2>1 DEF H2!poolVars
  <2>2. CASE \E unusable \in BOOLEAN : H2!Deselect(c, unusable)
    <3>1. PICK now \in {current, NoSession} : current' = now /\ H2!Sweep(now, Callers)
      BY <2>2 DEF H2!Deselect
    <3> QED
      BY <3>1, Sweeps
  <2> QED
    BY <2>1, <2>2 DEF H2!FollowAnswered, H2!Refused, H2!Handoff, H2!FollowUnsent, H2!FollowFails
<1>5. /\ session' \in [H2!Dials -> H2SessionRecord]
      /\ \A t \in H2!Dials : session'[t] = session[t]
      /\ r.pc \in Holding /\ r.pc # "doom" /\ r.pc \in H2!Opening
  BY <1>1, <1>2, <1>3, Places
<1>6. H2PoolInv' /\ \A t \in H2!Dials : Holders(t)' = Holders(t)
  BY <1>1, <1>2, <1>3, <1>4, <1>5, H2HeldStep
<1>7. UNCHANGED H2!Pool!vars
  BY <1>1, <1>6 DEF H2!Pool!vars, H2!streamOnly, H2!closeVars, H2!Closed, Holders
<1> QED
  BY <1>6, <1>7

\* The record of a call that takes a step while it holds its connection.
LEMMA SetHeld ==
  ASSUME H2PoolInv, NEW c \in Callers, NEW pc \in Holding, H2!Set(c, pc)
  PROVE  \E r \in H2CallRecord : Becomes(c, r) /\ r.pc = pc /\ r.on = caller[c].on
<1>1. caller[c] \in H2CallRecord /\ pc \in H2Steps
  BY Places DEF H2PoolInv, H2TypeInv
<1>2. PICK r : r = [caller[c] EXCEPT !.pc = pc]
  OBVIOUS
<1>3. r \in H2CallRecord /\ r.pc = pc /\ r.on = caller[c].on
  BY <1>1, <1>2 DEF H2CallRecord
<1>4. Becomes(c, r)
  BY <1>2 DEF H2!Set, Becomes
<1> QED
  BY <1>3, <1>4

\* A connection whose proof was not given is failed and forgotten.
LEMMA H2FailStep ==
  ASSUME H2PoolInv, NEW c \in Callers, caller[c].pc \in H2!Opening, caller[c].pc # "doom",
         H2!FailSession(c), UNCHANGED H2!streamOnly
  PROVE  H2PoolInv' /\ H2!Pool!Next
<1>0. PICK s : s = caller[c].on
  OBVIOUS
<1>1. /\ caller[c].pc \in Holding /\ "doom" \in Holding /\ "doom" \in H2!Opening
  BY Places DEF H2!Opening
<1>2. /\ s \in H2!Dials /\ session[s].auth # "none"
      /\ session \in [H2!Dials -> H2SessionRecord]
  BY <1>0, <1>1, H2Held
<1>3. /\ session' = [session EXCEPT ![s].auth = "failed"] /\ H2!Set(c, "doom")
      /\ current' \in {current, NoSession} /\ tracked' = tracked \ {s}
      /\ UNCHANGED <<retired, gate, H2!dialVars, H2!closeVars>>
  BY <1>0 DEF H2!FailSession, H2!streamOnly
<1>4. /\ session' \in [H2!Dials -> H2SessionRecord]
      /\ session'[s].auth = "failed" /\ session'[s].wire = session[s].wire
      /\ session'[s].closed = session[s].closed
      /\ \A d \in H2!Dials : d # s => session'[d] = session[d]
  BY <1>2, <1>3, SessionSet DEF H2Auths
<1>5. PICK r \in H2CallRecord : Becomes(c, r) /\ r.pc = "doom" /\ r.on = caller[c].on
  BY <1>1, <1>3, SetHeld
<1>6. H2PoolInv' /\ \A t \in H2!Dials : Holders(t)' = Holders(t)
  <2>1. \A t \in H2!Dials :
           /\ session[t].auth = "none" => session'[t] = session[t]
           /\ session[t].auth # "none" => session'[t].auth # "none"
           /\ session[t].auth = "failed" => session'[t].auth = "failed"
           /\ session'[t].wire # "none" /\ ~session'[t].closed =>
                session[t].wire # "none" /\ ~session[t].closed
    BY <1>2, <1>4
  <2>2. /\ tracked' \subseteq tracked /\ retired \subseteq retired' /\ retired' \subseteq tracked \cup retired
        /\ \A t \in tracked : t \in tracked' \cup retired' \/ (r.pc = "doom" /\ r.on = t)
        /\ \A t \in retired' : t \notin retired =>
             t # current' /\ \A d \in Callers : caller[d].pc \in Holding => caller[d].on # t
    BY <1>0, <1>3, <1>5
  <2>3. /\ r.pc \in Holding /\ (r.pc \in H2!Opening => caller[c].pc \in H2!Opening)
        /\ session'[r.on].auth = "failed"
    BY <1>0, <1>1, <1>4, <1>5
  <2> QED
    BY <1>1, <1>3, <1>4, <1>5, <2>1, <2>2, <2>3, H2HeldStep
<1>7. H2!Pool!Fail(s)
  <2>1. [t \in H2!Dials |-> session'[t].auth] = [[t \in H2!Dials |-> session[t].auth] EXCEPT ![s] = "failed"]
    BY <1>2, <1>4
  <2>2. {t \in H2!Dials : session'[t].wire # "none" /\ ~session'[t].closed}
        = {t \in H2!Dials : session[t].wire # "none" /\ ~session[t].closed}
    BY <1>4
  <2>3. UNCHANGED closer /\ [t \in H2!Dials |-> Holders(t)'] = [t \in H2!Dials |-> Holders(t)]
    BY <1>3, <1>6 DEF H2!closeVars
  <2> QED
    BY <2>1, <2>2, <2>3 DEF H2!Pool!Fail, H2!Closed, Holders
<1> QED
  BY <1>2, <1>6, <1>7 DEF H2!Pool!Next

\* The proofs a call gets: of its bootstrap, or of its ticket.
LEMMA H2ProofSteps ==
  ASSUME H2PoolInv, NEW c \in Callers, H2!LeadFails(c) \/ H2!LeadAnswered(c) \/ H2!FollowMisproved(c)
  PROVE  H2PoolInv' /\ H2!Pool!Next
<1>0. PICK s : s = caller[c].on
  OBVIOUS
<1>1. /\ caller[c].pc \in H2!Opening /\ caller[c].pc # "doom" /\ caller[c].pc \in Holding
      /\ UNCHANGED H2!streamOnly
  BY Places DEF H2!LeadFails, H2!LeadAnswered, H2!FollowMisproved, H2!Opening
<1>2. /\ s \in H2!Dials /\ session[s].auth # "none"
      /\ session \in [H2!Dials -> H2SessionRecord]
  BY <1>0, <1>1, H2Held
<1>3. CASE H2!FailSession(c)
  BY <1>1, <1>3, H2FailStep
<1>4. CASE /\ ~H2!Closed /\ session[s].auth = "bootstrapping"
           /\ session' = [session EXCEPT ![s].auth = "ready"]
           /\ H2!Set(c, "answered") /\ UNCHANGED <<current, tracked, retired>>
  <2>1. /\ session' \in [H2!Dials -> H2SessionRecord]
        /\ session'[s].auth = "ready" /\ session'[s].wire = session[s].wire
        /\ session'[s].closed = session[s].closed
        /\ \A d \in H2!Dials : d # s => session'[d] = session[d]
    BY <1>2, <1>4, SessionSet DEF H2Auths
  <2>2. PICK r \in H2CallRecord : Becomes(c, r) /\ r.pc = "answered" /\ r.on = caller[c].on
    <3>1. "answered" \in Holding
      BY DEF Holding, H2!Opening
    <3> QED
      BY <1>4, <3>1, SetHeld
  <2>3. H2PoolInv' /\ \A t \in H2!Dials : Holders(t)' = Holders(t)
    <3>1. \A t \in H2!Dials :
           /\ session[t].auth = "none" => session'[t] = session[t]
           /\ session[t].auth # "none" => session'[t].auth # "none"
           /\ session[t].auth = "failed" => session'[t].auth = "failed"
           /\ session'[t].wire # "none" /\ ~session'[t].closed =>
                session[t].wire # "none" /\ ~session[t].closed
      BY <1>4, <2>1
    <3>2. /\ tracked' \subseteq tracked /\ retired \subseteq retired' /\ retired' \subseteq tracked \cup retired
          /\ \A t \in tracked : t \in tracked' \cup retired' \/ (r.pc = "doom" /\ r.on = t)
          /\ \A t \in retired' : t \notin retired =>
               t # current' /\ \A d \in Callers : caller[d].pc \in Holding => caller[d].on # t
          /\ current' \in {current, NoSession}
      BY <1>4
    <3>3. r.pc \in Holding /\ (r.pc \in H2!Opening => caller[c].pc \in H2!Opening) /\ r.pc # "doom"
      BY <1>1, <2>2 DEF Holding, H2!Opening
    <3>4. UNCHANGED <<gate, H2!dialVars, H2!closeVars>>
      BY <1>1 DEF H2!streamOnly
    <3> QED
      BY <1>1, <2>1, <2>2, <3>1, <3>2, <3>3, <3>4, H2HeldStep
  <2>4. H2!Pool!Establish(s)
    <3>1. [t \in H2!Dials |-> session'[t].auth] = [[t \in H2!Dials |-> session[t].auth] EXCEPT ![s] = "ready"]
      BY <1>2, <2>1
    <3>2. {t \in H2!Dials : session'[t].wire # "none" /\ ~session'[t].closed}
          = {t \in H2!Dials : session[t].wire # "none" /\ ~session[t].closed}
      BY <2>1
    <3>3. UNCHANGED closer /\ [t \in H2!Dials |-> Holders(t)'] = [t \in H2!Dials |-> Holders(t)]
      BY <1>1, <2>3 DEF H2!streamOnly, H2!closeVars
    <3> QED
      BY <1>2, <1>4, <3>1, <3>2, <3>3 DEF H2!Pool!Establish, H2!Closed, Holders
  <2> QED
    BY <1>2, <2>3, <2>4 DEF H2!Pool!Next
<1> QED
  BY <1>0, <1>3, <1>4 DEF H2!LeadFails, H2!LeadAnswered, H2!FollowMisproved, H2!Completes

\* Closing one connection that has failed, that nobody is on, or with the client
\* closed; when it is closed already nothing changes.
LEMMA H2ClosesOne ==
  ASSUME H2TypeInv, NEW s \in H2!Dials, session' = [session EXCEPT ![s].closed = TRUE],
         UNCHANGED closer, \A t \in H2!Dials : Holders(t)' = Holders(t),
         Holders(s) = {} \/ session[s].auth = "failed" \/ H2!Closed
  PROVE  H2!Pool!Next \/ UNCHANGED H2!Pool!vars
<1>1. /\ session \in [H2!Dials -> H2SessionRecord] /\ session[s].auth \in H2Auths
  BY DEF H2TypeInv, H2SessionRecord
<1>2. /\ session'[s].auth = session[s].auth /\ session'[s].closed
      /\ session'[s].wire = session[s].wire
      /\ \A d \in H2!Dials : d # s => session'[d] = session[d]
  BY <1>1, SessionSet
<1>3. PICK out : out = {s} \cap {t \in H2!Dials : session[t].wire # "none" /\ ~session[t].closed}
  OBVIOUS
<1>4. [t \in H2!Dials |-> session'[t].auth] = [t \in H2!Dials |-> session[t].auth]
  BY <1>2
<1>5. {t \in H2!Dials : session'[t].wire # "none" /\ ~session'[t].closed}
      = {t \in H2!Dials : session[t].wire # "none" /\ ~session[t].closed} \ out
  BY <1>2, <1>3
<1>6. [t \in H2!Dials |-> Holders(t)'] = [t \in H2!Dials |-> Holders(t)]
  OBVIOUS
<1>7. H2!Pool!Closes(out)
  BY <1>3, <1>4, <1>5, <1>6 DEF H2!Pool!Closes, H2!Closed, Holders
<1>8. out \in SUBSET H2!Dials
  BY <1>3
<1> QED
  BY <1>7, <1>8 DEF H2!Pool!Next

\* The call that found the authentication broken closes the connection.
LEMMA H2DoomStep ==
  ASSUME H2PoolInv, NEW c \in Callers, H2!Doom(c)
  PROVE  H2PoolInv' /\ (H2!Pool!Next \/ UNCHANGED H2!Pool!vars)
<1>0. PICK s : s = caller[c].on
  OBVIOUS
<1>1. /\ caller[c].pc = "doom" /\ caller[c].pc \in Holding /\ caller[c].pc \in H2!Opening
      /\ session' = [session EXCEPT ![s].closed = TRUE] /\ H2!Set(c, "finish")
      /\ UNCHANGED <<current, tracked, retired, gate, H2!dialVars, H2!closeVars>>
      /\ "finish" \in Holding
  BY <1>0 DEF H2!Doom, Holding, H2!Opening, H2!streamOnly
<1>2. /\ s \in H2!Dials /\ session[s].auth # "none" /\ session[s].auth \in H2Auths
      /\ session \in [H2!Dials -> H2SessionRecord] /\ H2TypeInv
  BY <1>0, <1>1, H2Held
<1>3. session[s].auth = "failed"
  BY <1>0, <1>1 DEF H2PoolInv, H2CallInv
<1>4. /\ session' \in [H2!Dials -> H2SessionRecord]
      /\ session'[s].auth = session[s].auth /\ session'[s].wire = session[s].wire
      /\ session'[s].closed
      /\ \A d \in H2!Dials : d # s => session'[d] = session[d]
  BY <1>1, <1>2, SessionSet
<1>5. PICK r \in H2CallRecord : Becomes(c, r) /\ r.pc = "finish" /\ r.on = caller[c].on
  BY <1>1, SetHeld
<1>6. H2PoolInv' /\ \A t \in H2!Dials : Holders(t)' = Holders(t)
  <2>1. \A t \in H2!Dials :
           /\ session[t].auth = "none" => session'[t] = session[t]
           /\ session[t].auth # "none" => session'[t].auth # "none"
           /\ session[t].auth = "failed" => session'[t].auth = "failed"
           /\ session'[t].wire # "none" /\ ~session'[t].closed =>
                session[t].wire # "none" /\ ~session[t].closed
    BY <1>2, <1>4
  <2>2. /\ tracked' \subseteq tracked /\ retired \subseteq retired' /\ retired' \subseteq tracked \cup retired
        /\ \A t \in tracked : t \in tracked' \cup retired' \/ (r.pc = "doom" /\ r.on = t)
        /\ \A t \in retired' : t \notin retired =>
             t # current' /\ \A d \in Callers : caller[d].pc \in Holding => caller[d].on # t
        /\ current' \in {current, NoSession}
    BY <1>1
  <2>3. /\ r.pc \in Holding /\ (r.pc \in H2!Opening => caller[c].pc \in H2!Opening)
        /\ r.pc # "doom" /\ session'[caller[c].on].closed
    BY <1>0, <1>1, <1>4, <1>5
  <2>4. UNCHANGED <<gate, H2!dialVars, H2!closeVars>>
    BY <1>1
  <2> QED
    BY <1>1, <1>4, <1>5, <2>1, <2>2, <2>3, <2>4, H2HeldStep
<1>7. UNCHANGED closer
  BY <1>1 DEF H2!closeVars
<1> QED
  BY <1>1, <1>2, <1>3, <1>6, <1>7, H2ClosesOne

\* A call gives its connection back, or hands it over as a stream, and sweeps.
LEMMA H2ReleaseStep ==
  ASSUME H2PoolInv, NEW c \in Callers, H2!Finish(c) \/ H2!CloseStream(c)
  PROVE  H2PoolInv' /\ (H2!Pool!Next \/ UNCHANGED H2!Pool!vars)
<1>0. PICK s : s = caller[c].on
  OBVIOUS
<1>1. /\ caller[c].pc \in Holding /\ caller[c].pc # "doom"
      /\ UNCHANGED <<session, current, gate, H2!dialVars, H2!closeVars>>
  BY DEF H2!Finish, H2!CloseStream, Holding, H2!Opening, H2!streamOnly
<1>2. /\ s \in H2!Dials /\ session[s].auth # "none" /\ s \notin retired /\ c \in Holders(s)
      /\ session \in [H2!Dials -> H2SessionRecord] /\ H2TypeInv /\ 0 \in 0..MaxDials
      /\ H2!Dials \subseteq 0..MaxDials
  BY <1>0, <1>1, H2Held, PoolsAssumption DEF H2!Dials
<1>3. ASSUME NEW r \in H2CallRecord, Becomes(c, r), r.pc \in {"enter", "returned"},
             H2!Sweep(current, Callers \ {c})
      PROVE  H2PoolInv' /\ H2!Pool!Next
  <2>1. r.pc \notin Queued /\ r.pc \notin Holding /\ r.pc \notin H2!Opening /\ r.pc # "doom"
    BY <1>3, Places
  <2>2. Callers \ {c} \in SUBSET Callers
    OBVIOUS
  <2>3. /\ tracked' \subseteq tracked /\ retired \subseteq retired' /\ retired' \subseteq tracked \cup retired
        /\ tracked \subseteq tracked' \cup retired'
        /\ \A t \in retired' : t \notin retired =>
             t # current /\ \A d \in Callers \ {c} : caller[d].pc \in Holding => caller[d].on # t
    BY <1>3, <2>2, Sweeps
  <2>4. H2PoolInv'
    <3>1. /\ current' \in {current, NoSession} /\ (gate' = gate \/ gate = c)
          /\ \A t \in tracked : t \in tracked' \cup retired' \/ (r.pc = "doom" /\ r.on = t)
          /\ \A t \in retired' : t \notin retired =>
               t # current' /\ \A d \in Callers : d # c /\ caller[d].pc \in Holding => caller[d].on # t
      BY <1>1, <2>3
    <3>2. session' \in [H2!Dials -> H2SessionRecord] /\ session' = session
      BY <1>1, <1>2
    <3>3. UNCHANGED <<H2!dialVars, H2!closeVars>>
      BY <1>1
    <3> QED
      BY <1>1, <1>3, <2>1, <2>3, <3>1, <3>2, <3>3, MoveStep
  <2>5. \A t \in H2!Dials : Holders(t)' = Holders(t) \ {c}
    BY <1>2, <1>3, <2>1, HoldersMove
  <2>6. \A t \in H2!Dials : t # s => Holders(t)' = Holders(t)
    <3>1. \A t \in H2!Dials : t # s => c \notin Holders(t)
      BY <1>0 DEF Holders
    <3> QED
      BY <2>5, <3>1
  <2>7. [t \in H2!Dials |-> Holders(t)'] = [[t \in H2!Dials |-> Holders(t)] EXCEPT ![s] = Holders(s) \ {c}]
    BY <1>2, <2>5, <2>6
  <2>8. H2!Pool!Leave(s, c)
    BY <1>1, <1>2, <2>7 DEF H2!Pool!Leave, H2!Closed, Holders, H2!closeVars
  <2> QED
    BY <1>2, <2>4, <2>8 DEF H2!Pool!Next
<1>4. ASSUME caller[c].pc = "handed", H2!Finish(c)
      PROVE  H2PoolInv' /\ UNCHANGED H2!Pool!vars
  <2>1. PICK r : r = [H2!Outside("open") EXCEPT !.on = s]
    OBVIOUS
  <2>2. r \in H2CallRecord /\ r.pc = "open" /\ r.on = caller[c].on
    BY <1>0, <1>2, <2>1, Places DEF H2!Outside, H2CallRecord
  <2>3. Becomes(c, r) /\ H2!Sweep(current, Callers)
    BY <1>0, <1>4, <2>1 DEF H2!Finish, Becomes
  <2>4. /\ tracked' \subseteq tracked /\ retired \subseteq retired' /\ retired' \subseteq tracked \cup retired
        /\ tracked \subseteq tracked' \cup retired'
        /\ \A t \in retired' : t \notin retired =>
             t # current /\ \A d \in Callers : caller[d].pc \in Holding => caller[d].on # t
    BY <2>3, Sweeps
  <2>5. H2PoolInv' /\ \A t \in H2!Dials : Holders(t)' = Holders(t)
    <3>1. /\ current' \in {current, NoSession}
          /\ \A t \in tracked : t \in tracked' \cup retired' \/ (r.pc = "doom" /\ r.on = t)
          /\ \A t \in retired' : t \notin retired =>
               t # current' /\ \A d \in Callers : caller[d].pc \in Holding => caller[d].on # t
      BY <1>1, <2>4
    <3>2. session' \in [H2!Dials -> H2SessionRecord] /\ session' = session
      BY <1>1, <1>2
    <3>3. r.pc \in Holding /\ r.pc \notin H2!Opening /\ r.pc # "doom"
      BY <2>2 DEF Holding, H2!Opening
    <3>4. UNCHANGED <<gate, H2!dialVars, H2!closeVars>>
      BY <1>1
    <3> QED
      BY <1>1, <2>2, <2>3, <2>4, <3>1, <3>2, <3>3, <3>4, H2HeldStep
  <2>6. UNCHANGED H2!Pool!vars
    BY <1>1, <2>5 DEF H2!Pool!vars, H2!closeVars, H2!Closed, Holders
  <2> QED
    BY <2>5, <2>6
<1>5. CASE caller[c].pc # "handed" \/ H2!CloseStream(c)
  <2>1. PICK r : r = IF caller[c].seen = "unsent" /\ H2!Finish(c)
                     THEN [H2!Outside("enter") EXCEPT !.again = TRUE] ELSE H2!Outside("returned")
    OBVIOUS
  <2>2. r \in H2CallRecord /\ r.pc \in {"enter", "returned"}
    BY <1>2, <2>1, Places DEF H2!Outside, H2CallRecord
  <2>3. Becomes(c, r) /\ H2!Sweep(current, Callers \ {c})
    BY <1>5, <2>1 DEF H2!Finish, H2!CloseStream, H2!Return, Becomes
  <2> QED
    BY <1>3, <2>2, <2>3
<1> QED
  BY <1>4, <1>5

\* A context is done: nobody moves.
LEMMA H2CancelStep ==
  ASSUME H2PoolInv, NEW c \in Callers, H2!Cancel(c)
  PROVE  H2PoolInv' /\ UNCHANGED H2!Pool!vars
<1>1. UNCHANGED <<caller, gate, session, current, tracked, retired, dial, dialing, cohort, selection, closer, doomed>>
  BY DEF H2!Cancel, H2!poolVars, H2!dialVars, H2!closeVars
<1>2. H2TypeInv' /\ H2DialInv' /\ CohortInv'
  BY <1>1 DEF H2PoolInv, H2TypeInv, H2DialInv, CohortInv, H2!Closed
<1>3. H2CallInv' /\ RetireInv' /\ OwnInv'
  BY <1>1 DEF H2PoolInv, H2CallInv, RetireInv, OwnInv, H2!OwnedBy, Holders, H2!Closed
<1> QED
  BY <1>1, <1>2, <1>3 DEF H2PoolInv, H2!Pool!vars, H2!Closed
-----------------------------------------------------------------------------
\* Steps that leave the calls where they are.
LEMMA H2CallsStay ==
  ASSUME H2PoolInv, UNCHANGED <<caller, gate, cohort>>,
         \A s \in H2!Dials :
           /\ session[s].auth # "none" => session'[s].auth # "none"
           /\ session[s].auth = "failed" => session'[s].auth = "failed",
         selection' = selection \/ cohort[selection] # 0,
         closer' = "done" => closer = "done" \/ \A c \in Callers : caller[c].pc \notin H2!Opening
  PROVE  H2CallInv' /\ \A t : Holders(t)' = Holders(t)
<1>1. \A t : Holders(t)' = Holders(t)
  BY DEF Holders
<1>2. H2CallInv'
  <2> SUFFICES ASSUME NEW e \in Callers
               PROVE
    /\ caller'[e].pc \in Holding \cup Looked =>
         caller'[e].on \in H2!Dials /\ session'[caller'[e].on].auth # "none"
    /\ caller'[e].pc = "doom" => session'[caller'[e].on].auth = "failed"
    /\ caller'[e].pc \in AtGate => gate' = e
    /\ caller'[e].pc \in Queued =>
         /\ caller'[e].cohort \in Cohorts
         /\ cohort'[caller'[e].cohort] = 0 => caller'[e].cohort = selection'
    /\ caller'[e].pc \in Looked =>
         cohort'[caller'[e].cohort] = 0 /\ caller'[e].seen \in {"fresh", "ready"}
    /\ closer' = "done" => caller'[e].pc \notin H2!Opening
    BY DEF H2CallInv, H2!Dials, Queued, AtGate, Looked, Holding, H2!Opening, Cohorts
  <2>1. caller[e].pc = "doom" => caller[e].pc \in Holding
    BY DEF Holding, H2!Opening
  <2> QED
    BY <2>1 DEF H2PoolInv, H2CallInv
<1> QED
  BY <1>1, <1>2

\* A dial at work, and the cohort that shares it.
LEMMA AtWork ==
  ASSUME H2PoolInv, NEW d \in H2!Dials, dial[d] \in {"opening", "opened", "late"}
  PROVE  /\ d = dialing /\ selection # 0 /\ cohort[selection] = d /\ d # 0
         /\ \A e \in H2!Dials : e # d => dial[e] \notin {"opening", "opened", "late"}
<1>1. d = dialing /\ \A e \in H2!Dials : e # d => dial[e] \notin {"opening", "opened", "late"}
  BY DEF H2PoolInv, H2DialInv
<1>2. d # 0
  BY PoolsAssumption DEF H2!Dials
<1> QED
  BY <1>1, <1>2 DEF H2PoolInv, CohortInv

\* A dial is published: its cohort is detached with it.
LEMMA Published ==
  ASSUME H2PoolInv, NEW d \in H2!Dials, NEW result \in {"done", "error"}, H2!Publish(d, result),
         dial[d] \in {"opening", "opened", "late"},
         UNCHANGED <<caller, canceled, gate, current, tracked, retired, cohort, H2!closeVars>>,
         session' \in [H2!Dials -> H2SessionRecord],
         \A s \in H2!Dials :
           /\ session[s].auth # "none" => session'[s].auth # "none"
           /\ session[s].auth = "failed" => session'[s].auth = "failed"
           /\ s # d => session'[s] = session[s],
         dial[d] = "late" => session'[d].closed,
         dial[d] # "late" => session' = session
  PROVE  H2PoolInv' /\ \A t : Holders(t)' = Holders(t)
<1>1. /\ H2TypeInv /\ H2DialInv /\ CohortInv /\ H2CallInv /\ RetireInv /\ OwnInv
      /\ UNCHANGED <<closer, doomed>> /\ 0 \in 0..MaxDials
  BY PoolsAssumption DEF H2PoolInv, H2!closeVars
<1>2. /\ d = dialing /\ selection # 0 /\ cohort[selection] = d /\ d # 0
      /\ \A e \in H2!Dials : e # d => dial[e] \notin {"opening", "opened", "late"}
  BY AtWork
<1>3. /\ dial' = [dial EXCEPT ![d] = result] /\ dialing' = 0 /\ selection' = 0
  BY <1>2 DEF H2!Publish
<1>4. /\ dial' \in [H2!Dials -> {"none", "opening", "opened", "late", "done", "error"}]
      /\ dial'[d] = result /\ \A e \in H2!Dials : e # d => dial'[e] = dial[e]
  BY <1>1, <1>3 DEF H2TypeInv
<1>5. H2CallInv' /\ \A t : Holders(t)' = Holders(t)
  BY <1>1, <1>2, H2CallsStay
<1>6. H2TypeInv'
  BY <1>1, <1>3, <1>4 DEF H2TypeInv
<1>7. H2DialInv'
  BY <1>1, <1>2, <1>4 DEF H2DialInv, H2!Closed
<1>8. CohortInv'
  BY <1>1, <1>3, <1>4 DEF CohortInv, H2TypeInv
<1>9. RetireInv'
  BY <1>1, <1>5 DEF RetireInv, H2TypeInv
<1>10. OwnInv'
  <2> SUFFICES ASSUME NEW s \in H2!Dials, session'[s].wire # "none" /\ ~session'[s].closed
               PROVE  H2!OwnedBy(s)'
    BY DEF OwnInv
  <2>1. session'[s] = session[s] /\ ~(s = d /\ dial[d] = "late")
    OBVIOUS
  <2>2. H2!OwnedBy(s)
    BY <1>1, <2>1 DEF OwnInv
  <2> QED
    BY <1>1, <1>4, <2>1, <2>2 DEF H2!OwnedBy, H2!Closed
<1> QED
  BY <1>5, <1>6, <1>7, <1>8, <1>9, <1>10 DEF H2PoolInv

\* A dial is published: it failed, it is in the pool, or it came too late.
LEMMA PublishSteps ==
  ASSUME H2PoolInv, NEW d \in H2!Dials, H2!DialFails(d) \/ H2!DialPublishes(d) \/ H2!DialLate(d)
  PROVE  H2PoolInv' /\ (H2!Pool!Next \/ UNCHANGED H2!Pool!vars)
<1>1. H2TypeInv /\ session \in [H2!Dials -> H2SessionRecord] /\ session[d].auth \in H2Auths
  BY DEF H2PoolInv, H2TypeInv, H2SessionRecord
<1>2. CASE H2!DialFails(d) \/ H2!DialPublishes(d)
  <2>1. PICK result \in {"done", "error"} : H2!Publish(d, result)
    BY <1>2 DEF H2!DialFails, H2!DialPublishes
  <2>2. /\ dial[d] \in {"opening", "opened"} /\ UNCHANGED session
        /\ UNCHANGED <<caller, canceled, gate, current, tracked, retired, cohort, H2!closeVars>>
    BY <1>2 DEF H2!DialFails, H2!DialPublishes, H2!poolVars
  <2>3. H2PoolInv' /\ \A t : Holders(t)' = Holders(t)
    BY <1>1, <2>1, <2>2, Published
  <2>4. UNCHANGED H2!Pool!vars
    BY <2>2, <2>3 DEF H2!Pool!vars, H2!closeVars, H2!Closed, Holders
  <2> QED
    BY <2>3, <2>4
<1>3. CASE H2!DialLate(d)
  <2>1. /\ dial[d] = "late" /\ session' = [session EXCEPT ![d].closed = TRUE]
        /\ H2!Publish(d, "error")
        /\ UNCHANGED <<caller, canceled, gate, current, tracked, retired, cohort, H2!closeVars>>
    BY <1>3 DEF H2!DialLate
  <2>2. /\ session' \in [H2!Dials -> H2SessionRecord]
        /\ session'[d].auth = session[d].auth /\ session'[d].closed
        /\ \A e \in H2!Dials : e # d => session'[e] = session[e]
    BY <1>1, <2>1, SessionSet
  <2>3. H2PoolInv' /\ \A t : Holders(t)' = Holders(t)
    <3>1. \A s \in H2!Dials :
           /\ session[s].auth # "none" => session'[s].auth # "none"
           /\ session[s].auth = "failed" => session'[s].auth = "failed"
           /\ s # d => session'[s] = session[s]
      BY <2>2
    <3>2. dial[d] \in {"opening", "opened", "late"}
      BY <2>1
    <3> QED
      BY <2>1, <2>2, <3>1, <3>2, Published
  <2>4. H2!Closed /\ UNCHANGED closer
    BY <2>1 DEF H2PoolInv, H2DialInv, H2!closeVars
  <2> QED
    BY <1>1, <2>1, <2>3, <2>4, H2ClosesOne
<1> QED
  BY <1>2, <1>3

\* A dial has opened its connection, in time or too late.
LEMMA H2OpensStep ==
  ASSUME H2PoolInv, NEW d \in H2!Dials, H2!DialOpens(d)
  PROVE  H2PoolInv' /\ H2!Pool!Next
<1>1. /\ dial[d] = "opening"
      /\ session' = [session EXCEPT ![d] = [auth |-> "fresh", wire |-> "up", closed |-> FALSE]]
      /\ UNCHANGED <<caller, canceled, gate, retired, dialing, cohort, selection, closer, doomed>>
  BY DEF H2!DialOpens, H2!closeVars
<1>2. \/ /\ ~H2!Closed /\ current' = d /\ tracked' = tracked \cup {d}
         /\ dial' = [dial EXCEPT ![d] = "opened"]
      \/ H2!Closed /\ UNCHANGED <<current, tracked>> /\ dial' = [dial EXCEPT ![d] = "late"]
  BY DEF H2!DialOpens, H2!Accepts
<1>3. H2TypeInv /\ H2DialInv /\ CohortInv /\ H2CallInv /\ RetireInv /\ OwnInv
  BY DEF H2PoolInv
<1>4. /\ session[d] = [auth |-> "none", wire |-> "none", closed |-> FALSE] /\ d = dialing
  BY <1>1, <1>3 DEF H2DialInv
<1>5. /\ session' \in [H2!Dials -> H2SessionRecord]
      /\ session'[d] = [auth |-> "fresh", wire |-> "up", closed |-> FALSE]
      /\ \A e \in H2!Dials : e # d => session'[e] = session[e]
  <2>1. [auth |-> "fresh", wire |-> "up", closed |-> FALSE] \in H2SessionRecord
    BY DEF H2SessionRecord, H2Auths, Wires
  <2> QED
    BY <1>1, <1>3, <2>1 DEF H2TypeInv
<1>6. /\ dial' \in [H2!Dials -> {"none", "opening", "opened", "late", "done", "error"}]
      /\ dial'[d] \in {"late", "opened"} /\ (dial'[d] = "late" => H2!Closed)
      /\ dial'[d] = "opened" => ~H2!Closed /\ d \in tracked'
      /\ \A e \in H2!Dials : e # d => dial'[e] = dial[e]
      /\ current' \in {current, d} /\ tracked \subseteq tracked' /\ tracked' \subseteq tracked \cup {d}
  BY <1>2, <1>3 DEF H2TypeInv
<1>7. H2CallInv' /\ \A t : Holders(t)' = Holders(t)
  BY <1>1, <1>4, <1>5, H2CallsStay
<1>8. H2TypeInv'
  BY <1>1, <1>3, <1>5, <1>6 DEF H2TypeInv
<1>9. H2DialInv'
  BY <1>1, <1>3, <1>4, <1>5, <1>6 DEF H2DialInv, H2!Closed
<1>10. CohortInv'
  BY <1>1, <1>3, <1>6 DEF CohortInv, H2TypeInv, H2!Dials
<1>11. RetireInv'
  <2>1. d \notin retired /\ d \notin doomed
    BY <1>3, <1>4 DEF RetireInv
  <2>2. current' \notin retired'
    BY <1>1, <1>3, <1>6, <2>1 DEF RetireInv
  <2>3. \A s \in retired' : Holders(s)' = {}
    BY <1>1, <1>3, <1>7 DEF RetireInv
  <2>4. \A s \in tracked' \cup retired' \cup doomed' : session'[s].auth # "none"
    BY <1>1, <1>3, <1>5, <1>6 DEF RetireInv, H2TypeInv
  <2> QED
    BY <2>2, <2>3, <2>4 DEF RetireInv
<1>12. OwnInv'
  <2> SUFFICES ASSUME NEW s \in H2!Dials, session'[s].wire # "none" /\ ~session'[s].closed
               PROVE  H2!OwnedBy(s)'
    BY DEF OwnInv
  <2>1. CASE s = d
    BY <1>1, <1>6, <2>1 DEF H2!OwnedBy, H2!Closed
  <2>2. CASE s # d
    <3>1. H2!OwnedBy(s)
      BY <1>3, <1>5, <2>2 DEF OwnInv
    <3> QED
      BY <1>1, <1>6, <2>2, <3>1 DEF H2!OwnedBy, H2!Closed
  <2> QED
    BY <2>1, <2>2
<1>13. H2!Pool!Opens(d)
  <2>1. [t \in H2!Dials |-> session'[t].auth] = [[t \in H2!Dials |-> session[t].auth] EXCEPT ![d] = "fresh"]
    <3>1. session'[d].auth = "fresh" /\ \A t \in H2!Dials : t # d => session'[t].auth = session[t].auth
      BY <1>5
    <3> QED
      BY <3>1
  <2>2. {t \in H2!Dials : session'[t].wire # "none" /\ ~session'[t].closed}
        = {t \in H2!Dials : session[t].wire # "none" /\ ~session[t].closed} \cup {d}
    BY <1>5
  <2>3. UNCHANGED closer /\ [t \in H2!Dials |-> Holders(t)'] = [t \in H2!Dials |-> Holders(t)]
    BY <1>1, <1>7
  <2> QED
    BY <1>4, <2>1, <2>2, <2>3 DEF H2!Pool!Opens, H2!Closed, Holders
<1> QED
  BY <1>7, <1>8, <1>9, <1>10, <1>11, <1>12, <1>13 DEF H2PoolInv, H2!Pool!Next

\* A detached session is closed by the goroutine it was given to.
LEMMA H2CloseRetiredStep ==
  ASSUME H2PoolInv, NEW s \in H2!Dials, H2!CloseRetired(s)
  PROVE  H2PoolInv' /\ (H2!Pool!Next \/ UNCHANGED H2!Pool!vars)
<1>1. /\ s \in retired /\ session' = [session EXCEPT ![s].closed = TRUE]
      /\ retired' = retired \ {s}
      /\ UNCHANGED <<caller, current, tracked, gate, dial, dialing, cohort, selection, closer, doomed>>
  BY DEF H2!CloseRetired, H2!streamOnly, H2!dialVars, H2!closeVars
<1>2. H2TypeInv /\ H2DialInv /\ CohortInv /\ H2CallInv /\ RetireInv /\ OwnInv
  BY DEF H2PoolInv
<1>3. /\ session \in [H2!Dials -> H2SessionRecord] /\ session[s].auth \in H2Auths /\ session[s].auth # "none"
      /\ Holders(s) = {}
  BY <1>1, <1>2 DEF H2TypeInv, H2SessionRecord, RetireInv
<1>4. /\ session' \in [H2!Dials -> H2SessionRecord]
      /\ session'[s].auth = session[s].auth /\ session'[s].closed
      /\ \A e \in H2!Dials : e # s => session'[e] = session[e]
  BY <1>1, <1>3, SessionSet
<1>5. H2CallInv' /\ \A t : Holders(t)' = Holders(t)
  BY <1>1, <1>4, H2CallsStay
<1>6. H2TypeInv'
  BY <1>1, <1>2, <1>4 DEF H2TypeInv
<1>7a. CohortInv'
  BY <1>1, <1>2 DEF CohortInv
<1>7b. dial[s] \notin {"none", "opening"}
  BY <1>2, <1>3 DEF H2DialInv
<1>7. H2DialInv' /\ CohortInv'
  BY <1>1, <1>2, <1>4, <1>7a, <1>7b DEF H2DialInv, H2!Closed
<1>8. RetireInv'
  BY <1>1, <1>2, <1>4, <1>5 DEF RetireInv, H2TypeInv
<1>9. OwnInv'
  <2> SUFFICES ASSUME NEW e \in H2!Dials, session'[e].wire # "none" /\ ~session'[e].closed
               PROVE  H2!OwnedBy(e)'
    BY DEF OwnInv
  <2>1. e # s /\ H2!OwnedBy(e)
    BY <1>2, <1>4 DEF OwnInv
  <2> QED
    BY <1>1, <2>1 DEF H2!OwnedBy, H2!Closed
<1> QED
  BY <1>1, <1>2, <1>3, <1>5, <1>6, <1>7, <1>8, <1>9, H2ClosesOne DEF H2PoolInv

\* The peer drains or loses a connection.
LEMMA WireStep ==
  ASSUME H2PoolInv, NEW s \in H2!Dials, H2!WireChanges(s)
  PROVE  H2PoolInv' /\ UNCHANGED H2!Pool!vars
<1>1. /\ session[s].wire \in {"up", "draining"} /\ dial[s] \in {"opened", "done"}
      /\ UNCHANGED <<caller, current, tracked, retired, gate, dial, dialing, cohort, selection, closer, doomed>>
  BY DEF H2!WireChanges, H2!streamOnly, H2!dialVars, H2!closeVars
<1>2. PICK w \in {"draining", "dead"} : session' = [session EXCEPT ![s].wire = w]
  BY DEF H2!WireChanges
<1>3. H2TypeInv /\ H2DialInv /\ CohortInv /\ H2CallInv /\ RetireInv /\ OwnInv
  BY DEF H2PoolInv
<1>4. /\ session' \in [H2!Dials -> H2SessionRecord]
      /\ session'[s].auth = session[s].auth /\ session'[s].closed = session[s].closed
      /\ session'[s].wire = w
      /\ \A e \in H2!Dials : e # s => session'[e] = session[e]
  BY <1>2, <1>3 DEF H2TypeInv, H2SessionRecord, Wires
<1>5. H2CallInv' /\ \A t : Holders(t)' = Holders(t)
  BY <1>1, <1>4, H2CallsStay
<1>6. H2TypeInv'
  BY <1>1, <1>3, <1>4 DEF H2TypeInv
<1>7. H2DialInv' /\ CohortInv'
  BY <1>1, <1>3, <1>4 DEF H2DialInv, CohortInv, H2!Closed
<1>8. RetireInv'
  BY <1>1, <1>3, <1>4, <1>5 DEF RetireInv, H2TypeInv
<1>9. OwnInv'
  <2> SUFFICES ASSUME NEW e \in H2!Dials, session'[e].wire # "none" /\ ~session'[e].closed
               PROVE  H2!OwnedBy(e)'
    BY DEF OwnInv
  <2>1. H2!OwnedBy(e)
    BY <1>1, <1>3, <1>4 DEF OwnInv
  <2> QED
    BY <1>1, <2>1 DEF H2!OwnedBy, H2!Closed
<1>10. UNCHANGED H2!Pool!vars
  <2>1. {t \in H2!Dials : session'[t].wire # "none" /\ ~session'[t].closed}
        = {t \in H2!Dials : session[t].wire # "none" /\ ~session[t].closed}
    BY <1>1, <1>4
  <2>2. [t \in H2!Dials |-> session'[t].auth] = [t \in H2!Dials |-> session[t].auth]
    BY <1>4
  <2> QED
    BY <1>1, <1>5, <2>1, <2>2 DEF H2!Pool!vars, H2!Closed, Holders
<1> QED
  BY <1>5, <1>6, <1>7, <1>8, <1>9, <1>10 DEF H2PoolInv

\* Close takes the connections out, closes them, and waits.
LEMMA H2CloseSteps ==
  ASSUME H2PoolInv, H2!CloseBegins \/ H2!CloseSessions \/ H2!CloseReturns
  PROVE  H2PoolInv' /\ (H2!Pool!Next \/ UNCHANGED H2!Pool!vars)
<1>1. UNCHANGED <<caller, gate, retired, dial, dialing, cohort, selection>>
  BY DEF H2!CloseBegins, H2!CloseSessions, H2!CloseReturns, H2!poolVars, H2!dialVars
<1>2. H2TypeInv /\ H2DialInv /\ CohortInv /\ H2CallInv /\ RetireInv /\ OwnInv /\ NoSession \notin H2!Dials
  BY PoolsAssumption DEF H2PoolInv, H2!Dials
<1>3. CohortInv'
  BY <1>1, <1>2 DEF CohortInv
<1>4. CASE H2!CloseBegins
  <2>1. /\ closer = "idle" /\ closer' = "closing" /\ doomed' = tracked
        /\ current' = NoSession /\ tracked' = {} /\ UNCHANGED session
    BY <1>4 DEF H2!CloseBegins
  <2>2. H2CallInv' /\ \A t : Holders(t)' = Holders(t)
    BY <1>1, <2>1, H2CallsStay
  <2>3. H2TypeInv' /\ H2DialInv'
    BY <1>1, <1>2, <2>1 DEF H2TypeInv, H2DialInv, H2!Closed
  <2>4. RetireInv'
    BY <1>1, <1>2, <2>1, <2>2 DEF RetireInv, H2TypeInv
  <2>5. OwnInv'
    BY <1>1, <1>2, <2>1 DEF OwnInv, H2!OwnedBy, H2!Closed
  <2>6. H2!Pool!Shut
    BY <1>1, <2>1, <2>2 DEF H2!Pool!Shut, H2!Closed, Holders
  <2> QED
    BY <1>3, <2>2, <2>3, <2>4, <2>5, <2>6 DEF H2PoolInv, H2!Pool!Next
<1>5. CASE H2!CloseSessions
  <2>1. /\ closer = "closing" /\ closer' = "waiting" /\ UNCHANGED <<current, tracked, doomed>>
        /\ session' = [s \in H2!Dials |-> IF s \in doomed THEN [session[s] EXCEPT !.closed = TRUE] ELSE session[s]]
    BY <1>5 DEF H2!CloseSessions
  <2>2. /\ session' \in [H2!Dials -> H2SessionRecord]
        /\ \A s \in H2!Dials : /\ session'[s].auth = session[s].auth
                               /\ session'[s].wire = session[s].wire
                               /\ s \in doomed => session'[s].closed
                               /\ s \notin doomed => session'[s] = session[s]
    <3>1. \A s \in H2!Dials : [session[s] EXCEPT !.closed = TRUE] \in H2SessionRecord
      BY <1>2 DEF H2TypeInv, H2SessionRecord
    <3>2. \A s \in H2!Dials : session[s] \in H2SessionRecord
      BY <1>2 DEF H2TypeInv
    <3>3. \A s \in H2!Dials : session'[s] \in H2SessionRecord
      BY <2>1, <3>1, <3>2
    <3>4. session' \in [H2!Dials -> H2SessionRecord]
      BY <2>1, <3>1, <3>2
    <3> QED
      BY <2>1, <3>2, <3>4 DEF H2SessionRecord
  <2>3. H2CallInv' /\ \A t : Holders(t)' = Holders(t)
    BY <1>1, <2>1, <2>2, H2CallsStay
  <2>4. H2TypeInv'
    BY <1>1, <1>2, <2>1, <2>2 DEF H2TypeInv
  <2>5. H2DialInv'
    <3>1. \A s \in doomed : session[s].auth # "none"
      BY <1>2 DEF RetireInv
    <3> QED
      BY <1>1, <1>2, <2>1, <2>2, <3>1 DEF H2DialInv, H2!Closed
  <2>6. RetireInv'
    BY <1>1, <1>2, <2>1, <2>2, <2>3 DEF RetireInv, H2TypeInv
  <2>7. OwnInv'
    BY <1>1, <1>2, <2>1, <2>2 DEF OwnInv, H2!OwnedBy, H2!Closed
  <2>8. PICK out : out = doomed \cap {t \in H2!Dials : session[t].wire # "none" /\ ~session[t].closed}
    OBVIOUS
  <2>9. H2!Pool!Closes(out)
    <3>1. {t \in H2!Dials : session'[t].wire # "none" /\ ~session'[t].closed}
          = {t \in H2!Dials : session[t].wire # "none" /\ ~session[t].closed} \ out
      BY <2>2, <2>8
    <3>2. [t \in H2!Dials |-> session'[t].auth] = [t \in H2!Dials |-> session[t].auth]
      BY <2>2
    <3>3. [t \in H2!Dials |-> Holders(t)'] = [t \in H2!Dials |-> Holders(t)]
      BY <2>3
    <3> QED
      BY <2>1, <2>8, <3>1, <3>2, <3>3 DEF H2!Pool!Closes, H2!Closed, Holders
  <2>10. out \in SUBSET H2!Dials
    BY <2>8
  <2> QED
    BY <1>3, <2>3, <2>4, <2>5, <2>6, <2>7, <2>9, <2>10 DEF H2PoolInv, H2!Pool!Next
<1>6. CASE H2!CloseReturns
  <2>1. /\ closer = "waiting" /\ closer' = "done" /\ H2!WorkersDone
        /\ UNCHANGED <<session, current, tracked, doomed>>
    BY <1>6 DEF H2!CloseReturns, H2!poolVars
  <2>2. H2CallInv' /\ \A t : Holders(t)' = Holders(t)
    BY <1>1, <2>1, H2CallsStay DEF H2!WorkersDone
  <2>3. H2TypeInv' /\ H2DialInv'
    BY <1>1, <1>2, <2>1 DEF H2TypeInv, H2DialInv, H2!Closed
  <2>4. RetireInv'
    BY <1>1, <1>2, <2>1, <2>2 DEF RetireInv, H2TypeInv
  <2>5. OwnInv'
    BY <1>1, <1>2, <2>1 DEF OwnInv, H2!OwnedBy, H2!Closed
  <2>6. UNCHANGED H2!Pool!vars
    BY <1>1, <2>1, <2>2 DEF H2!Pool!vars, H2!Closed, Holders
  <2> QED
    BY <1>3, <2>2, <2>3, <2>4, <2>5, <2>6 DEF H2PoolInv
<1> QED
  BY <1>4, <1>5, <1>6

\* A step of the pool keeps the invariant and is one of the abstract pool.
LEMMA H2PoolStep ==
  ASSUME H2PoolInv, [H2!Next]_H2!vars
  PROVE  H2PoolInv' /\ [H2!Pool!Next]_H2!Pool!vars
<1>1. CASE UNCHANGED H2!vars
  <2>1. UNCHANGED <<caller, gate, session, current, tracked, retired, dial, dialing, cohort, selection, closer, doomed>>
    BY <1>1 DEF H2!vars, H2!poolVars, H2!dialVars, H2!closeVars
  <2>2. H2TypeInv' /\ H2DialInv' /\ CohortInv'
    BY <2>1 DEF H2PoolInv, H2TypeInv, H2DialInv, CohortInv, H2!Closed
  <2>3. H2CallInv' /\ RetireInv' /\ OwnInv'
    BY <2>1 DEF H2PoolInv, H2CallInv, RetireInv, OwnInv, H2!OwnedBy, Holders, H2!Closed
  <2> QED
    BY <2>1, <2>2, <2>3 DEF H2PoolInv, H2!Pool!vars, H2!Closed
<1>2. ASSUME NEW c \in Callers, H2!Start(c) \/ H2!LeaveGate(c) \/ H2!Joined(c) \/ H2!Awaited(c) \/ H2!Enter(c)
      PROVE  H2PoolInv' /\ [H2!Pool!Next]_H2!Pool!vars
  BY <1>2, H2WaitSteps, EnterStep
<1>3. ASSUME NEW c \in Callers, H2!TakeGate(c) \/ H2!Inside(c) \/ H2!Inspect(c)
      PROVE  H2PoolInv' /\ [H2!Pool!Next]_H2!Pool!vars
  BY <1>3, TakeStep, InsideStep, InspectStep
<1>4. ASSUME NEW c \in Callers, H2!Decide(c)
      PROVE  H2PoolInv' /\ [H2!Pool!Next]_H2!Pool!vars
  BY <1>4, DecideStep
<1>5. ASSUME NEW c \in Callers, H2!LeadFails(c) \/ H2!LeadAnswered(c) \/ H2!FollowMisproved(c)
      PROVE  H2PoolInv' /\ [H2!Pool!Next]_H2!Pool!vars
  BY <1>5, H2ProofSteps
<1>6. ASSUME NEW c \in Callers,
             H2!FollowAnswered(c) \/ H2!Refused(c) \/ H2!Handoff(c) \/ H2!FollowUnsent(c) \/ H2!FollowFails(c)
      PROVE  H2PoolInv' /\ [H2!Pool!Next]_H2!Pool!vars
  BY <1>6, H2AnswerSteps
<1>7. ASSUME NEW c \in Callers, H2!Doom(c)
      PROVE  H2PoolInv' /\ [H2!Pool!Next]_H2!Pool!vars
  BY <1>7, H2DoomStep
<1>8. ASSUME NEW c \in Callers, H2!Finish(c) \/ H2!CloseStream(c)
      PROVE  H2PoolInv' /\ [H2!Pool!Next]_H2!Pool!vars
  BY <1>8, H2ReleaseStep
<1>9. ASSUME NEW c \in Callers, H2!Cancel(c)
      PROVE  H2PoolInv' /\ [H2!Pool!Next]_H2!Pool!vars
  BY <1>9, H2CancelStep
<1>10. ASSUME NEW d \in H2!Dials, H2!Worker(d)
       PROVE  H2PoolInv' /\ [H2!Pool!Next]_H2!Pool!vars
  BY <1>10, H2OpensStep, PublishSteps, H2CloseRetiredStep DEF H2!Worker
<1>11. ASSUME NEW d \in H2!Dials, H2!WireChanges(d)
       PROVE  H2PoolInv' /\ [H2!Pool!Next]_H2!Pool!vars
  BY <1>11, WireStep
<1>12. CASE H2!CloseBegins \/ H2!CloseSessions \/ H2!CloseReturns
  BY <1>12, H2CloseSteps
<1> QED
  BY <1>1, <1>2, <1>3, <1>4, <1>5, <1>6, <1>7, <1>8, <1>9, <1>10, <1>11, <1>12 DEF H2!Next, H2!Call

\* A behaviour of the composition is one of its H2 pool.
LEMMA H2Behaves == Spec => H2!Init /\ [][H2!Next]_H2!vars
<1>1. Init => H2!Init
  BY DEF Init
<1>2. [Next]_vars => [H2!Next]_H2!vars
  BY DEF Next, vars, h2Vars, H2!vars, H2!poolVars, H2!dialVars, H2!closeVars
<1> QED
  BY <1>1, <1>2, PTL DEF Spec

\* The inductive invariant holds in every state.
LEMMA H2Invariance == Spec => []H2PoolInv
<1>1. H2!Init => H2PoolInv
  BY H2InitInv
<1>2. H2PoolInv /\ [H2!Next]_H2!vars => H2PoolInv'
  BY H2PoolStep
<1> QED
  BY <1>1, <1>2, H2Behaves, PTL

\* A pool begins with connections that are ready.
LEMMA H2PoolInit == H2!Init => H2!Pool!Init
<1> SUFFICES ASSUME H2!Init PROVE H2!Pool!Init
  OBVIOUS
<1>1. /\ caller = [c \in Callers |-> H2!Outside("idle")]
      /\ closer = "idle"
      /\ \A s \in H2!Dials : /\ session[s].auth \in {"none", "ready"}
                             /\ session[s].wire # "none" /\ ~session[s].closed <=> session[s].auth = "ready"
  BY DEF H2!Init
<1>2. \A c \in Callers : caller[c].pc \notin Holding
  BY <1>1 DEF H2!Outside, Holding, H2!Opening
<1>3. \A s \in H2!Dials : Holders(s) = {}
  BY <1>2 DEF Holders, Holding
<1>4. {s \in H2!Dials : session[s].wire # "none" /\ ~session[s].closed}
      = {s \in H2!Dials : session[s].auth = "ready"}
  BY <1>1
<1> QED
  BY <1>1, <1>3, <1>4 DEF H2!Pool!Init, H2!Closed, Holders

\* Every behaviour is one of the abstract pool.
LEMMA H2Refinement == Spec => H2!ImplementsPool
<1>1. H2!Init => H2!Pool!Init
  BY H2PoolInit
<1>2. H2PoolInv /\ [H2!Next]_H2!vars => [H2!Pool!Next]_H2!Pool!vars
  BY H2PoolStep
<1> QED
  BY <1>1, <1>2, H2Invariance, H2Behaves, PTL DEF H2!ImplementsPool, H2!Pool!Spec

\* One connection is opened at a time, each open one has an owner, and Close
\* leaves nobody at work.
LEMMA H2Owned == H2PoolInv => H2!EveryConnectionOwned
<1> SUFFICES ASSUME H2PoolInv PROVE H2!EveryConnectionOwned
  OBVIOUS
<1>1. H2DialInv /\ OwnInv /\ H2CallInv
  BY DEF H2PoolInv
<1>2. Cardinality({d \in H2!Dials : dial[d] \in {"opening", "opened", "late"}}) <= 1
  <2>1. {d \in H2!Dials : dial[d] \in {"opening", "opened", "late"}} \subseteq {dialing}
    BY <1>1 DEF H2DialInv
  <2>2. IsFiniteSet({dialing}) /\ Cardinality({dialing}) = 1
    BY FS_Singleton
  <2>3. /\ IsFiniteSet({d \in H2!Dials : dial[d] \in {"opening", "opened", "late"}})
        /\ Cardinality({d \in H2!Dials : dial[d] \in {"opening", "opened", "late"}}) <= Cardinality({dialing})
    BY <2>1, <2>2, FS_Subset
  <2> QED
    BY <2>2, <2>3
<1> QED
  BY <1>1, <1>2, H2Count DEF H2!EveryConnectionOwned, OwnInv, H2CallInv
-----------------------------------------------------------------------------
(* The HTTP/3 pool. *)

H3Steps == {"idle", "select", "await", "check", "joining", "close", "returned"} \cup H3!Holding
\* The locals of a DialContext call.
H3CallRecord == [pc : H3Steps, on : 0..MaxDials, canceled : BOOLEAN]
H3Auths == {"none", "fresh", "bootstrapping", "ready", "failed"}
\* A webH3Session.
H3SessionRecord == [auth : H3Auths, retired : BOOLEAN]
Closers == {"idle", "closing", "waiting", "done"}

\* The types of the variables.
H3TypeInv ==
  /\ h3caller \in [Callers -> H3CallRecord]
  /\ h3session \in [H3!Dials -> H3SessionRecord]
  /\ dead \in [H3!Dials -> {"no", "peer", "local"}]
  /\ h3dial \in [H3!Dials -> {"none", "racing", "opened", "late", "done", "error"}]
  /\ h3dialing \in 0..MaxDials
  /\ winner \in [H3!Dials -> Addresses \cup {0}]
  /\ sockets \subseteq H3!Dials \X (Addresses \cup {0})
  /\ h3current \in H3!Dials \cup {NoSession}
  /\ watcher \in [H3!Dials -> {"none", "watching", "closing", "done"}]
  /\ h3closer \in Closers

\* One dial is at work, the one of c.dial; before it has opened a connection
\* there is nothing of one, and what opens too late is nobody's.
H3DialInv ==
  \A d \in H3!Dials :
    /\ h3dial[d] \in {"racing", "opened", "late"} => d = h3dialing
    /\ h3dial[d] \in {"none", "racing"} => h3session[d].auth = "none" /\ dead[d] = "no"
    /\ h3dial[d] \notin {"opened", "done"} => watcher[d] = "none"
    /\ h3dial[d] = "late" => H3!Closed
    /\ dead[d] = "peer" => h3dial[d] \in {"opened", "done"}

\* A socket is the winner's in its race, and then the connection's.
SocketInv ==
  \A d \in H3!Dials, a \in Addresses \cup {0} : <<d, a>> \in sockets =>
    \/ h3dial[d] = "racing" /\ a = winner[d] /\ a # 0
    \/ h3dial[d] = "late" /\ a = 0
    \/ watcher[d] \in {"watching", "closing"} /\ a = 0

\* What Close has waited for does not begin again.
DoneInv == h3closer = "done" => H3!WorkersDone

\* The pool, and what Close has taken out of it, are connections.
ConnsInv == \A s \in conns \cup h3doomed : s \in H3!Dials /\ h3session[s].auth # "none"

\* What a call is on, and what holds while it closes it.
H3CallInv ==
  \A c \in Callers :
    /\ h3caller[c].pc \in {"await", "check", "close"} \cup H3!Holding => h3caller[c].on \in H3!Dials
    /\ h3caller[c].pc \in {"close"} \cup H3!Holding => h3session[h3caller[c].on].auth # "none"
    /\ h3caller[c].pc = "doom" => h3session[h3caller[c].on].auth = "failed"
    /\ h3caller[c].pc = "close" => /\ h3session[h3caller[c].on].retired
                                   /\ H3!Users(h3caller[c].on) = {}

\* The inductive invariant.
H3PoolInv == H3TypeInv /\ H3DialInv /\ SocketInv /\ DoneInv /\ ConnsInv /\ H3CallInv
-----------------------------------------------------------------------------
\* It holds of a new client, and of one that has a ready connection.
LEMMA H3InitInv == H3!Init => H3PoolInv
<1> SUFFICES ASSUME H3!Init PROVE H3PoolInv
  OBVIOUS
<1> DEFINE had == {s \in H3!Dials : s = h3current}
<1>1. /\ h3caller = [c \in Callers |-> [pc |-> "idle", on |-> 0, canceled |-> FALSE]]
      /\ h3current \in {NoSession, 1} /\ h3dialing = 0 /\ h3closer = "idle"
      /\ dead = [s \in H3!Dials |-> "no"] /\ winner = [d \in H3!Dials |-> 0]
      /\ sockets = had \X {0}
      /\ h3dial = [d \in H3!Dials |-> IF d \in had THEN "done" ELSE "none"]
      /\ h3session = [s \in H3!Dials |-> [auth |-> IF s \in had THEN "ready" ELSE "none", retired |-> FALSE]]
      /\ watcher = [s \in H3!Dials |-> IF s \in had THEN "watching" ELSE "none"]
      /\ conns = had /\ h3doomed = {}
  BY DEF H3!Init
<1>2. had \subseteq H3!Dials
  OBVIOUS
<1> HIDE DEF had
<1>3. [pc |-> "idle", on |-> 0, canceled |-> FALSE] \in H3CallRecord
  <2>1. 0 \in 0..MaxDials /\ "idle" \in H3Steps
    BY PoolsAssumption DEF H3Steps
  <2> QED
    BY <2>1 DEF H3CallRecord
<1>4. \A s \in H3!Dials :
        [auth |-> IF s \in had THEN "ready" ELSE "none", retired |-> FALSE] \in H3SessionRecord
  BY DEF H3SessionRecord, H3Auths
<1>5. H3TypeInv
  <2>1. h3caller \in [Callers -> H3CallRecord] /\ h3session \in [H3!Dials -> H3SessionRecord]
    BY <1>1, <1>3, <1>4
  <2>2. h3current \in H3!Dials \cup {NoSession}
    BY <1>1, PoolsAssumption DEF H3!Dials
  <2>3. /\ h3dialing \in 0..MaxDials /\ h3closer \in Closers
        /\ winner \in [H3!Dials -> Addresses \cup {0}]
        /\ dead \in [H3!Dials -> {"no", "peer", "local"}]
    BY <1>1, PoolsAssumption DEF Closers
  <2>4. sockets \subseteq H3!Dials \X (Addresses \cup {0})
    BY <1>1, <1>2
  <2>5. /\ h3dial \in [H3!Dials -> {"none", "racing", "opened", "late", "done", "error"}]
        /\ watcher \in [H3!Dials -> {"none", "watching", "closing", "done"}]
    BY <1>1
  <2> QED
    BY <2>1, <2>2, <2>3, <2>4, <2>5 DEF H3TypeInv
<1>6. H3DialInv
  BY <1>1 DEF H3DialInv
<1>7. SocketInv
  BY <1>1, <1>2 DEF SocketInv
<1>8. DoneInv /\ H3CallInv /\ ConnsInv
  BY <1>1, <1>2 DEF DoneInv, H3CallInv, ConnsInv, H3!Holding
<1> QED
  BY <1>5, <1>6, <1>7, <1>8 DEF H3PoolInv

\* Setting the authentication of one session.
LEMMA AuthSet ==
  ASSUME h3session \in [H3!Dials -> H3SessionRecord], NEW s \in H3!Dials, NEW x \in H3Auths,
         h3session' = [h3session EXCEPT ![s].auth = x]
  PROVE  /\ h3session' \in [H3!Dials -> H3SessionRecord]
         /\ h3session'[s].auth = x /\ h3session'[s].retired = h3session[s].retired
         /\ \A d \in H3!Dials : d # s => h3session'[d] = h3session[d]
BY DEF H3SessionRecord

\* Who holds a connection, after one call has moved.
LEMMA UsersMove ==
  ASSUME H3TypeInv, NEW c \in Callers, h3caller' \in [Callers -> H3CallRecord],
         \A d \in Callers : d # c => h3caller'[d] = h3caller[d]
  PROVE  \A s \in H3!Dials :
           /\ (h3caller'[c].pc \in H3!Holding /\ h3caller'[c].on = s
               <=> h3caller[c].pc \in H3!Holding /\ h3caller[c].on = s) => H3!Users(s)' = H3!Users(s)
           /\ h3caller'[c].pc \in H3!Holding /\ h3caller'[c].on = s => H3!Users(s)' = H3!Users(s) \cup {c}
           /\ ~(h3caller'[c].pc \in H3!Holding /\ h3caller'[c].on = s) => H3!Users(s)' = H3!Users(s) \ {c}
BY DEF H3!Users

\* The dials and sockets do not care for a step that touches only sessions that
\* have been opened.
LEMMA DialKept ==
  ASSUME H3PoolInv, UNCHANGED <<H3!dialVars, sockets, watcher, h3closer>>,
         \A s \in H3!Dials : h3session[s].auth = "none" =>
           h3session'[s].auth = "none" /\ dead'[s] = dead[s],
         \A s \in H3!Dials : dead'[s] = "peer" => dead[s] = "peer"
  PROVE  H3DialInv' /\ SocketInv' /\ DoneInv'
<1>1. H3DialInv'
  BY DEF H3PoolInv, H3DialInv, H3!dialVars, H3!raceVars, H3!Closed
<1>2. SocketInv' /\ DoneInv'
  BY DEF H3PoolInv, SocketInv, DoneInv, H3!dialVars, H3!raceVars, H3!WorkersDone
<1> QED
  BY <1>1, <1>2

\* What a call relies on outlasts the steps of others: nobody joins a retired
\* connection, and a failed one stays failed.
LEMMA CallKept ==
  ASSUME H3PoolInv, NEW c \in Callers, h3caller' \in [Callers -> H3CallRecord],
         \A d \in Callers : d # c => h3caller'[d] = h3caller[d],
         \A s \in H3!Dials :
           /\ h3session[s].auth # "none" => h3session'[s].auth # "none"
           /\ h3session[s].auth = "failed" => h3session'[s].auth = "failed"
           /\ h3session[s].retired =>
                h3session'[s].retired /\ H3!Users(s)' \subseteq H3!Users(s),
         /\ h3caller'[c].pc \in {"await", "check", "close"} \cup H3!Holding => h3caller'[c].on \in H3!Dials
         /\ h3caller'[c].pc \in {"close"} \cup H3!Holding => h3session'[h3caller'[c].on].auth # "none"
         /\ h3caller'[c].pc = "doom" => h3session'[h3caller'[c].on].auth = "failed"
         /\ h3caller'[c].pc = "close" => /\ h3session'[h3caller'[c].on].retired
                                         /\ \A s \in H3!Dials : s = h3caller'[c].on => H3!Users(s)' = {}
  PROVE  H3CallInv'
<1>1. /\ \A d \in Callers : d # c =>
           /\ h3caller[d].pc \in {"await", "check", "close"} \cup H3!Holding => h3caller[d].on \in H3!Dials
           /\ h3caller[d].pc \in {"close"} \cup H3!Holding => h3session[h3caller[d].on].auth # "none"
           /\ h3caller[d].pc = "doom" => h3session[h3caller[d].on].auth = "failed"
           /\ h3caller[d].pc = "close" => h3session[h3caller[d].on].retired /\ H3!Users(h3caller[d].on) = {}
  BY DEF H3PoolInv, H3CallInv
<1>2. "doom" \in H3!Holding
  BY DEF H3!Holding
<1> SUFFICES ASSUME NEW d \in Callers
             PROVE  /\ h3caller'[d].pc \in {"await", "check", "close"} \cup H3!Holding => h3caller'[d].on \in H3!Dials
                    /\ h3caller'[d].pc \in {"close"} \cup H3!Holding => h3session'[h3caller'[d].on].auth # "none"
                    /\ h3caller'[d].pc = "doom" => h3session'[h3caller'[d].on].auth = "failed"
                    /\ h3caller'[d].pc = "close" => /\ h3session'[h3caller'[d].on].retired
                                                    /\ \A s \in H3!Dials : s = h3caller'[d].on => H3!Users(s)' = {}
  BY DEF H3CallInv, H3!Holding, H3!Dials, H3!Users
<1>3. CASE d = c
  BY <1>3
<1>4. CASE d # c
  <2>1. h3caller'[d] = h3caller[d]
    BY <1>4
  <2>2. h3caller[d].pc = "close" =>
          \A s \in H3!Dials : s = h3caller[d].on => H3!Users(s)' = {}
    BY <1>1, <1>4
  <2> QED
    BY <1>1, <1>2, <1>4, <2>1, <2>2
<1> QED
  BY <1>3, <1>4

\* The least of a set of dials.
LEMMA FirstOf ==
  ASSUME NEW S \in SUBSET H3!Dials, S # {}
  PROVE  H3!First(S) \in S
<1>1. S \subseteq Nat
  BY PoolsAssumption DEF H3!Dials
<1>2. PICK x \in S : \A y \in S : ~(<<y, x>> \in OpToRel(<, Nat))
  BY <1>1, NatLessThanWellFounded, WFMin
<1>3. ASSUME NEW y \in S PROVE x <= y
  <2>1. x \in Nat /\ y \in Nat
    BY <1>1
  <2>2. ~(y < x)
    BY <1>2, <2>1 DEF OpToRel
  <2> QED
    BY <2>1, <2>2
<1> QED
  BY <1>3 DEF H3!First

\* The record a call becomes, and what stays of the others'.
LEMMA Goes ==
  ASSUME H3TypeInv, NEW c \in Callers, NEW pc \in H3Steps, NEW s \in 0..MaxDials,
         H3!Go(c, pc, s) \/ (H3!Set(c, pc) /\ s = h3caller[c].on)
  PROVE  /\ h3caller' \in [Callers -> H3CallRecord]
         /\ \A d \in Callers : d # c => h3caller'[d] = h3caller[d]
         /\ h3caller'[c].pc = pc /\ h3caller'[c].on = s
<1>1. h3caller \in [Callers -> H3CallRecord] /\ h3caller[c] \in H3CallRecord
  BY DEF H3TypeInv
<1>2. CASE H3!Go(c, pc, s)
  <2> DEFINE r == [pc |-> pc, on |-> s, canceled |-> h3caller[c].canceled /\ pc # "returned"]
  <2>1. r \in H3CallRecord
    BY DEF H3CallRecord
  <2>2. h3caller' = [h3caller EXCEPT ![c] = r]
    BY <1>2 DEF H3!Go
  <2>3. r.pc = pc /\ r.on = s
    OBVIOUS
  <2> HIDE DEF r
  <2> QED
    BY <1>1, <2>1, <2>2, <2>3
<1>3. CASE H3!Set(c, pc) /\ s = h3caller[c].on
  BY <1>1, <1>3 DEF H3!Set, H3CallRecord
<1> QED
  BY <1>2, <1>3

\* A step of a call that holds nothing before or after it.
LEMMA OutsideStep ==
  ASSUME H3PoolInv, NEW c \in Callers, NEW pc \in H3Steps, NEW s \in 0..MaxDials,
         H3!Go(c, pc, s) \/ (H3!Set(c, pc) /\ s = h3caller[c].on),
         UNCHANGED <<h3session, dead, h3closer>>,
         h3caller[c].pc \notin H3!Holding, pc \notin H3!Holding \cup {"close"},
         pc \in {"await", "check"} => s \in H3!Dials
  PROVE  H3CallInv' /\ UNCHANGED H3!Pool!vars /\ h3caller' \in [Callers -> H3CallRecord]
<1>1. /\ h3caller' \in [Callers -> H3CallRecord]
      /\ \A d \in Callers : d # c => h3caller'[d] = h3caller[d]
      /\ h3caller'[c].pc = pc /\ h3caller'[c].on = s
  BY Goes DEF H3PoolInv
<1>2. \A t \in H3!Dials : H3!Users(t)' = H3!Users(t)
  BY <1>1, UsersMove DEF H3PoolInv
<1>3. UNCHANGED H3!Pool!vars
  BY <1>2 DEF H3!Pool!vars, H3!Closed
<1>4. pc \notin {"close"} \cup H3!Holding /\ pc # "doom" /\ pc # "close"
  BY DEF H3!Holding
<1>5. H3CallInv'
  BY <1>1, <1>2, <1>4, CallKept
<1> QED
  BY <1>1, <1>3, <1>5

\* Calls that begin, wait and give up.
LEMMA H3WaitSteps ==
  ASSUME H3PoolInv, NEW c \in Callers, H3!Start(c) \/ H3!Awaited(c) \/ H3!Joined(c)
  PROVE  H3PoolInv' /\ UNCHANGED H3!Pool!vars
<1>1. /\ UNCHANGED <<H3!dialVars, H3!poolVars, H3!rest>>
      /\ h3caller[c].pc \notin H3!Holding
  BY DEF H3!Start, H3!Awaited, H3!Joined, H3!Holding
<1>2. h3caller[c] \in H3CallRecord /\ 0 \in 0..MaxDials
  BY PoolsAssumption DEF H3PoolInv, H3TypeInv
<1>3. PICK pc \in {"select", "returned", "check"}, s \in 0..MaxDials :
        /\ H3!Go(c, pc, s) \/ (H3!Set(c, pc) /\ s = h3caller[c].on)
        /\ pc = "check" => h3caller[c].pc = "await" /\ s = h3caller[c].on
  <2>0. h3caller[c].on \in 0..MaxDials
    BY <1>2 DEF H3CallRecord
  <2>1. CASE H3!Set(c, "select")
    BY <2>0, <2>1
  <2>2. CASE H3!Go(c, "returned", 0) \/ H3!Go(c, "select", 0)
    BY <1>2, <2>2
  <2>3. CASE H3!Set(c, "check") /\ h3caller[c].pc = "await"
    BY <2>0, <2>3
  <2> QED
    BY <2>1, <2>2, <2>3 DEF H3!Start, H3!Awaited, H3!Joined
<1>4. pc \in {"await", "check"} => s \in H3!Dials
  BY <1>3 DEF H3PoolInv, H3CallInv
<1>5. pc \in H3Steps /\ pc \notin H3!Holding \cup {"close"}
  BY <1>3 DEF H3Steps, H3!Holding
<1>6. H3CallInv' /\ UNCHANGED H3!Pool!vars /\ h3caller' \in [Callers -> H3CallRecord]
  BY <1>1, <1>3, <1>4, <1>5, OutsideStep DEF H3!poolVars, H3!rest, H3!closeVars
<1>7. H3DialInv' /\ SocketInv' /\ DoneInv'
  BY <1>1, DialKept DEF H3!poolVars, H3!rest, H3!closeVars
<1>8. H3TypeInv' /\ ConnsInv'
  BY <1>1, <1>6 DEF H3PoolInv, H3TypeInv, ConnsInv, H3!poolVars, H3!rest, H3!closeVars, H3!dialVars, H3!raceVars
<1> QED
  BY <1>6, <1>7, <1>8 DEF H3PoolInv

\* A call selects the current connection or a dial, which it may have to begin.
LEMMA SelectStep ==
  ASSUME H3PoolInv, NEW c \in Callers, H3!Select(c)
  PROVE  H3PoolInv' /\ UNCHANGED H3!Pool!vars
<1>1. /\ UNCHANGED <<H3!poolVars, H3!rest>> /\ h3caller[c].pc = "select"
      /\ h3caller[c].pc \notin H3!Holding
  BY DEF H3!Select, H3!Holding
<1>2. 0 \in 0..MaxDials /\ H3!Dials \subseteq 0..MaxDials /\ h3dialing \in 0..MaxDials
      /\ h3current \in H3!Dials \cup {NoSession}
  BY PoolsAssumption DEF H3PoolInv, H3TypeInv, H3!Dials
<1>3. {"returned", "check", "await"} \subseteq H3Steps
      /\ {"returned", "check", "await"} \cap (H3!Holding \cup {"close"}) = {}
  BY DEF H3Steps, H3!Holding
<1>0. ConnsInv'
  BY <1>1 DEF H3PoolInv, ConnsInv, H3!poolVars, H3!rest, H3!closeVars
<1>4. CASE UNCHANGED H3!dialVars
  <2>1. PICK pc \in {"returned", "check", "await"}, s \in 0..MaxDials :
          H3!Go(c, pc, s) /\ (pc # "returned" => s \in H3!Dials)
    <3>1. CASE H3!Stopped(c)
      BY <1>2, <3>1 DEF H3!Select
    <3>2. CASE ~H3!Stopped(c) /\ H3!Live
      BY <1>2, <3>2 DEF H3!Select, H3!Live
    <3>3. CASE ~H3!Stopped(c) /\ ~H3!Live /\ h3dialing # 0
      <4>1. h3dialing \in H3!Dials
        BY <1>2, <3>3, PoolsAssumption DEF H3!Dials
      <4> QED
        BY <1>2, <3>3, <4>1 DEF H3!Select
    <3>4. CASE ~H3!Stopped(c) /\ ~H3!Live /\ h3dialing = 0
      <4>1. h3dialing' = H3!First(H3!Unstarted) /\ H3!Unstarted # {} /\ H3!Unstarted \subseteq H3!Dials
        BY <3>4 DEF H3!Select, H3!Unstarted
      <4>2. H3!First(H3!Unstarted) \in H3!Dials
        BY <4>1, FirstOf
      <4> QED
        BY <1>4, <3>4, <4>1, <4>2, PoolsAssumption DEF H3!dialVars, H3!Dials
    <3> QED
      BY <3>1, <3>2, <3>3, <3>4
  <2>2. H3CallInv' /\ UNCHANGED H3!Pool!vars /\ h3caller' \in [Callers -> H3CallRecord]
    <3>1. pc \in H3Steps /\ pc \notin H3!Holding \cup {"close"}
      BY <1>3
    <3>2. UNCHANGED <<h3session, dead, h3closer>>
      BY <1>1 DEF H3!poolVars, H3!rest, H3!closeVars
    <3>3. pc \in {"await", "check"} => s \in H3!Dials
      BY <2>1
    <3> QED
      BY <1>1, <2>1, <3>1, <3>2, <3>3, OutsideStep
  <2>3. H3DialInv' /\ SocketInv' /\ DoneInv'
    BY <1>1, <1>4, DialKept DEF H3!poolVars, H3!rest, H3!closeVars
  <2>4. H3TypeInv'
    BY <1>1, <1>4, <2>2 DEF H3PoolInv, H3TypeInv, H3!poolVars, H3!rest, H3!closeVars, H3!dialVars, H3!raceVars
  <2> QED
    BY <1>0, <2>2, <2>3, <2>4 DEF H3PoolInv
<1>5. CASE ~UNCHANGED H3!dialVars
  <2>1. PICK d : d = H3!First(H3!Unstarted)
    OBVIOUS
  <2>2. /\ ~H3!Closed /\ h3dialing = 0 /\ h3dialing' = d /\ H3!Unstarted # {}
        /\ h3dial' = [h3dial EXCEPT ![d] = "racing"]
        /\ UNCHANGED winner /\ H3!Go(c, "await", d)
    BY <1>5, <2>1 DEF H3!Select, H3!Stopped
  <2>3. d \in H3!Dials /\ h3dial[d] = "none"
    BY <2>1, <2>2, FirstOf DEF H3!Unstarted
  <2>4. H3CallInv' /\ UNCHANGED H3!Pool!vars /\ h3caller' \in [Callers -> H3CallRecord]
    <3>1. "await" \in H3Steps /\ "await" \notin H3!Holding \cup {"close"} /\ d \in 0..MaxDials
      BY <1>2, <1>3, <2>3
    <3>2. UNCHANGED <<h3session, dead, h3closer>>
      BY <1>1 DEF H3!poolVars, H3!rest, H3!closeVars
    <3> QED
      BY <1>1, <2>2, <2>3, <3>1, <3>2, OutsideStep
  <2>5. /\ h3dial' \in [H3!Dials -> {"none", "racing", "opened", "late", "done", "error"}]
        /\ h3dial'[d] = "racing" /\ \A e \in H3!Dials : e # d => h3dial'[e] = h3dial[e]
    BY <2>2, <2>3 DEF H3PoolInv, H3TypeInv
  <2>6. H3TypeInv'
    BY <1>1, <1>2, <2>2, <2>3, <2>4, <2>5
       DEF H3PoolInv, H3TypeInv, H3!poolVars, H3!rest, H3!closeVars
  <2>7. \A e \in H3!Dials : h3dial[e] \notin {"racing", "opened", "late"}
    BY <2>2, PoolsAssumption DEF H3PoolInv, H3DialInv, H3!Dials
  <2>8. H3DialInv'
    BY <1>1, <2>2, <2>3, <2>5, <2>7 DEF H3PoolInv, H3DialInv, H3!poolVars, H3!rest, H3!closeVars, H3!Closed
  <2>9. SocketInv'
    BY <1>1, <2>2, <2>3, <2>5, <2>7 DEF H3PoolInv, SocketInv, H3DialInv, H3!poolVars, H3!rest, H3!closeVars
  <2>10. DoneInv'
    BY <1>1, <2>2 DEF DoneInv, H3!rest, H3!closeVars, H3!Closed
  <2> QED
    BY <1>0, <2>4, <2>6, <2>8, <2>9, <2>10 DEF H3PoolInv
<1> QED
  BY <1>4, <1>5

\* A step of a call with its connection: the dials and Close go on untouched.
LEMMA CallStep ==
  ASSUME H3PoolInv, NEW c \in Callers, NEW pc \in H3Steps, NEW s \in 0..MaxDials,
         H3!Go(c, pc, s) \/ (H3!Set(c, pc) /\ s = h3caller[c].on),
         UNCHANGED <<H3!dialVars, H3!rest, conns>>,
         h3session' \in [H3!Dials -> H3SessionRecord], dead' \in [H3!Dials -> {"no", "peer", "local"}],
         h3current' \in H3!Dials \cup {NoSession},
         \A t \in H3!Dials :
           /\ h3session[t].auth = "none" => h3session'[t].auth = "none" /\ dead'[t] = dead[t]
           /\ h3session[t].auth # "none" => h3session'[t].auth # "none"
           /\ h3session[t].auth = "failed" => h3session'[t].auth = "failed"
           /\ h3session[t].retired => h3session'[t].retired
           /\ dead'[t] = "peer" => dead[t] = "peer",
         pc \in {"await", "check", "close"} \cup H3!Holding => s \in H3!Dials,
         pc \in H3!Holding /\ h3caller[c].pc \notin H3!Holding => ~h3session[s].retired,
         pc \in H3!Holding /\ h3caller[c].pc \in H3!Holding => s = h3caller[c].on,
         pc \in {"close"} \cup H3!Holding => h3session'[s].auth # "none",
         pc = "doom" => h3session'[s].auth = "failed",
         pc = "close" => h3session'[s].retired /\ H3!Users(s) \subseteq {c}
  PROVE  /\ H3PoolInv'
         /\ \A t \in H3!Dials :
              /\ (pc \in H3!Holding /\ s = t <=> h3caller[c].pc \in H3!Holding /\ h3caller[c].on = t)
                   => H3!Users(t)' = H3!Users(t)
              /\ pc \in H3!Holding /\ s = t => H3!Users(t)' = H3!Users(t) \cup {c}
              /\ ~(pc \in H3!Holding /\ s = t) => H3!Users(t)' = H3!Users(t) \ {c}
<1>1. /\ h3caller' \in [Callers -> H3CallRecord]
      /\ \A d \in Callers : d # c => h3caller'[d] = h3caller[d]
      /\ h3caller'[c].pc = pc /\ h3caller'[c].on = s
  BY Goes DEF H3PoolInv
<1>2. \A t \in H3!Dials :
        /\ (pc \in H3!Holding /\ s = t <=> h3caller[c].pc \in H3!Holding /\ h3caller[c].on = t)
             => H3!Users(t)' = H3!Users(t)
        /\ pc \in H3!Holding /\ s = t => H3!Users(t)' = H3!Users(t) \cup {c}
        /\ ~(pc \in H3!Holding /\ s = t) => H3!Users(t)' = H3!Users(t) \ {c}
  BY <1>1, UsersMove DEF H3PoolInv
<1>3. \A t \in H3!Dials : h3session[t].retired => h3session'[t].retired /\ H3!Users(t)' \subseteq H3!Users(t)
  <2> SUFFICES ASSUME NEW t \in H3!Dials, h3session[t].retired PROVE H3!Users(t)' \subseteq H3!Users(t)
    OBVIOUS
  <2>1. CASE pc \in H3!Holding /\ s = t
    <3>1. h3caller[c].pc \in H3!Holding /\ h3caller[c].on = t
      BY <2>1
    <3> QED
      BY <1>2, <2>1, <3>1
  <2>2. CASE ~(pc \in H3!Holding /\ s = t)
    BY <1>2, <2>2
  <2> QED
    BY <2>1, <2>2
<1>4. pc = "close" => pc \notin H3!Holding /\ \A t \in H3!Dials : t = s => H3!Users(t)' = {}
  <2>1. "close" \notin H3!Holding
    BY DEF H3!Holding
  <2>2. ASSUME pc = "close", NEW t \in H3!Dials, t = s PROVE H3!Users(t)' = {}
    <3>1. H3!Users(t)' = H3!Users(t) \ {c}
      BY <1>2, <2>1, <2>2
    <3>2. H3!Users(t) \subseteq {c}
      BY <2>2
    <3> QED
      BY <3>1, <3>2
  <2> QED
    BY <2>1, <2>2
<1>5. H3CallInv'
  BY <1>1, <1>3, <1>4, CallKept
<1>6. H3DialInv' /\ SocketInv' /\ DoneInv'
  BY DialKept DEF H3!rest, H3!closeVars
<1>7. H3TypeInv'
  BY <1>1 DEF H3PoolInv, H3TypeInv, H3!rest, H3!closeVars, H3!dialVars, H3!raceVars
<1>8. ConnsInv'
  BY DEF H3PoolInv, ConnsInv, H3!rest, H3!closeVars
<1> QED
  BY <1>2, <1>5, <1>6, <1>7, <1>8 DEF H3PoolInv

\* Before it is used, what was selected is looked at again.
LEMMA CheckStep ==
  ASSUME H3PoolInv, NEW c \in Callers, H3!Check(c)
  PROVE  H3PoolInv' /\ (H3!Pool!Next \/ UNCHANGED H3!Pool!vars)
<1> PICK s : s = h3caller[c].on
  OBVIOUS
<1>1. /\ UNCHANGED <<H3!dialVars, dead, h3current, conns, H3!rest>>
      /\ h3caller[c].pc = "check" /\ h3caller[c].pc \notin H3!Holding
  BY DEF H3!Check, H3!Holding
<1>2. s \in H3!Dials /\ s \in 0..MaxDials /\ 0 \in 0..MaxDials /\ h3session[s].auth \in H3Auths
      /\ h3session[s] \in H3SessionRecord
  BY <1>1, PoolsAssumption DEF H3PoolInv, H3CallInv, H3TypeInv, H3!Dials, H3SessionRecord
<1>3. {"returned", "select", "joining"} \subseteq H3Steps /\ {"lead", "follow"} \subseteq H3Steps
      /\ {"returned", "select", "joining"} \cap (H3!Holding \cup {"close"}) = {}
      /\ {"lead", "follow"} \subseteq H3!Holding
  BY DEF H3Steps, H3!Holding
<1>4. H3TypeInv
  BY DEF H3PoolInv
<1>5. CASE UNCHANGED h3session /\ \E pc \in {"returned", "select", "joining"}, t \in {0, s} :
             H3!Go(c, pc, t) \/ (H3!Set(c, pc) /\ t = h3caller[c].on)
  <2> PICK pc \in {"returned", "select", "joining"}, t \in {0, s} :
             H3!Go(c, pc, t) \/ (H3!Set(c, pc) /\ t = h3caller[c].on)
    BY <1>5
  <2>1. pc \in H3Steps /\ pc \notin H3!Holding \cup {"close"} /\ t \in 0..MaxDials
    BY <1>2, <1>3
  <2>2. pc \notin {"await", "check"}
    OBVIOUS
  <2>3. H3CallInv' /\ UNCHANGED H3!Pool!vars /\ h3caller' \in [Callers -> H3CallRecord]
    BY <1>1, <1>5, <2>1, <2>2, OutsideStep DEF H3!rest, H3!closeVars
  <2>4. H3DialInv' /\ SocketInv' /\ DoneInv'
    BY <1>1, <1>5, DialKept DEF H3!rest, H3!closeVars
  <2>5. H3TypeInv' /\ ConnsInv'
    BY <1>1, <1>5, <2>3 DEF H3PoolInv, H3TypeInv, ConnsInv, H3!rest, H3!closeVars, H3!dialVars, H3!raceVars
  <2> QED
    BY <2>3, <2>4, <2>5 DEF H3PoolInv
<1>6. CASE /\ H3!Set(c, "lead") /\ h3session[s].auth = "fresh" /\ ~H3!Closed /\ ~h3session[s].retired
           /\ h3session' = [h3session EXCEPT ![s].auth = "bootstrapping"]
  <2>1. /\ h3session' \in [H3!Dials -> H3SessionRecord]
        /\ h3session'[s].auth = "bootstrapping" /\ h3session'[s].retired = h3session[s].retired
        /\ \A d \in H3!Dials : d # s => h3session'[d] = h3session[d]
    BY <1>2, <1>4, <1>6, AuthSet DEF H3TypeInv, H3Auths
  <2>2. H3PoolInv' /\ \A t \in H3!Dials :
              /\ s = t => H3!Users(t)' = H3!Users(t) \cup {c}
              /\ s # t => H3!Users(t)' = H3!Users(t)
    <3>1. "lead" \in H3Steps /\ "lead" \in H3!Holding /\ "lead" # "doom" /\ "lead" # "close"
      BY <1>3
    <3>2. /\ dead' \in [H3!Dials -> {"no", "peer", "local"}]
          /\ h3current' \in H3!Dials \cup {NoSession}
      BY <1>1, <1>4 DEF H3TypeInv
    <3>3. /\ H3PoolInv'
          /\ \A t \in H3!Dials :
              /\ ("lead" \in H3!Holding /\ s = t <=> h3caller[c].pc \in H3!Holding /\ h3caller[c].on = t)
                   => H3!Users(t)' = H3!Users(t)
              /\ "lead" \in H3!Holding /\ s = t => H3!Users(t)' = H3!Users(t) \cup {c}
              /\ ~("lead" \in H3!Holding /\ s = t) => H3!Users(t)' = H3!Users(t) \ {c}
      BY <1>1, <1>2, <1>6, <2>1, <3>1, <3>2, CallStep
    <3> QED
      BY <1>1, <3>1, <3>3
  <2>3. H3!Pool!Lead(s, c)
    <3>1. [t \in H3!Dials |-> h3session'[t].auth] = [[t \in H3!Dials |-> h3session[t].auth] EXCEPT ![s] = "bootstrapping"]
      BY <1>2, <2>1
    <3>2. [t \in H3!Dials |-> H3!Users(t)'] = [[t \in H3!Dials |-> H3!Users(t)] EXCEPT ![s] = H3!Users(s) \cup {c}]
      BY <1>2, <2>2
    <3>3. {t \in H3!Dials : h3session'[t].auth # "none" /\ dead'[t] = "no"}
          = {t \in H3!Dials : h3session[t].auth # "none" /\ dead[t] = "no"}
      BY <1>1, <1>6, <2>1
    <3> QED
      BY <1>1, <1>2, <1>6, <3>1, <3>2, <3>3 DEF H3!Pool!Lead, H3!Closed, H3!rest, H3!closeVars
  <2> QED
    BY <1>2, <2>2, <2>3 DEF H3!Pool!Next
<1>7. CASE H3!Set(c, "follow") /\ h3session[s].auth = "ready" /\ ~H3!Closed /\ ~h3session[s].retired /\ UNCHANGED h3session
  <2>2. H3PoolInv' /\ \A t \in H3!Dials :
              /\ s = t => H3!Users(t)' = H3!Users(t) \cup {c}
              /\ s # t => H3!Users(t)' = H3!Users(t)
    <3>1. "follow" \in H3Steps /\ "follow" \in H3!Holding /\ "follow" # "doom" /\ "follow" # "close"
      BY <1>3
    <3>2. /\ dead' \in [H3!Dials -> {"no", "peer", "local"}]
          /\ h3current' \in H3!Dials \cup {NoSession} /\ h3session' \in [H3!Dials -> H3SessionRecord]
      BY <1>1, <1>4, <1>7 DEF H3TypeInv
    <3>3. /\ H3PoolInv'
          /\ \A t \in H3!Dials :
              /\ ("follow" \in H3!Holding /\ s = t <=> h3caller[c].pc \in H3!Holding /\ h3caller[c].on = t)
                   => H3!Users(t)' = H3!Users(t)
              /\ "follow" \in H3!Holding /\ s = t => H3!Users(t)' = H3!Users(t) \cup {c}
              /\ ~("follow" \in H3!Holding /\ s = t) => H3!Users(t)' = H3!Users(t) \ {c}
      BY <1>1, <1>2, <1>7, <3>1, <3>2, CallStep
    <3> QED
      BY <1>1, <3>1, <3>3
  <2>3. H3!Pool!Join(s, c)
    <3>2. [t \in H3!Dials |-> H3!Users(t)'] = [[t \in H3!Dials |-> H3!Users(t)] EXCEPT ![s] = H3!Users(s) \cup {c}]
      BY <1>2, <2>2
    <3> QED
      BY <1>1, <1>2, <1>7, <3>2 DEF H3!Pool!Join, H3!Closed, H3!rest, H3!closeVars
  <2> QED
    BY <1>2, <2>2, <2>3 DEF H3!Pool!Next
<1>8. CASE H3!Stopped(c)
  BY <1>5, <1>8 DEF H3!Check
<1>9. CASE ~H3!Stopped(c) /\ (~H3!StillGood(s) \/ h3session[s].auth = "failed")
  BY <1>5, <1>9 DEF H3!Check
<1>10. CASE ~H3!Stopped(c) /\ H3!StillGood(s) /\ h3session[s].auth # "failed" /\ h3session[s].auth = "fresh"
  BY <1>6, <1>10 DEF H3!Check, H3!Stopped, H3!StillGood
<1>11. CASE ~H3!Stopped(c) /\ H3!StillGood(s) /\ h3session[s].auth # "failed" /\ h3session[s].auth = "ready"
  BY <1>7, <1>11 DEF H3!Check, H3!Stopped, H3!StillGood
<1>12. CASE ~H3!Stopped(c) /\ H3!StillGood(s) /\ h3session[s].auth \notin {"failed", "fresh", "ready"}
  BY <1>5, <1>12 DEF H3!Check
<1> QED
  BY <1>8, <1>9, <1>10, <1>11, <1>12

\* A step of a call that holds its connection before and after it.
LEMMA H3HeldStep ==
  ASSUME H3PoolInv, NEW c \in Callers, h3caller[c].pc \in H3!Holding,
         NEW pc \in H3!Holding, H3!Set(c, pc),
         UNCHANGED <<H3!dialVars, H3!rest, conns>>,
         h3session' \in [H3!Dials -> H3SessionRecord], dead' \in [H3!Dials -> {"no", "peer", "local"}],
         h3current' \in H3!Dials \cup {NoSession},
         \A t \in H3!Dials :
           /\ h3session[t].auth = "none" => h3session'[t].auth = "none" /\ dead'[t] = dead[t]
           /\ h3session[t].auth # "none" => h3session'[t].auth # "none"
           /\ h3session[t].auth = "failed" => h3session'[t].auth = "failed"
           /\ h3session[t].retired => h3session'[t].retired
           /\ dead'[t] = "peer" => dead[t] = "peer",
         pc = "doom" => h3session'[h3caller[c].on].auth = "failed"
  PROVE  H3PoolInv' /\ \A t \in H3!Dials : H3!Users(t)' = H3!Users(t)
<1> PICK s : s = h3caller[c].on
  OBVIOUS
<1>1. s \in H3!Dials /\ s \in 0..MaxDials /\ h3session[s].auth # "none"
  BY PoolsAssumption DEF H3PoolInv, H3CallInv, H3!Dials
<1>2. pc \in H3Steps /\ pc # "close"
  BY DEF H3Steps, H3!Holding
<1>3. h3session'[s].auth # "none" /\ (pc = "doom" => h3session'[s].auth = "failed")
  BY <1>1
<1> QED
  BY <1>1, <1>2, <1>3, CallStep

\* What a call holds.
LEMMA H3Held ==
  ASSUME H3PoolInv, NEW c \in Callers, h3caller[c].pc \in H3!Holding
  PROVE  /\ h3caller[c].on \in H3!Dials /\ h3session[h3caller[c].on].auth # "none"
         /\ h3session[h3caller[c].on] \in H3SessionRecord
         /\ h3session \in [H3!Dials -> H3SessionRecord] /\ dead \in [H3!Dials -> {"no", "peer", "local"}]
         /\ h3current \in H3!Dials \cup {NoSession}
         /\ c \in H3!Users(h3caller[c].on)
  BY DEF H3PoolInv, H3CallInv, H3TypeInv, H3!Users

\* Answers and failures of a request leave the pool as it is; a refused one
\* takes the connection out of selection.
LEMMA H3AnswerSteps ==
  ASSUME H3PoolInv, NEW c \in Callers,
         H3!FollowAnswered(c) \/ H3!Abandons(c) \/ H3!Handoff(c) \/ H3!Retires(c)
  PROVE  H3PoolInv' /\ UNCHANGED H3!Pool!vars
<1> PICK s : s = h3caller[c].on
  OBVIOUS
<1>1. /\ h3caller[c].pc \in H3!Holding /\ UNCHANGED <<H3!dialVars, H3!rest, dead, conns>>
      /\ \E pc \in H3!Holding \ {"doom"} : H3!Set(c, pc)
  BY DEF H3!FollowAnswered, H3!Abandons, H3!Handoff, H3!Retires, H3!Holding, H3!streamOnly, H3!poolVars
<1>2. /\ s \in H3!Dials /\ h3session[s].auth # "none" /\ h3session[s] \in H3SessionRecord
      /\ h3session \in [H3!Dials -> H3SessionRecord] /\ dead \in [H3!Dials -> {"no", "peer", "local"}]
      /\ h3current \in H3!Dials \cup {NoSession}
  BY <1>1, H3Held
<1>3. /\ h3session' \in [H3!Dials -> H3SessionRecord] /\ h3current' \in H3!Dials \cup {NoSession}
      /\ \A t \in H3!Dials : /\ h3session'[t].auth = h3session[t].auth
                             /\ h3session[t].retired => h3session'[t].retired
  <2>1. CASE UNCHANGED <<h3session, h3current>>
    BY <1>2, <2>1
  <2>2. CASE H3!Retires(c)
    BY <1>2, <2>2 DEF H3!Retires, H3SessionRecord
  <2> QED
    BY <2>1, <2>2 DEF H3!FollowAnswered, H3!Abandons, H3!Handoff, H3!poolVars
<1>4. H3PoolInv' /\ \A t \in H3!Dials : H3!Users(t)' = H3!Users(t)
  <2>1. PICK pc \in H3!Holding \ {"doom"} : H3!Set(c, pc)
    BY <1>1
  <2> QED
    BY <1>1, <1>2, <1>3, <2>1, H3HeldStep
<1>5. UNCHANGED H3!Pool!vars
  BY <1>1, <1>3, <1>4 DEF H3!Pool!vars, H3!rest, H3!closeVars, H3!Closed
<1> QED
  BY <1>4, <1>5

\* A connection whose proof was not given is failed.
LEMMA H3FailStep ==
  ASSUME H3PoolInv, NEW c \in Callers, h3caller[c].pc \in H3!Holding,
         H3!FailSession(c), UNCHANGED H3!streamOnly
  PROVE  H3PoolInv' /\ H3!Pool!Next
<1> PICK s : s = h3caller[c].on
  OBVIOUS
<1>1. /\ s \in H3!Dials /\ h3session[s].auth # "none" /\ h3session[s] \in H3SessionRecord
      /\ h3session \in [H3!Dials -> H3SessionRecord] /\ dead \in [H3!Dials -> {"no", "peer", "local"}]
      /\ h3current \in H3!Dials \cup {NoSession}
  BY H3Held
<1>2. /\ h3session' = [h3session EXCEPT ![s].auth = "failed"] /\ H3!Set(c, "doom")
      /\ UNCHANGED <<dead, conns>> /\ h3current' \in {h3current, NoSession}
      /\ UNCHANGED <<H3!dialVars, H3!rest, conns>>
  BY DEF H3!FailSession, H3!streamOnly
<1>3. /\ h3session' \in [H3!Dials -> H3SessionRecord]
      /\ h3session'[s].auth = "failed" /\ h3session'[s].retired = h3session[s].retired
      /\ \A d \in H3!Dials : d # s => h3session'[d] = h3session[d]
  BY <1>1, <1>2, AuthSet DEF H3Auths
<1>4. H3PoolInv' /\ \A t \in H3!Dials : H3!Users(t)' = H3!Users(t)
  <2>1. "doom" \in H3!Holding /\ h3current' \in H3!Dials \cup {NoSession}
    BY <1>1, <1>2 DEF H3!Holding
  <2> QED
    BY <1>1, <1>2, <1>3, <2>1, H3HeldStep
<1>5. H3!Pool!Fail(s)
  <2>1. [t \in H3!Dials |-> h3session'[t].auth] = [[t \in H3!Dials |-> h3session[t].auth] EXCEPT ![s] = "failed"]
    BY <1>1, <1>3
  <2>2. {t \in H3!Dials : h3session'[t].auth # "none" /\ dead'[t] = "no"}
        = {t \in H3!Dials : h3session[t].auth # "none" /\ dead[t] = "no"}
    BY <1>1, <1>2, <1>3
  <2>3. UNCHANGED <<h3closer, dead>> /\ [t \in H3!Dials |-> H3!Users(t)'] = [t \in H3!Dials |-> H3!Users(t)]
    BY <1>2, <1>4 DEF H3!rest, H3!closeVars
  <2> QED
    BY <2>1, <2>2, <2>3 DEF H3!Pool!Fail, H3!Closed
<1> QED
  BY <1>1, <1>4, <1>5 DEF H3!Pool!Next

\* The proofs a call gets: of its bootstrap, or of its ticket.
LEMMA H3ProofSteps ==
  ASSUME H3PoolInv, NEW c \in Callers, H3!LeadFails(c) \/ H3!LeadAnswered(c) \/ H3!FollowMisproved(c)
  PROVE  H3PoolInv' /\ H3!Pool!Next
<1> PICK s : s = h3caller[c].on
  OBVIOUS
<1>1. h3caller[c].pc \in H3!Holding /\ UNCHANGED H3!streamOnly
  BY DEF H3!LeadFails, H3!LeadAnswered, H3!FollowMisproved, H3!Holding
<1>2. /\ s \in H3!Dials /\ h3session[s].auth # "none" /\ h3session[s] \in H3SessionRecord
      /\ h3session \in [H3!Dials -> H3SessionRecord] /\ dead \in [H3!Dials -> {"no", "peer", "local"}]
      /\ h3current \in H3!Dials \cup {NoSession}
  BY <1>1, H3Held
<1>3. CASE H3!FailSession(c)
  BY <1>1, <1>3, H3FailStep
<1>4. CASE /\ ~H3!Closed /\ h3session[s].auth = "bootstrapping"
           /\ h3session' = [h3session EXCEPT ![s].auth = "ready"]
           /\ H3!Set(c, "answered") /\ UNCHANGED <<dead, h3current, conns>>
  <2>1. /\ h3session' \in [H3!Dials -> H3SessionRecord]
        /\ h3session'[s].auth = "ready" /\ h3session'[s].retired = h3session[s].retired
        /\ \A d \in H3!Dials : d # s => h3session'[d] = h3session[d]
    BY <1>2, <1>4, AuthSet DEF H3Auths
  <2>2. H3PoolInv' /\ \A t \in H3!Dials : H3!Users(t)' = H3!Users(t)
    <3>1. "answered" \in H3!Holding /\ "answered" # "doom"
      BY DEF H3!Holding
    <3>2. /\ UNCHANGED <<H3!dialVars, H3!rest, conns>> /\ h3current' \in H3!Dials \cup {NoSession}
          /\ dead' \in [H3!Dials -> {"no", "peer", "local"}]
      BY <1>1, <1>2, <1>4 DEF H3!streamOnly
    <3> QED
      BY <1>1, <1>2, <1>4, <2>1, <3>1, <3>2, H3HeldStep
  <2>3. H3!Pool!Establish(s)
    <3>1. [t \in H3!Dials |-> h3session'[t].auth] = [[t \in H3!Dials |-> h3session[t].auth] EXCEPT ![s] = "ready"]
      BY <1>2, <2>1
    <3>2. {t \in H3!Dials : h3session'[t].auth # "none" /\ dead'[t] = "no"}
          = {t \in H3!Dials : h3session[t].auth # "none" /\ dead[t] = "no"}
      BY <1>2, <1>4, <2>1
    <3>3. UNCHANGED <<h3closer, dead>> /\ [t \in H3!Dials |-> H3!Users(t)'] = [t \in H3!Dials |-> H3!Users(t)]
      BY <1>1, <1>4, <2>2 DEF H3!streamOnly, H3!rest, H3!closeVars
    <3> QED
      BY <1>2, <1>4, <3>1, <3>2, <3>3 DEF H3!Pool!Establish, H3!Closed
  <2> QED
    BY <1>2, <2>2, <2>3 DEF H3!Pool!Next
<1> QED
  BY <1>3, <1>4 DEF H3!LeadFails, H3!LeadAnswered, H3!FollowMisproved

\* Closing a connection that nobody uses, that has failed, or with the client
\* closed; when it is dead already nothing changes.
LEMMA H3ClosesOne ==
  ASSUME H3TypeInv, NEW s \in H3!Dials, h3session[s].auth # "none", H3!CloseConn(s),
         UNCHANGED <<h3session, h3closer>>, \A t \in H3!Dials : H3!Users(t)' = H3!Users(t),
         H3!Users(s) = {} \/ h3session[s].auth = "failed"
  PROVE  /\ H3!Pool!Next \/ UNCHANGED H3!Pool!vars
         /\ dead' \in [H3!Dials -> {"no", "peer", "local"}]
         /\ \A t \in H3!Dials : t # s => dead'[t] = dead[t]
         /\ \A t \in H3!Dials : dead'[t] = "peer" <=> dead[t] = "peer"
<1>1. /\ dead \in [H3!Dials -> {"no", "peer", "local"}]
      /\ dead' = [dead EXCEPT ![s] = IF dead[s] = "no" THEN "local" ELSE dead[s]]
  BY DEF H3TypeInv, H3!CloseConn
<1>2. CASE dead[s] = "no"
  <2>1. dead'[s] = "local" /\ \A t \in H3!Dials : t # s => dead'[t] = dead[t]
    BY <1>1, <1>2
  <2>2. \A t \in H3!Dials : dead'[t] = "peer" <=> dead[t] = "peer"
    BY <1>2, <2>1
  <2>3. H3!Pool!Closes({s})
    <3>1. {t \in H3!Dials : h3session'[t].auth # "none" /\ dead'[t] = "no"}
          = {t \in H3!Dials : h3session[t].auth # "none" /\ dead[t] = "no"} \ {s}
      BY <1>2, <2>1
    <3>2. {s} \subseteq {t \in H3!Dials : h3session[t].auth # "none" /\ dead[t] = "no"}
      BY <1>2
    <3>3. {t \in H3!Dials : dead'[t] = "peer"} = {t \in H3!Dials : dead[t] = "peer"}
      BY <2>2
    <3>4. [t \in H3!Dials |-> H3!Users(t)'] = [t \in H3!Dials |-> H3!Users(t)]
      OBVIOUS
    <3> QED
      BY <3>1, <3>2, <3>3, <3>4 DEF H3!Pool!Closes, H3!Closed
  <2>4. {s} \in SUBSET H3!Dials
    OBVIOUS
  <2> QED
    BY <1>1, <1>2, <2>1, <2>2, <2>3, <2>4 DEF H3!Pool!Next
<1>3. CASE dead[s] # "no"
  <2>1. dead' = dead
    BY <1>1, <1>3
  <2>2. UNCHANGED H3!Pool!vars
    BY <2>1 DEF H3!Pool!vars, H3!Closed
  <2> QED
    BY <1>1, <2>1, <2>2
<1> QED
  BY <1>2, <1>3

\* The call that found the authentication broken closes the connection.
LEMMA H3DoomStep ==
  ASSUME H3PoolInv, NEW c \in Callers, H3!Doom(c)
  PROVE  H3PoolInv' /\ (H3!Pool!Next \/ UNCHANGED H3!Pool!vars)
<1> PICK s : s = h3caller[c].on
  OBVIOUS
<1>1. /\ h3caller[c].pc \in H3!Holding /\ H3!CloseConn(s) /\ H3!Set(c, "release")
      /\ UNCHANGED <<h3session, h3current, conns, H3!streamOnly>>
  BY DEF H3!Doom, H3!Holding
<1>2. /\ s \in H3!Dials /\ h3session[s].auth # "none"
      /\ h3session \in [H3!Dials -> H3SessionRecord] /\ h3current \in H3!Dials \cup {NoSession}
  BY <1>1, H3Held
<1>3. h3session[s].auth = "failed" /\ H3TypeInv
  BY DEF H3!Doom, H3PoolInv, H3CallInv
<1>4. /\ dead' \in [H3!Dials -> {"no", "peer", "local"}]
      /\ \A t \in H3!Dials : t # s => dead'[t] = dead[t]
      /\ \A t \in H3!Dials : dead'[t] = "peer" <=> dead[t] = "peer"
  BY <1>1, <1>2, <1>3 DEF H3!CloseConn, H3TypeInv
<1>5. H3PoolInv' /\ \A t \in H3!Dials : H3!Users(t)' = H3!Users(t)
  <2>1. "release" \in H3!Holding /\ "release" # "doom"
    BY DEF H3!Holding
  <2>2. /\ UNCHANGED <<H3!dialVars, H3!rest, conns>> /\ h3current' \in H3!Dials \cup {NoSession}
        /\ h3session' \in [H3!Dials -> H3SessionRecord]
    BY <1>1, <1>2 DEF H3!streamOnly
  <2>3. \A t \in H3!Dials :
          /\ h3session[t].auth = "none" => h3session'[t].auth = "none" /\ dead'[t] = dead[t]
          /\ h3session[t].auth # "none" => h3session'[t].auth # "none"
          /\ h3session[t].auth = "failed" => h3session'[t].auth = "failed"
          /\ h3session[t].retired => h3session'[t].retired
          /\ dead'[t] = "peer" => dead[t] = "peer"
    BY <1>1, <1>2, <1>4
  <2> QED
    BY <1>1, <1>4, <2>1, <2>2, <2>3, H3HeldStep
<1>6. UNCHANGED <<h3session, h3closer>>
  BY <1>1 DEF H3!streamOnly, H3!rest, H3!closeVars
<1> QED
  BY <1>1, <1>2, <1>3, <1>5, <1>6, H3ClosesOne

\* A call gives its connection back, and closes it when it was retired and the
\* call its last user.
LEMMA H3ReleaseStep ==
  ASSUME H3PoolInv, NEW c \in Callers, H3!Releases(c) \/ H3!CloseStream(c)
  PROVE  H3PoolInv' /\ H3!Pool!Next
<1> PICK s : s = h3caller[c].on
  OBVIOUS
<1>1. /\ h3caller[c].pc \in H3!Holding /\ H3!Release(c)
      /\ UNCHANGED <<H3!poolVars, H3!streamOnly>>
  BY DEF H3!Releases, H3!CloseStream, H3!Release, H3!Holding
<1>2. /\ s \in H3!Dials /\ h3session[s].auth # "none" /\ c \in H3!Users(s)
      /\ h3session \in [H3!Dials -> H3SessionRecord] /\ dead \in [H3!Dials -> {"no", "peer", "local"}]
      /\ h3current \in H3!Dials \cup {NoSession}
  BY <1>1, H3Held
<1>3. UNCHANGED <<h3session, dead, h3current, conns, H3!dialVars, H3!rest>>
  BY <1>1 DEF H3!poolVars, H3!streamOnly
<1>4. PICK pc \in {"close", "returned"}, t \in {s, 0} :
        /\ H3!Go(c, pc, t)
        /\ pc = "close" => t = s /\ h3session[s].retired /\ H3!LastUser(s)
  BY <1>1 DEF H3!Release
<1>5. H3!LastUser(s) => H3!Users(s) \subseteq {c}
  <2> SUFFICES ASSUME Cardinality(H3!Users(s)) = 1 PROVE H3!Users(s) \subseteq {c}
    BY H3Count DEF H3!LastUser
  <2>1. IsFiniteSet(H3!Users(s))
    <3>1. H3!Users(s) \subseteq Callers
      BY DEF H3!Users
    <3> QED
      BY <3>1, PoolsAssumption, FS_Subset
  <2>2. PICK x : H3!Users(s) = {x}
    BY <2>1, FS_Singleton
  <2> QED
    BY <1>2, <2>2
<1>6. H3PoolInv' /\ \A d \in H3!Dials : H3!Users(d)' = H3!Users(d) \ {c}
  <2>1. pc \in H3Steps /\ pc \notin H3!Holding /\ pc # "doom" /\ pc \notin {"await", "check"}
    BY DEF H3Steps, H3!Holding
  <2>2. t \in 0..MaxDials
    BY <1>2, PoolsAssumption DEF H3!Dials
  <2>3. /\ h3session' \in [H3!Dials -> H3SessionRecord] /\ dead' \in [H3!Dials -> {"no", "peer", "local"}]
        /\ h3current' \in H3!Dials \cup {NoSession}
    BY <1>2, <1>3
  <2>4. pc = "close" => /\ t \in H3!Dials /\ h3session'[t].auth # "none" /\ h3session'[t].retired
                        /\ H3!Users(t) \subseteq {c}
    BY <1>2, <1>3, <1>4, <1>5
  <2>5. /\ H3PoolInv'
        /\ \A d \in H3!Dials :
              /\ (pc \in H3!Holding /\ t = d <=> h3caller[c].pc \in H3!Holding /\ h3caller[c].on = d)
                   => H3!Users(d)' = H3!Users(d)
              /\ pc \in H3!Holding /\ t = d => H3!Users(d)' = H3!Users(d) \cup {c}
              /\ ~(pc \in H3!Holding /\ t = d) => H3!Users(d)' = H3!Users(d) \ {c}
    BY <1>1, <1>3, <1>4, <2>1, <2>2, <2>3, <2>4, CallStep
  <2> QED
    BY <2>1, <2>5
<1>7. H3!Pool!Leave(s, c)
  <2>1. \A d \in H3!Dials : d # s => H3!Users(d)' = H3!Users(d)
    <3>1. \A d \in H3!Dials : d # s => c \notin H3!Users(d)
      BY DEF H3!Users
    <3> QED
      BY <1>6, <3>1
  <2>2. [d \in H3!Dials |-> H3!Users(d)'] = [[d \in H3!Dials |-> H3!Users(d)] EXCEPT ![s] = H3!Users(s) \ {c}]
    BY <1>2, <1>6, <2>1
  <2> QED
    BY <1>2, <1>3, <2>2 DEF H3!Pool!Leave, H3!Closed, H3!rest, H3!closeVars
<1> QED
  BY <1>2, <1>6, <1>7 DEF H3!Pool!Next

\* The last user of a retired connection closes it.
LEMMA H3CloseRetiredStep ==
  ASSUME H3PoolInv, NEW c \in Callers, H3!CloseRetired(c)
  PROVE  H3PoolInv' /\ (H3!Pool!Next \/ UNCHANGED H3!Pool!vars)
<1> PICK s : s = h3caller[c].on
  OBVIOUS
<1>1. /\ h3caller[c].pc = "close" /\ H3!CloseConn(s) /\ H3!Go(c, "returned", 0)
      /\ UNCHANGED <<h3session, h3current, conns, H3!streamOnly>> /\ h3caller[c].pc \notin H3!Holding
  BY DEF H3!CloseRetired, H3!Holding
<1>2. /\ s \in H3!Dials /\ h3session[s].auth # "none" /\ H3!Users(s) = {} /\ H3TypeInv
      /\ h3session \in [H3!Dials -> H3SessionRecord] /\ h3current \in H3!Dials \cup {NoSession}
  BY <1>1 DEF H3PoolInv, H3CallInv, H3TypeInv
<1>4. /\ dead' \in [H3!Dials -> {"no", "peer", "local"}]
      /\ \A t \in H3!Dials : t # s => dead'[t] = dead[t]
      /\ \A t \in H3!Dials : dead'[t] = "peer" <=> dead[t] = "peer"
  BY <1>1, <1>2 DEF H3!CloseConn, H3TypeInv
<1>5. H3PoolInv' /\ \A t \in H3!Dials : H3!Users(t)' = H3!Users(t)
  <2>1. "returned" \in H3Steps /\ "returned" \notin {"await", "check", "close"} \cup H3!Holding
        /\ "returned" # "doom" /\ "returned" # "close" /\ 0 \in 0..MaxDials
    BY PoolsAssumption DEF H3Steps, H3!Holding
  <2>2. /\ UNCHANGED <<H3!dialVars, H3!rest, conns>> /\ h3current' \in H3!Dials \cup {NoSession}
        /\ h3session' \in [H3!Dials -> H3SessionRecord]
    BY <1>1, <1>2 DEF H3!streamOnly
  <2>3. \A t \in H3!Dials :
          /\ h3session[t].auth = "none" => h3session'[t].auth = "none" /\ dead'[t] = dead[t]
          /\ h3session[t].auth # "none" => h3session'[t].auth # "none"
          /\ h3session[t].auth = "failed" => h3session'[t].auth = "failed"
          /\ h3session[t].retired => h3session'[t].retired
          /\ dead'[t] = "peer" => dead[t] = "peer"
    BY <1>1, <1>2, <1>4
  <2>4. /\ H3PoolInv'
        /\ \A t \in H3!Dials :
              /\ ("returned" \in H3!Holding /\ 0 = t <=> h3caller[c].pc \in H3!Holding /\ h3caller[c].on = t)
                   => H3!Users(t)' = H3!Users(t)
    BY <1>1, <1>4, <2>1, <2>2, <2>3, CallStep
  <2> QED
    BY <1>1, <2>1, <2>4
<1>6. UNCHANGED <<h3session, h3closer>>
  BY <1>1 DEF H3!streamOnly, H3!rest, H3!closeVars
<1> QED
  BY <1>1, <1>2, <1>5, <1>6, H3ClosesOne

\* A context is done: nobody moves.
LEMMA H3CancelStep ==
  ASSUME H3PoolInv, NEW c \in Callers, H3!Cancel(c)
  PROVE  H3PoolInv' /\ UNCHANGED H3!Pool!vars
<1>1. /\ UNCHANGED <<H3!dialVars, H3!poolVars, H3!rest>>
      /\ h3caller' = [h3caller EXCEPT ![c].canceled = TRUE]
      /\ h3caller \in [Callers -> H3CallRecord]
  BY DEF H3!Cancel, H3PoolInv, H3TypeInv
<1>2. /\ h3caller' \in [Callers -> H3CallRecord]
      /\ \A d \in Callers : h3caller'[d].pc = h3caller[d].pc /\ h3caller'[d].on = h3caller[d].on
  BY <1>1 DEF H3CallRecord
<1>3. \A s : H3!Users(s)' = H3!Users(s)
  BY <1>2 DEF H3!Users
<1>4. UNCHANGED H3!Pool!vars
  BY <1>1, <1>3 DEF H3!Pool!vars, H3!Closed, H3!poolVars, H3!rest, H3!closeVars
<1>5. H3DialInv' /\ SocketInv' /\ DoneInv'
  BY <1>1, DialKept DEF H3!poolVars, H3!rest, H3!closeVars
<1>6. H3TypeInv' /\ ConnsInv'
  BY <1>1, <1>2 DEF H3PoolInv, H3TypeInv, ConnsInv, H3!poolVars, H3!rest, H3!closeVars, H3!dialVars, H3!raceVars
<1>7. H3CallInv'
  BY <1>1, <1>2, <1>3 DEF H3PoolInv, H3CallInv, H3!poolVars, H3!Users
<1> QED
  BY <1>4, <1>5, <1>6, <1>7 DEF H3PoolInv
-----------------------------------------------------------------------------
\* Steps that leave the calls where they are.
LEMMA H3CallsStay ==
  ASSUME H3CallInv, UNCHANGED h3caller,
         \A s \in H3!Dials :
           /\ h3session[s].auth # "none" => h3session'[s].auth # "none"
           /\ h3session[s].auth = "failed" => h3session'[s].auth = "failed"
           /\ h3session[s].retired => h3session'[s].retired
  PROVE  H3CallInv' /\ \A t : H3!Users(t)' = H3!Users(t)
<1>1. \A t : H3!Users(t)' = H3!Users(t)
  BY DEF H3!Users
<1>2. H3CallInv'
  BY <1>1 DEF H3CallInv, H3!Users, H3!Holding
<1> QED
  BY <1>1, <1>2

\* The race, its failure, the publication of its winner, and the end of a
\* watcher: no connection is opened or closed.
LEMMA RaceSteps ==
  ASSUME H3PoolInv, NEW d \in H3!Dials,
         \/ \E a \in Addresses : H3!RacerStarts(d, a) \/ H3!RacerDials(d, a)
         \/ H3!DialFails(d) \/ H3!DialPublishes(d) \/ H3!WatcherEnds(d)
  PROVE  H3PoolInv' /\ UNCHANGED H3!Pool!vars
<1>1. UNCHANGED <<h3caller, H3!poolVars, H3!closeVars>>
  BY DEF H3!RacerStarts, H3!RacerDials, H3!DialFails, H3!DialPublishes, H3!WatcherEnds, H3!rest
<1>2. H3CallInv' /\ \A t : H3!Users(t)' = H3!Users(t)
  BY <1>1, H3CallsStay DEF H3PoolInv, H3!poolVars
<1>3. UNCHANGED H3!Pool!vars
  BY <1>1, <1>2 DEF H3!Pool!vars, H3!poolVars, H3!closeVars, H3!Closed
<1>4. ConnsInv'
  BY <1>1 DEF H3PoolInv, ConnsInv, H3!poolVars, H3!closeVars
<1>5. /\ H3TypeInv /\ H3DialInv /\ SocketInv /\ DoneInv
      /\ 0 \in 0..MaxDials /\ 0 \notin Addresses
      /\ UNCHANGED <<h3caller, h3session, dead, h3current, h3closer>>
  BY <1>1, PoolsAssumption DEF H3PoolInv, H3!poolVars, H3!closeVars
<1>6. CASE \E a \in Addresses : H3!RacerStarts(d, a)
  <2>1. UNCHANGED <<winner, h3dial, h3dialing, sockets, watcher>>
    BY <1>6 DEF H3!RacerStarts, H3!rest
  <2> QED
    BY <1>2, <1>3, <1>4, <1>5, <2>1 DEF H3PoolInv, H3TypeInv, H3DialInv, SocketInv, DoneInv, H3!WorkersDone, H3!Closed
<1>7. ASSUME NEW a \in Addresses, H3!RacerDials(d, a)
      PROVE  H3TypeInv' /\ H3DialInv' /\ SocketInv' /\ DoneInv'
  <2>1. UNCHANGED <<h3dial, h3dialing, watcher>> /\ h3dial[d] = "racing"
    BY <1>7 DEF H3!RacerDials
  <2>2. \/ winner[d] = 0 /\ winner' = [winner EXCEPT ![d] = a] /\ sockets' = sockets \cup {<<d, a>>}
        \/ sockets' \subseteq sockets /\ UNCHANGED winner
    BY <1>7 DEF H3!RacerDials, H3!DiscardLoser
  <2>3. H3TypeInv'
    <3>1. winner' \in [H3!Dials -> Addresses \cup {0}] /\ sockets' \subseteq H3!Dials \X (Addresses \cup {0})
      BY <1>5, <2>2 DEF H3TypeInv
    <3> QED
      BY <1>5, <2>1, <3>1 DEF H3TypeInv
  <2>4. H3DialInv' /\ DoneInv'
    BY <1>5, <2>1 DEF H3DialInv, DoneInv, H3!WorkersDone, H3!Closed
  <2>5. SocketInv'
    <3>1. CASE winner[d] = 0 /\ winner' = [winner EXCEPT ![d] = a] /\ sockets' = sockets \cup {<<d, a>>}
      <4>1. winner'[d] = a /\ a # 0 /\ \A e \in H3!Dials : e # d => winner'[e] = winner[e]
        BY <1>5, <3>1 DEF H3TypeInv
      <4>2. \A e \in H3!Dials, b \in Addresses \cup {0} :
              <<e, b>> \in sockets' => <<e, b>> \in sockets \/ (e = d /\ b = a)
        BY <3>1
      <4> QED
        BY <1>5, <2>1, <3>1, <4>1, <4>2 DEF SocketInv
    <3>2. CASE sockets' \subseteq sockets /\ UNCHANGED winner
      BY <1>5, <2>1, <3>2 DEF SocketInv
    <3> QED
      BY <2>2, <3>1, <3>2
  <2> QED
    BY <2>3, <2>4, <2>5
<1>8. CASE H3!DialFails(d) \/ H3!DialPublishes(d)
  <2>1. PICK r \in {"done", "error"} :
          /\ h3dial' = [h3dial EXCEPT ![d] = r] /\ h3dialing' = 0
          /\ r = "done" => h3dial[d] = "opened"
          /\ r = "error" => h3dial[d] = "racing" /\ winner[d] = 0
    BY <1>8 DEF H3!DialFails, H3!DialPublishes, H3!RaceEnded
  <2>2. UNCHANGED <<winner, sockets, watcher>>
    BY <1>8 DEF H3!DialFails, H3!DialPublishes, H3!raceVars, H3!rest
  <2>3. h3dial'[d] = r /\ \A e \in H3!Dials : e # d => h3dial'[e] = h3dial[e]
    BY <1>5, <2>1 DEF H3TypeInv
  <2>4. H3TypeInv'
    <3>1. h3dial' \in [H3!Dials -> {"none", "racing", "opened", "late", "done", "error"}]
      BY <1>5, <2>1 DEF H3TypeInv
    <3> QED
      BY <1>5, <2>1, <2>2, <3>1 DEF H3TypeInv
  <2>5. \A e \in H3!Dials : e # d => h3dial[e] \notin {"racing", "opened", "late"}
    BY <1>5, <2>1 DEF H3DialInv
  <2>6. H3DialInv'
    BY <1>5, <2>1, <2>2, <2>3, <2>5 DEF H3DialInv, H3!Closed
  <2>7. SocketInv'
    BY <1>5, <2>1, <2>2, <2>3 DEF SocketInv
  <2>8. DoneInv'
    BY <1>5, <2>1, <2>2, <2>3 DEF DoneInv, H3!WorkersDone
  <2> QED
    BY <1>2, <1>3, <1>4, <2>4, <2>6, <2>7, <2>8 DEF H3PoolInv
<1>9. CASE H3!WatcherEnds(d)
  <2>1. /\ watcher[d] = "closing" /\ sockets' = sockets \ {<<d, 0>>}
        /\ watcher' = [watcher EXCEPT ![d] = "done"]
        /\ UNCHANGED <<winner, h3dial, h3dialing>>
    BY <1>9 DEF H3!WatcherEnds, H3!dialVars, H3!raceVars
  <2>2. watcher'[d] = "done" /\ \A e \in H3!Dials : e # d => watcher'[e] = watcher[e]
    BY <1>5, <2>1 DEF H3TypeInv
  <2>3. H3TypeInv'
    <3>1. watcher' \in [H3!Dials -> {"none", "watching", "closing", "done"}]
      BY <1>5, <2>1 DEF H3TypeInv
    <3> QED
      BY <1>5, <2>1, <3>1 DEF H3TypeInv
  <2>4. H3DialInv'
    BY <1>5, <2>1, <2>2 DEF H3DialInv, H3!Closed
  <2>5. SocketInv'
    BY <1>5, <2>1, <2>2 DEF SocketInv
  <2>6. DoneInv'
    BY <1>5, <2>1, <2>2 DEF DoneInv, H3!WorkersDone
  <2> QED
    BY <1>2, <1>3, <1>4, <2>3, <2>4, <2>5, <2>6 DEF H3PoolInv
<1> QED
  BY <1>2, <1>3, <1>4, <1>6, <1>7, <1>8, <1>9 DEF H3PoolInv

\* A dial has opened its connection, in time or too late.
LEMMA H3OpensStep ==
  ASSUME H3PoolInv, NEW d \in H3!Dials, H3!DialOpens(d)
  PROVE  H3PoolInv' /\ H3!Pool!Next
<1>1. /\ h3dial[d] = "racing" /\ winner[d] # 0
      /\ h3session' = [h3session EXCEPT ![d].auth = "fresh"]
      /\ winner' = [winner EXCEPT ![d] = 0]
      /\ sockets' = (sockets \ {<<d, winner[d]>>}) \cup {<<d, 0>>}
      /\ UNCHANGED <<h3caller, h3dialing, dead, h3closer, h3doomed>>
  BY DEF H3!DialOpens, H3!RaceEnded, H3!closeVars
<1>2. \/ H3!Closed /\ h3dial' = [h3dial EXCEPT ![d] = "late"] /\ UNCHANGED <<h3current, conns, watcher>>
      \/ /\ ~H3!Closed /\ h3dial' = [h3dial EXCEPT ![d] = "opened"] /\ h3current' = d
         /\ conns' = conns \cup {d} /\ watcher' = [watcher EXCEPT ![d] = "watching"]
  BY DEF H3!DialOpens
<1>3. H3TypeInv /\ H3DialInv /\ SocketInv /\ DoneInv /\ ConnsInv /\ H3CallInv /\ 0 \notin Addresses
  BY PoolsAssumption DEF H3PoolInv
<1>4. h3session[d].auth = "none" /\ dead[d] = "no" /\ d = h3dialing
  BY <1>1, <1>3 DEF H3DialInv
<1>5. /\ h3session' \in [H3!Dials -> H3SessionRecord]
      /\ h3session'[d].auth = "fresh" /\ h3session'[d].retired = h3session[d].retired
      /\ \A e \in H3!Dials : e # d => h3session'[e] = h3session[e]
  BY <1>1, <1>3, AuthSet DEF H3TypeInv, H3Auths
<1>6. H3CallInv' /\ \A t : H3!Users(t)' = H3!Users(t)
  BY <1>1, <1>3, <1>4, <1>5, H3CallsStay
<1>7. /\ h3dial' \in [H3!Dials -> {"none", "racing", "opened", "late", "done", "error"}]
      /\ h3dial'[d] \in {"late", "opened"} /\ (h3dial'[d] = "late" => H3!Closed)
      /\ h3dial'[d] = "late" => watcher' = watcher
      /\ h3dial'[d] = "opened" => watcher'[d] = "watching"
      /\ watcher' \in [H3!Dials -> {"none", "watching", "closing", "done"}]
      /\ \A e \in H3!Dials : e # d => h3dial'[e] = h3dial[e] /\ watcher'[e] = watcher[e]
      /\ h3current' \in {h3current, d} /\ conns' \subseteq conns \cup {d}
  BY <1>2, <1>3 DEF H3TypeInv
<1>8. winner' \in [H3!Dials -> Addresses \cup {0}] /\ \A e \in H3!Dials : e # d => winner'[e] = winner[e]
  BY <1>1, <1>3 DEF H3TypeInv
<1>9. H3TypeInv'
  <2>1. sockets' \subseteq H3!Dials \X (Addresses \cup {0})
    BY <1>1, <1>3 DEF H3TypeInv
  <2> QED
    BY <1>1, <1>3, <1>5, <1>7, <1>8, <2>1 DEF H3TypeInv
<1>10. H3DialInv'
  BY <1>1, <1>3, <1>4, <1>5, <1>7 DEF H3DialInv, H3!Closed
<1>11. SocketInv'
  <2>1. watcher[d] = "none"
    BY <1>1, <1>3 DEF H3DialInv
  <2>2. \A a \in Addresses \cup {0} : <<d, a>> \in sockets => a = winner[d]
    BY <1>1, <1>3, <2>1 DEF SocketInv
  <2>3. \A a \in Addresses \cup {0} : <<d, a>> \in sockets' => a = 0
    BY <1>1, <2>2
  <2>4. \A e \in H3!Dials, a \in Addresses \cup {0} : e # d /\ <<e, a>> \in sockets' => <<e, a>> \in sockets
    BY <1>1
  <2> SUFFICES ASSUME NEW e \in H3!Dials, NEW a \in Addresses \cup {0}, <<e, a>> \in sockets'
               PROVE  \/ h3dial'[e] = "racing" /\ a = winner'[e] /\ a # 0
                      \/ h3dial'[e] = "late" /\ a = 0
                      \/ watcher'[e] \in {"watching", "closing"} /\ a = 0
    BY DEF SocketInv
  <2>5. CASE e = d
    BY <1>7, <2>3, <2>5
  <2>6. CASE e # d
    BY <1>3, <1>7, <1>8, <2>4, <2>6 DEF SocketInv
  <2> QED
    BY <2>5, <2>6
<1>12. DoneInv'
  BY <1>1, <1>3 DEF DoneInv, H3!WorkersDone
<1>13. ConnsInv'
  BY <1>1, <1>3, <1>5, <1>7 DEF ConnsInv
<1>14. H3!Pool!Opens(d)
  <2>1. [t \in H3!Dials |-> h3session'[t].auth] = [[t \in H3!Dials |-> h3session[t].auth] EXCEPT ![d] = "fresh"]
    BY <1>5
  <2>2. {t \in H3!Dials : h3session'[t].auth # "none" /\ dead'[t] = "no"}
        = {t \in H3!Dials : h3session[t].auth # "none" /\ dead[t] = "no"} \cup {d}
    BY <1>1, <1>4, <1>5
  <2>3. UNCHANGED <<h3closer, dead>> /\ [t \in H3!Dials |-> H3!Users(t)'] = [t \in H3!Dials |-> H3!Users(t)]
    BY <1>1, <1>6
  <2> QED
    BY <1>4, <2>1, <2>2, <2>3 DEF H3!Pool!Opens, H3!Closed
<1> QED
  BY <1>6, <1>9, <1>10, <1>11, <1>12, <1>13, <1>14 DEF H3PoolInv, H3!Pool!Next

\* What came too late is closed before the attempt is published.
LEMMA LateStep ==
  ASSUME H3PoolInv, NEW d \in H3!Dials, H3!DialLate(d)
  PROVE  H3PoolInv' /\ (H3!Pool!Next \/ UNCHANGED H3!Pool!vars)
<1>1. /\ h3dial[d] = "late" /\ dead' = [dead EXCEPT ![d] = "local"]
      /\ sockets' = sockets \ {<<d, 0>>}
      /\ h3dial' = [h3dial EXCEPT ![d] = "error"] /\ h3dialing' = 0
      /\ UNCHANGED <<h3caller, winner, h3session, h3current, conns, watcher, h3closer, h3doomed>>
  BY DEF H3!DialLate, H3!raceVars, H3!closeVars
<1>2. H3TypeInv /\ H3DialInv /\ SocketInv /\ DoneInv /\ ConnsInv /\ H3CallInv /\ 0 \in 0..MaxDials
  BY PoolsAssumption DEF H3PoolInv
<1>3. /\ d = h3dialing /\ H3!Closed /\ dead[d] # "peer" /\ watcher[d] = "none"
      /\ \A e \in H3!Dials : e # d => h3dial[e] \notin {"racing", "opened", "late"}
  BY <1>1, <1>2 DEF H3DialInv
<1>4. /\ dead' \in [H3!Dials -> {"no", "peer", "local"}]
      /\ dead'[d] = "local" /\ \A e \in H3!Dials : e # d => dead'[e] = dead[e]
      /\ h3dial' \in [H3!Dials -> {"none", "racing", "opened", "late", "done", "error"}]
      /\ h3dial'[d] = "error" /\ \A e \in H3!Dials : e # d => h3dial'[e] = h3dial[e]
  BY <1>1, <1>2 DEF H3TypeInv
<1>5. H3CallInv' /\ \A t : H3!Users(t)' = H3!Users(t)
  BY <1>1, <1>2, H3CallsStay
<1>6. H3TypeInv'
  BY <1>1, <1>2, <1>4 DEF H3TypeInv
<1>7. H3DialInv'
  BY <1>1, <1>2, <1>3, <1>4 DEF H3DialInv, H3!Closed
<1>8. SocketInv'
  BY <1>1, <1>2, <1>4 DEF SocketInv
<1>9. DoneInv' /\ ConnsInv'
  BY <1>1, <1>2, <1>4 DEF DoneInv, ConnsInv, H3!WorkersDone
<1>10. PICK out : out = {d} \cap {t \in H3!Dials : h3session[t].auth # "none" /\ dead[t] = "no"}
  OBVIOUS
<1>11. out \in SUBSET H3!Dials
  BY <1>10
<1>12. H3!Pool!Closes(out)
  <2>1. {t \in H3!Dials : h3session'[t].auth # "none" /\ dead'[t] = "no"}
        = {t \in H3!Dials : h3session[t].auth # "none" /\ dead[t] = "no"} \ out
    BY <1>1, <1>4, <1>10
  <2>2. {t \in H3!Dials : dead'[t] = "peer"} = {t \in H3!Dials : dead[t] = "peer"}
    BY <1>3, <1>4
  <2>3. [t \in H3!Dials |-> H3!Users(t)'] = [t \in H3!Dials |-> H3!Users(t)]
    BY <1>5
  <2> QED
    BY <1>1, <1>3, <1>10, <2>1, <2>2, <2>3 DEF H3!Pool!Closes, H3!Closed
<1> QED
  BY <1>5, <1>6, <1>7, <1>8, <1>9, <1>11, <1>12 DEF H3PoolInv, H3!Pool!Next

\* The watcher of a dead connection wakes who waits for its bootstrap, and
\* removes what is still this connection's.
LEMMA WatchedStep ==
  ASSUME H3PoolInv, NEW s \in H3!Dials, H3!Watched(s)
  PROVE  H3PoolInv' /\ (H3!Pool!Next \/ UNCHANGED H3!Pool!vars)
<1>1. /\ watcher[s] = "watching" /\ watcher' = [watcher EXCEPT ![s] = "closing"]
      /\ h3session' = [h3session EXCEPT ![s].auth =
           IF h3session[s].auth \in {"fresh", "bootstrapping"} THEN "failed" ELSE h3session[s].auth]
      /\ conns' \subseteq conns /\ h3current' \in {h3current, NoSession}
      /\ UNCHANGED <<h3caller, winner, h3dial, h3dialing, dead, sockets, h3closer, h3doomed>>
  BY DEF H3!Watched, H3!dialVars, H3!raceVars, H3!closeVars
<1>2. H3TypeInv /\ H3DialInv /\ SocketInv /\ DoneInv /\ ConnsInv /\ H3CallInv
  BY DEF H3PoolInv
<1>3. /\ h3session[s] \in H3SessionRecord /\ h3session[s].auth \in H3Auths
      /\ h3dial[s] \in {"opened", "done"}
  BY <1>1, <1>2 DEF H3TypeInv, H3DialInv, H3SessionRecord
<1>4. PICK x \in H3Auths :
        /\ h3session' = [h3session EXCEPT ![s].auth = x]
        /\ \/ x = h3session[s].auth
           \/ x = "failed" /\ h3session[s].auth \in {"fresh", "bootstrapping"}
  BY <1>1, <1>3 DEF H3Auths
<1>5. /\ h3session' \in [H3!Dials -> H3SessionRecord]
      /\ h3session'[s].auth = x /\ h3session'[s].retired = h3session[s].retired
      /\ \A d \in H3!Dials : d # s => h3session'[d] = h3session[d]
  BY <1>2, <1>4, AuthSet DEF H3TypeInv
<1>6. H3CallInv' /\ \A t : H3!Users(t)' = H3!Users(t)
  BY <1>1, <1>2, <1>4, <1>5, H3CallsStay
<1>7. /\ watcher' \in [H3!Dials -> {"none", "watching", "closing", "done"}]
      /\ watcher'[s] = "closing" /\ \A e \in H3!Dials : e # s => watcher'[e] = watcher[e]
  BY <1>1, <1>2 DEF H3TypeInv
<1>8. H3TypeInv'
  BY <1>1, <1>2, <1>5, <1>7 DEF H3TypeInv
<1>9. H3DialInv'
  BY <1>1, <1>2, <1>3, <1>5, <1>7 DEF H3DialInv, H3!Closed
<1>10. SocketInv'
  BY <1>1, <1>2, <1>7 DEF SocketInv
<1>11. DoneInv'
  BY <1>1, <1>2 DEF DoneInv, H3!WorkersDone
<1>12. ConnsInv'
  BY <1>1, <1>2, <1>4, <1>5 DEF ConnsInv
<1>13. H3!Pool!Fail(s) \/ UNCHANGED H3!Pool!vars
  <2>1. {t \in H3!Dials : h3session'[t].auth # "none" /\ dead'[t] = "no"}
        = {t \in H3!Dials : h3session[t].auth # "none" /\ dead[t] = "no"}
    BY <1>1, <1>4, <1>5
  <2>2. UNCHANGED <<h3closer, dead>> /\ [t \in H3!Dials |-> H3!Users(t)'] = [t \in H3!Dials |-> H3!Users(t)]
    BY <1>1, <1>6
  <2>3. CASE x = "failed"
    <3>1. [t \in H3!Dials |-> h3session'[t].auth] = [[t \in H3!Dials |-> h3session[t].auth] EXCEPT ![s] = "failed"]
      BY <1>5, <2>3
    <3> QED
      BY <2>1, <2>2, <3>1 DEF H3!Pool!Fail, H3!Closed
  <2>4. CASE x = h3session[s].auth
    <3>1. [t \in H3!Dials |-> h3session'[t].auth] = [t \in H3!Dials |-> h3session[t].auth]
      BY <1>5, <2>4
    <3> QED
      BY <2>1, <2>2, <3>1 DEF H3!Pool!vars, H3!Closed
  <2> QED
    BY <1>4, <2>3, <2>4
<1> QED
  BY <1>6, <1>8, <1>9, <1>10, <1>11, <1>12, <1>13 DEF H3PoolInv, H3!Pool!Next

\* The network ends a connection.
LEMMA PeerStep ==
  ASSUME H3PoolInv, NEW s \in H3!Dials, H3!PeerEnds(s)
  PROVE  H3PoolInv' /\ H3!Pool!Next
<1>1. /\ h3dial[s] \in {"opened", "done"} /\ dead[s] = "no" /\ dead' = [dead EXCEPT ![s] = "peer"]
      /\ UNCHANGED <<h3caller, h3session, h3current, conns, H3!dialVars, H3!rest>>
  BY DEF H3!PeerEnds, H3!streamOnly
<1>2. H3TypeInv /\ H3DialInv /\ SocketInv /\ DoneInv /\ ConnsInv /\ H3CallInv
  BY DEF H3PoolInv
<1>3. UNCHANGED <<winner, h3dial, h3dialing, sockets, watcher, h3closer, h3doomed>>
  BY <1>1 DEF H3!dialVars, H3!raceVars, H3!rest, H3!closeVars
<1>4. /\ dead' \in [H3!Dials -> {"no", "peer", "local"}]
      /\ dead'[s] = "peer" /\ \A e \in H3!Dials : e # s => dead'[e] = dead[e]
  BY <1>1, <1>2 DEF H3TypeInv
<1>5. H3CallInv' /\ \A t : H3!Users(t)' = H3!Users(t)
  BY <1>1, <1>2, H3CallsStay
<1>6. H3TypeInv'
  BY <1>1, <1>2, <1>3, <1>4 DEF H3TypeInv
<1>7. H3DialInv'
  BY <1>1, <1>2, <1>3, <1>4 DEF H3DialInv, H3!Closed
<1>8. SocketInv' /\ DoneInv' /\ ConnsInv'
  BY <1>1, <1>2, <1>3 DEF SocketInv, DoneInv, ConnsInv, H3!WorkersDone
<1>9. H3!Pool!Loses(s)
  <2>1. {t \in H3!Dials : h3session'[t].auth # "none" /\ dead'[t] = "no"}
        = {t \in H3!Dials : h3session[t].auth # "none" /\ dead[t] = "no"} \ {s}
    BY <1>1, <1>4
  <2>2. {t \in H3!Dials : dead'[t] = "peer"} = {t \in H3!Dials : dead[t] = "peer"} \cup {s}
    BY <1>4
  <2>3. [t \in H3!Dials |-> H3!Users(t)'] = [t \in H3!Dials |-> H3!Users(t)]
    BY <1>5
  <2> QED
    BY <1>1, <1>3, <2>1, <2>2, <2>3 DEF H3!Pool!Loses, H3!Closed
<1> QED
  BY <1>5, <1>6, <1>7, <1>8, <1>9 DEF H3PoolInv, H3!Pool!Next

\* Close takes the connections out, closes them, and waits.
LEMMA H3CloseSteps ==
  ASSUME H3PoolInv, H3!CloseBegins \/ H3!CloseSessions \/ H3!CloseReturns
  PROVE  H3PoolInv' /\ (H3!Pool!Next \/ UNCHANGED H3!Pool!vars)
<1>1. UNCHANGED <<h3caller, H3!dialVars, h3session, watcher>>
  BY DEF H3!CloseBegins, H3!CloseSessions, H3!CloseReturns, H3!poolVars
<1>2. H3TypeInv /\ H3DialInv /\ SocketInv /\ DoneInv /\ ConnsInv /\ H3CallInv
  BY DEF H3PoolInv
<1>3. UNCHANGED <<winner, h3dial, h3dialing>>
  BY <1>1 DEF H3!dialVars, H3!raceVars
<1>4. H3CallInv' /\ \A t : H3!Users(t)' = H3!Users(t)
  BY <1>1, <1>2, H3CallsStay
<1>5. [t \in H3!Dials |-> H3!Users(t)'] = [t \in H3!Dials |-> H3!Users(t)]
  BY <1>4
<1>6. CASE H3!CloseBegins
  <2>1. /\ h3closer = "idle" /\ h3closer' = "closing" /\ h3doomed' = conns /\ conns' = {}
        /\ h3current' = NoSession /\ UNCHANGED <<dead, sockets>>
    BY <1>6 DEF H3!CloseBegins
  <2>2. H3TypeInv' /\ H3DialInv' /\ SocketInv'
    BY <1>1, <1>2, <1>3, <2>1 DEF H3TypeInv, H3DialInv, SocketInv, H3!Closed, Closers
  <2>3. DoneInv' /\ ConnsInv'
    BY <1>1, <1>2, <2>1 DEF DoneInv, ConnsInv
  <2>4. H3!Pool!Shut
    BY <1>1, <1>5, <2>1 DEF H3!Pool!Shut, H3!Closed
  <2> QED
    BY <1>4, <2>2, <2>3, <2>4 DEF H3PoolInv, H3!Pool!Next
<1>7. CASE H3!CloseSessions
  <2>1. /\ h3closer = "closing" /\ h3closer' = "waiting" /\ UNCHANGED <<h3doomed, conns, h3current>>
        /\ dead' = [s \in H3!Dials |-> IF s \in h3doomed /\ dead[s] = "no" THEN "local" ELSE dead[s]]
        /\ sockets' = sockets \ (h3doomed \X {0})
    BY <1>7 DEF H3!CloseSessions
  <2>2. /\ dead' \in [H3!Dials -> {"no", "peer", "local"}]
        /\ \A s \in H3!Dials : /\ dead'[s] = "no" <=> dead[s] = "no" /\ s \notin h3doomed
                               /\ dead'[s] = "peer" <=> dead[s] = "peer"
                               /\ h3session[s].auth = "none" => dead'[s] = dead[s]
    BY <1>2, <2>1 DEF H3TypeInv, ConnsInv
  <2>3. H3TypeInv'
    BY <1>1, <1>2, <1>3, <2>1, <2>2 DEF H3TypeInv, Closers
  <2>4. H3DialInv'
    BY <1>1, <1>2, <1>3, <2>1, <2>2 DEF H3DialInv, H3!Closed
  <2>5. SocketInv'
    BY <1>1, <1>2, <1>3, <2>1 DEF SocketInv
  <2>6. DoneInv' /\ ConnsInv'
    BY <1>1, <1>2, <2>1 DEF DoneInv, ConnsInv
  <2>0. PICK out : out = h3doomed \cap {t \in H3!Dials : h3session[t].auth # "none" /\ dead[t] = "no"}
    OBVIOUS
  <2>7. H3!Pool!Closes(out)
    <3>1. {t \in H3!Dials : h3session'[t].auth # "none" /\ dead'[t] = "no"}
          = {t \in H3!Dials : h3session[t].auth # "none" /\ dead[t] = "no"} \ out
      BY <1>1, <2>0, <2>2
    <3>2. {t \in H3!Dials : dead'[t] = "peer"} = {t \in H3!Dials : dead[t] = "peer"}
      BY <2>2
    <3> QED
      BY <1>1, <1>5, <2>0, <2>1, <3>1, <3>2 DEF H3!Pool!Closes, H3!Closed
  <2>8. out \in SUBSET H3!Dials
    BY <2>0
  <2> QED
    BY <1>4, <2>3, <2>4, <2>5, <2>6, <2>7, <2>8 DEF H3PoolInv, H3!Pool!Next
<1>8. CASE H3!CloseReturns
  <2>1. /\ h3closer = "waiting" /\ h3closer' = "done" /\ H3!WorkersDone
        /\ UNCHANGED <<h3doomed, conns, h3current, dead, sockets>>
    BY <1>8 DEF H3!CloseReturns, H3!poolVars
  <2>2. H3TypeInv' /\ H3DialInv' /\ SocketInv'
    BY <1>1, <1>2, <1>3, <2>1 DEF H3TypeInv, H3DialInv, SocketInv, H3!Closed, Closers
  <2>3. DoneInv' /\ ConnsInv'
    BY <1>1, <1>2, <1>3, <2>1 DEF DoneInv, ConnsInv, H3!WorkersDone
  <2>4. UNCHANGED H3!Pool!vars
    BY <1>1, <1>5, <2>1 DEF H3!Pool!vars, H3!Closed
  <2> QED
    BY <1>4, <2>2, <2>3, <2>4 DEF H3PoolInv
<1> QED
  BY <1>6, <1>7, <1>8

\* A step of the pool keeps the invariant and is one of the abstract pool.
LEMMA H3PoolStep ==
  ASSUME H3PoolInv, [H3!Next]_H3!vars
  PROVE  H3PoolInv' /\ [H3!Pool!Next]_H3!Pool!vars
<1>1. CASE UNCHANGED H3!vars
  <2>1. UNCHANGED <<h3caller, winner, h3dial, h3dialing, h3session, dead, h3current, conns, sockets, watcher, h3closer, h3doomed>>
    BY <1>1 DEF H3!vars, H3!dialVars, H3!raceVars, H3!poolVars, H3!rest, H3!closeVars
  <2>2. H3CallInv' /\ \A t : H3!Users(t)' = H3!Users(t)
    BY <2>1, H3CallsStay DEF H3PoolInv
  <2>3. UNCHANGED H3!Pool!vars
    BY <2>1, <2>2 DEF H3!Pool!vars, H3!Closed
  <2> QED
    BY <2>1, <2>2, <2>3
       DEF H3PoolInv, H3TypeInv, H3DialInv, SocketInv, DoneInv, ConnsInv, H3!WorkersDone, H3!Closed
<1>2. ASSUME NEW c \in Callers, H3!Start(c) \/ H3!Awaited(c) \/ H3!Joined(c)
      PROVE  H3PoolInv' /\ [H3!Pool!Next]_H3!Pool!vars
  BY <1>2, H3WaitSteps
<1>3. ASSUME NEW c \in Callers, H3!Select(c)
      PROVE  H3PoolInv' /\ [H3!Pool!Next]_H3!Pool!vars
  BY <1>3, SelectStep
<1>4. ASSUME NEW c \in Callers, H3!Check(c)
      PROVE  H3PoolInv' /\ [H3!Pool!Next]_H3!Pool!vars
  BY <1>4, CheckStep
<1>5. ASSUME NEW c \in Callers, H3!LeadFails(c) \/ H3!LeadAnswered(c) \/ H3!FollowMisproved(c)
      PROVE  H3PoolInv' /\ [H3!Pool!Next]_H3!Pool!vars
  BY <1>5, H3ProofSteps
<1>6. ASSUME NEW c \in Callers, H3!FollowAnswered(c) \/ H3!Abandons(c) \/ H3!Handoff(c) \/ H3!Retires(c)
      PROVE  H3PoolInv' /\ [H3!Pool!Next]_H3!Pool!vars
  BY <1>6, H3AnswerSteps
<1>7. ASSUME NEW c \in Callers, H3!Doom(c)
      PROVE  H3PoolInv' /\ [H3!Pool!Next]_H3!Pool!vars
  BY <1>7, H3DoomStep
<1>8. ASSUME NEW c \in Callers, H3!Releases(c) \/ H3!CloseStream(c)
      PROVE  H3PoolInv' /\ [H3!Pool!Next]_H3!Pool!vars
  BY <1>8, H3ReleaseStep
<1>9. ASSUME NEW c \in Callers, H3!CloseRetired(c)
      PROVE  H3PoolInv' /\ [H3!Pool!Next]_H3!Pool!vars
  BY <1>9, H3CloseRetiredStep
<1>10. ASSUME NEW c \in Callers, H3!Cancel(c)
       PROVE  H3PoolInv' /\ [H3!Pool!Next]_H3!Pool!vars
  BY <1>10, H3CancelStep
<1>11. ASSUME NEW d \in H3!Dials, H3!Worker(d)
       PROVE  H3PoolInv' /\ [H3!Pool!Next]_H3!Pool!vars
  BY <1>11, RaceSteps, H3OpensStep, LateStep, WatchedStep DEF H3!Worker
<1>12. ASSUME NEW d \in H3!Dials, H3!PeerEnds(d)
       PROVE  H3PoolInv' /\ [H3!Pool!Next]_H3!Pool!vars
  BY <1>12, PeerStep
<1>13. CASE H3!CloseBegins \/ H3!CloseSessions \/ H3!CloseReturns
  BY <1>13, H3CloseSteps
<1> QED
  BY <1>1, <1>2, <1>3, <1>4, <1>5, <1>6, <1>7, <1>8, <1>9, <1>10, <1>11, <1>12, <1>13 DEF H3!Next, H3!Call

\* A behaviour of the composition is one of its H3 pool.
LEMMA H3Behaves == Spec => H3!Init /\ [][H3!Next]_H3!vars
<1>1. Init => H3!Init
  BY DEF Init
<1>2. [Next]_vars => [H3!Next]_H3!vars
  BY DEF Next, vars, h3Vars, H3!vars, H3!dialVars, H3!raceVars, H3!poolVars, H3!rest, H3!closeVars
<1> QED
  BY <1>1, <1>2, PTL DEF Spec

\* The inductive invariant holds in every state.
LEMMA H3Invariance == Spec => []H3PoolInv
<1>1. H3!Init => H3PoolInv
  BY H3InitInv
<1>2. H3PoolInv /\ [H3!Next]_H3!vars => H3PoolInv'
  BY H3PoolStep
<1> QED
  BY <1>1, <1>2, H3Behaves, PTL

\* A pool begins with connections that are ready.
LEMMA H3PoolInit == H3!Init => H3!Pool!Init
<1> SUFFICES ASSUME H3!Init PROVE H3!Pool!Init
  OBVIOUS
<1>1. /\ \A c \in Callers : h3caller[c].pc = "idle"
      /\ h3closer = "idle" /\ dead = [s \in H3!Dials |-> "no"]
      /\ \A s \in H3!Dials : h3session[s].auth \in {"none", "ready"}
  BY DEF H3!Init
<1>2. \A s \in H3!Dials : H3!Users(s) = {}
  BY <1>1 DEF H3!Users, H3!Holding
<1>3. {s \in H3!Dials : h3session[s].auth # "none" /\ dead[s] = "no"}
      = {s \in H3!Dials : h3session[s].auth = "ready"}
  BY <1>1
<1> QED
  BY <1>1, <1>2, <1>3 DEF H3!Pool!Init, H3!Closed

\* Every behaviour is one of the abstract pool.
LEMMA H3Refinement == Spec => H3!ImplementsPool
<1>1. H3!Init => H3!Pool!Init
  BY H3PoolInit
<1>2. H3PoolInv /\ [H3!Next]_H3!vars => [H3!Pool!Next]_H3!Pool!vars
  BY H3PoolStep
<1> QED
  BY <1>1, <1>2, H3Invariance, H3Behaves, PTL DEF H3!ImplementsPool, H3!Pool!Spec

\* Each UDP socket has an owner, and none is left when Close has returned.
LEMMA H3Owned == H3PoolInv => H3!SocketsOwned
<1> SUFFICES ASSUME H3PoolInv PROVE H3!SocketsOwned
  OBVIOUS
<1>1. H3TypeInv /\ H3DialInv /\ SocketInv /\ DoneInv
  BY DEF H3PoolInv
<1>2. Cardinality({d \in H3!Dials : h3dial[d] \in {"racing", "opened", "late"}}) <= 1
  <2>1. {d \in H3!Dials : h3dial[d] \in {"racing", "opened", "late"}} \subseteq {h3dialing}
    BY <1>1 DEF H3DialInv
  <2>2. IsFiniteSet({h3dialing}) /\ Cardinality({h3dialing}) = 1
    BY FS_Singleton
  <2>3. /\ IsFiniteSet({d \in H3!Dials : h3dial[d] \in {"racing", "opened", "late"}})
        /\ Cardinality({d \in H3!Dials : h3dial[d] \in {"racing", "opened", "late"}}) <= Cardinality({h3dialing})
    BY <2>1, <2>2, FS_Subset
  <2> QED
    BY <2>2, <2>3
<1>3. \A k \in sockets :
       \/ h3dial[k[1]] = "racing" /\ k[2] = winner[k[1]]
       \/ h3dial[k[1]] = "late" /\ k[2] = 0
       \/ k[2] = 0 /\ watcher[k[1]] \in {"watching", "closing"}
  <2> SUFFICES ASSUME NEW k \in sockets
               PROVE  \/ h3dial[k[1]] = "racing" /\ k[2] = winner[k[1]]
                      \/ h3dial[k[1]] = "late" /\ k[2] = 0
                      \/ k[2] = 0 /\ watcher[k[1]] \in {"watching", "closing"}
    OBVIOUS
  <2>1. k \in H3!Dials \X (Addresses \cup {0})
    BY <1>1 DEF H3TypeInv
  <2>2. k = <<k[1], k[2]>> /\ k[1] \in H3!Dials /\ k[2] \in Addresses \cup {0}
    BY <2>1
  <2> QED
    BY <1>1, <2>2 DEF SocketInv
<1>4. h3closer = "done" => sockets = {}
  <2> SUFFICES ASSUME h3closer = "done", NEW k \in sockets PROVE FALSE
    OBVIOUS
  <2>1. k[1] \in H3!Dials
    BY <1>1 DEF H3TypeInv
  <2> QED
    BY <1>1, <1>3, <2>1 DEF DoneInv, H3!WorkersDone
<1> QED
  BY <1>2, <1>3, <1>4, H3Count DEF H3!SocketsOwned

-----------------------------------------------------------------------------
(* Both pools. *)

\* Every open connection and UDP socket has an owner, whatever number of calls
\* share, fail and abandon them (runSessionDial, cleanupIdleSessionsLocked,
\* watchConnection, dialSessionAddresses).
THEOREM ConnectionsOwned == Spec => []EveryConnectionOwned
BY H2Invariance, H3Invariance, H2Owned, H3Owned, PTL DEF EveryConnectionOwned

\* Each connection is authenticated once, by one call, used by nobody before
\* that, and closed under no user (completeSessionBootstrap,
\* failSessionAuthentication, retireSession).
THEOREM PoolsImplementPromise == Spec => ImplementsPool
BY H2Refinement, H3Refinement, PTL DEF ImplementsPool
================================================================================
