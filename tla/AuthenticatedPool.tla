---------------------------- MODULE AuthenticatedPool ----------------------------
(***************************************************************************)
(* What a pool of authenticated connections promises its callers: on each  *)
(* connection one call leads the authentication, nobody else uses the      *)
(* connection before it is established, and it is not closed under its     *)
(* users unless it failed, was lost, or the whole client is closed.        *)
(*                                                                         *)
(* WebH2Client and WebH3Client keep this promise by different means;       *)
(* H2SessionPool and H3SessionPool are shown to implement this module.     *)
(***************************************************************************)
EXTENDS FiniteSets

CONSTANTS Sessions, Callers

VARIABLES
  auth,      \* [Sessions -> "none", "fresh", "bootstrapping", "ready", "failed"]
  users,     \* [Sessions -> the calls that hold the connection]
  open,      \* the connections that are open
  lost,      \* the connections the network has ended
  shut       \* the client is closed

vars == <<auth, users, open, lost, shut>>

\* A pool may be taken over with connections that are ready.
Init ==
  /\ auth \in [Sessions -> {"none", "ready"}]
  /\ users = [s \in Sessions |-> {}]
  /\ open = {s \in Sessions : auth[s] = "ready"}
  /\ lost = {}
  /\ shut = FALSE

Opens(s) ==
  /\ auth[s] = "none"
  /\ auth' = [auth EXCEPT ![s] = "fresh"]
  /\ open' = open \cup {s}
  /\ UNCHANGED <<users, lost, shut>>

\* The only way past "fresh", and nothing leads back to it.
Lead(s, c) ==
  /\ auth[s] = "fresh" /\ ~shut
  /\ auth' = [auth EXCEPT ![s] = "bootstrapping"]
  /\ users' = [users EXCEPT ![s] = @ \cup {c}]
  /\ UNCHANGED <<open, lost, shut>>

Establish(s) ==
  /\ auth[s] = "bootstrapping" /\ ~shut
  /\ auth' = [auth EXCEPT ![s] = "ready"]
  /\ UNCHANGED <<users, open, lost, shut>>

Join(s, c) ==
  /\ auth[s] = "ready" /\ ~shut
  /\ users' = [users EXCEPT ![s] = @ \cup {c}]
  /\ UNCHANGED <<auth, open, lost, shut>>

Fail(s) ==
  /\ auth' = [auth EXCEPT ![s] = "failed"]
  /\ UNCHANGED <<users, open, lost, shut>>

\* A call gives the connection back.
Leave(s, c) ==
  /\ c \in users[s]
  /\ users' = [users EXCEPT ![s] = @ \ {c}]
  /\ UNCHANGED <<auth, open, lost, shut>>

Closes(ss) ==
  /\ ss \subseteq open
  /\ \A s \in ss : users[s] = {} \/ auth[s] = "failed" \/ s \in lost \/ shut
  /\ open' = open \ ss
  /\ UNCHANGED <<auth, users, lost, shut>>

Loses(s) ==
  /\ lost' = lost \cup {s}
  /\ open' = open \ {s}
  /\ UNCHANGED <<auth, users, shut>>

Shut ==
  /\ shut' = TRUE
  /\ UNCHANGED <<auth, users, open, lost>>

Next ==
  \/ \E s \in Sessions : Opens(s) \/ Establish(s) \/ Fail(s) \/ Loses(s)
  \/ \E s \in Sessions, c \in Callers : Lead(s, c) \/ Join(s, c) \/ Leave(s, c)
  \/ \E ss \in SUBSET Sessions : Closes(ss)
  \/ Shut

Spec == Init /\ [][Next]_vars
=============================================================================
