------------------------------- MODULE MCServers -------------------------------
(***************************************************************************)
(* Instances of ExitServers.                                               *)
(*                                                                         *)
(* Native: three connections of one source, two of QUIC, of which one      *)
(* carries two streams, and one of TLS.  Web: two TLS connections and a    *)
(* QUIC connection of one source competing for two slots, with no request; *)
(* or three requests on one TLS connection; or one request on a QUIC       *)
(* connection beside a TLS connection.                                     *)
(***************************************************************************)
EXTENDS ExitServers, TLC

CONSTANTS
  q1, q2, t1, x1, x2, y1,          \* native connections and their streams
  h1, h2, u1, r1, r2, r3, p1,      \* web connections and their requests
  home
-----------------------------------------------------------------------------
(* The native exit. *)

TheNativeConns == {q1, q2, t1}
TheNativeKinds == [c \in TheNativeConns |-> IF c = t1 THEN "tls" ELSE "quic"]
TheNativeSources == [c \in TheNativeConns |-> home]
TheNativeStreams == {x1, x2, y1}
TheNativeOwners == [x \in TheNativeStreams |-> IF x = y1 THEN t1 ELSE q1]

\* One budget of two connections for both servers, with one share per source.
Sharing == [shared |-> 2, maxQUIC |-> 0, maxTLS |-> 2, maxClient |-> 1,
            maxStreams |-> 0, sharedStreams |-> 1]
\* The defaults: a budget for each server.
Separate == [shared |-> 0, maxQUIC |-> 0, maxTLS |-> 0, maxClient |-> 0,
             maxStreams |-> 0, sharedStreams |-> 0]
\* Refused: an explicit limit that is not the shared one, too large a share.
Mismatch == [Sharing EXCEPT !.maxQUIC = 1]
Greedy == [Sharing EXCEPT !.maxClient = 3]

Scene(cfg, arrives, stops) == cfg @@ [arrives |-> arrives, stops |-> stops]
TheConfigs ==
  {Scene(Sharing, {q1, q2, t1, y1}, {"quic"}), Scene(Sharing, {q1, t1, x1, y1}, {"tls"}),
   Scene(Separate, {q1, q2, x1, x2}, {"quic"}), Scene(Separate, {q1, t1, x1, x2, y1}, {"tls"}),
   Scene(Mismatch, {q1, q2, t1, y1}, {}), Scene(Greedy, {q1, q2, t1, y1}, {})}
-----------------------------------------------------------------------------
(* The web origin. *)

TheWebConns == {h1, h2, u1}
TheWebKinds == [c \in TheWebConns |-> IF c = u1 THEN "h3" ELSE "h2"]
TheWebSources == [c \in TheWebConns |-> home]
TheWebRequests == {r1, r2, r3, p1}
TheWebOwners == [r \in TheWebRequests |-> IF r = p1 THEN u1 ELSE h1]

Coming == {c \in WebConns : webConn[c].pc = "new"}
Asking == {r \in WebRequests : request[r].pc = "idle"}
WebScene ==
  \/ Coming = {h1, h2, u1} /\ Asking = {} /\ boot.stops
  \/ Coming = {h1} /\ Asking = {r1, r2, r3} /\ ~boot.stops
  \/ Coming = {h1, u1} /\ Asking = {p1} /\ boot.stops
NoWeb == Coming = {} /\ Asking = {} /\ boot.fixed /\ ~boot.stops
NoNative == ~shared /\ scene.stops = {"quic"}
-----------------------------------------------------------------------------
\* The scenes that are run, of all those of Init (a bound).
SceneInit ==
  /\ Init
  /\ \/ protocol = "native" /\ NoWeb
     \/ protocol = "web" /\ NoNative /\ WebScene

SceneSpec == SceneInit /\ [][Next]_vars /\ WF_vars(Progress)
=============================================================================
