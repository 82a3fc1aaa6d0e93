------------------------------- MODULE ExitServers -------------------------------
(***************************************************************************)
(* The exit process: it runs the two native listeners or the web origin,   *)
(* as --protocol says.  The other one does not exist; here it stays at one *)
(* initial state.                                                          *)
(***************************************************************************)
EXTENDS FiniteSets, Integers

CONSTANTS
  NativeConns, NativeKinds, NativeSources,     \* native connections
  NativeStreams, NativeOwners,                 \* their request streams
  NativeConfigs,
  DefaultMaxConnections, DefaultMaxClientConnections, DefaultMaxStreams,
  WebConns, WebKinds, WebSources,              \* web connections
  WebRequests, WebOwners,                      \* their requests
  Attempts, MaxConnections, MaxClientConnections, MaxStreams,
  None

VARIABLES
  protocol,      \* "native" or "web"
  scene, shared, limits, budget, slots, clients, serve, held, closing, closer,
  wg, conns, conn, timer, stream, upstream, streamSem, coreSem,
  boot, webSlots, webClients, webConn, owner, doomed, side, canceled, closers,
  webServe, gate, request, webUpstream, webCoreSem

nativeVars ==
  <<scene, shared, limits, budget, slots, clients, serve, held, closing, closer,
    wg, conns, conn, timer, stream, upstream, streamSem, coreSem>>
webVars ==
  <<boot, webSlots, webClients, webConn, owner, doomed, side, canceled, closers,
    webServe, gate, request, webUpstream, webCoreSem>>
vars == <<protocol, nativeVars, webVars>>

Native == INSTANCE NativeServers WITH
  Conns <- NativeConns, KindOf <- NativeKinds, SourceOf <- NativeSources,
  Streams <- NativeStreams, ConnOf <- NativeOwners, Configs <- NativeConfigs

Web == INSTANCE WebServer WITH
  Conns <- WebConns, KindOf <- WebKinds, SourceOf <- WebSources,
  Requests <- WebRequests, ConnOf <- WebOwners,
  slots <- webSlots, clients <- webClients, conn <- webConn, serve <- webServe,
  upstream <- webUpstream, coreSem <- webCoreSem

\* Connections, streams and requests are finitely many, each of its kind; the
\* limits are integers.
NativeAssumption ==
  /\ IsFiniteSet(NativeConns) /\ IsFiniteSet(NativeStreams)
  /\ NativeKinds \in [NativeConns -> Native!Kinds]
  /\ NativeOwners \in [NativeStreams -> NativeConns]
  /\ None \notin NativeConns
  /\ DefaultMaxStreams \in Int
  /\ \A cfg \in NativeConfigs : cfg.maxStreams \in Int /\ cfg.sharedStreams \in Int
WebAssumption ==
  /\ IsFiniteSet(WebConns)
  /\ WebKinds \in [WebConns -> Web!Sides]
  /\ WebOwners \in [WebRequests -> WebConns]
ASSUME ServersAssumption == NativeAssumption /\ WebAssumption
-----------------------------------------------------------------------------
Init ==
  /\ Native!Init /\ Web!Init
  /\ protocol \in {"native", "web"}

Next ==
  \/ protocol = "native" /\ Native!Next /\ UNCHANGED <<protocol, webVars>>
  \/ protocol = "web" /\ Web!Next /\ UNCHANGED <<protocol, nativeVars>>

Progress ==
  \/ protocol = "native" /\ Native!Progress /\ UNCHANGED <<protocol, webVars>>
  \/ protocol = "web" /\ Web!Progress /\ UNCHANGED <<protocol, nativeVars>>

Spec == Init /\ [][Next]_vars /\ WF_vars(Progress)
-----------------------------------------------------------------------------
\* Once a native server's Close has returned, none of its connections is
\* served, no stream of it works, and no destination it dialed is open; no
\* socket of the web origin survives its Close, nor a failed ListenWeb.
NothingAfterClose == Native!NothingAfterClose /\ Web!NoStraySocket

\* While Close of the QUIC server waits, no connection with a request is open
\* (what the comment of QUICServer.Close says).
ActiveConnectionsClosed == Native!ActiveConnectionsClosed

\* On each web connection at most one request verifies a full credential, and
\* the gate is bootstrapping exactly as long as one does.
OneLeader == Web!OneLeader

\* The native listeners, with one budget or two, and the web listeners, with
\* one, implement connection admission.
ImplementsSlotPool == Native!ImplementsSlotPool /\ Web!ImplementsSlotPool

\* The native servers and the web origin come to rest: Close returns, Serve
\* returns when one listener does, no request waits at a gate for ever, and
\* what was taken is given back.
Settles ==
  <>[](IF protocol = "native" THEN Native!Settled ELSE Web!Settled)
=============================================================================
