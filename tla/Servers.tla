------------------------------- MODULE Servers -------------------------------
(***************************************************************************)
(* Bridge::run (src/src/bridge.rs): the start of the two servers, their    *)
(* accept loops and client ids, and the shutdown that terminate asks for,  *)
(* around the connections of the module Bridge.                            *)
(*                                                                         *)
(* One task polls both servers.  What they spawn, the WebSocket            *)
(* connections and the HTTP connections, outlives it: no end of the run    *)
(* tells them, except that the SSE server's own shutdown waits for its     *)
(* connections.                                                            *)
(***************************************************************************)
EXTENDS Bridge

CONSTANT
    ServerFaults     \* which of the servers' own calls may fail

ASSUME ServersAssumption == ServerFaults \subseteq {"connect", "bind", "accept"}

VARIABLES
    run,             \* where Bridge::run is
    cancelled,       \* the cancellation token
    wsServer,        \* WebSocketServer::start; "off" when it is not configured
    sseServer,       \* server_push::server; "off" when it is not configured
    nextWs,          \* next_client_id
    nextSse,         \* client_id_counter
    linked           \* clients with a connection that a server has accepted

serverVars == <<run, cancelled, wsServer, sseServer, nextWs, nextSse, linked>>
serversVars == <<bridgeVars, serverVars>>

\* The types of the variables.
ServersTypeOK ==
    /\ BridgeTypeOK
    /\ run \in {"connecting", "authenticating", "serving",
                "returned", "failed", "panicked"}
    /\ cancelled \in BOOLEAN
    /\ wsServer \in {"off", "binding", "accepting", "stopped"}
    /\ sseServer \in {"off", "binding", "accepting", "draining", "stopped"}
    /\ nextWs \in Nat
    /\ nextSse \in Nat
    /\ linked \subseteq Client

\* Any of the four configurations.
ServersInit ==
    /\ BridgeInit
    /\ run = "connecting"
    /\ cancelled = FALSE
    /\ wsServer \in {"off", "binding"}
    /\ sseServer \in {"off", "binding"}
    /\ nextWs = 0
    /\ nextSse = 0
    /\ linked = {}

Configured == wsServer # "off" \/ sseServer # "off"
Ended == run \in {"returned", "failed", "panicked"}
May(fault) == fault \in ServerFaults

-----------------------------------------------------------------------------
(* Start *)

\* The sessions are opened one after the other; `?` ends the run with the first
\* that fails, and so does a configuration without a frontend.
Connect ==
    /\ \/ run = "connecting" /\ AuthRequired /\ run' = "authenticating"
       \/ /\ run = IF AuthRequired THEN "authenticating" ELSE "connecting"
          /\ run' = IF Configured THEN "serving" ELSE "failed"
       \/ /\ run \in {"connecting", "authenticating"} /\ May("connect")
          /\ run' = "failed"
    /\ UNCHANGED <<bridgeVars, cancelled, wsServer, sseServer, nextWs, nextSse,
                   linked>>

\* The one server returns its error, and try_join drops the other.
WsBind ==
    /\ run = "serving" /\ wsServer = "binding"
    /\ \/ wsServer' = "accepting" /\ UNCHANGED run
       \/ May("bind") /\ run' = "failed" /\ UNCHANGED wsServer
    /\ UNCHANGED <<bridgeVars, cancelled, sseServer, nextWs, nextSse, linked>>

\* The other does not: its `expect` panics in the task of the run.
SseBind ==
    /\ run = "serving" /\ sseServer = "binding"
    /\ \/ sseServer' = "accepting" /\ UNCHANGED run
       \/ May("bind") /\ run' = "panicked" /\ UNCHANGED sseServer
    /\ UNCHANGED <<bridgeVars, cancelled, wsServer, nextWs, nextSse, linked>>

-----------------------------------------------------------------------------
(* Connections *)

\* The id is taken before the handshake, which may fail.
WsAccept(c) ==
    /\ run = "serving" /\ wsServer = "accepting"
    /\ c \in WsClient /\ IdOf[c] = nextWs
    /\ nextWs' = nextWs + 1
    /\ linked' \in {linked, linked \cup {c}}
    /\ UNCHANGED <<bridgeVars, run, cancelled, wsServer, sseServer, nextSse>>

\* `result?`: a single accept that fails ends the run, not the connections.
WsAcceptFails ==
    /\ run = "serving" /\ wsServer = "accepting" /\ May("accept")
    /\ run' = "failed"
    /\ UNCHANGED <<bridgeVars, cancelled, wsServer, sseServer, nextWs, nextSse,
                   linked>>

SseAccept(c) ==
    /\ run = "serving" /\ sseServer = "accepting"
    /\ c \in SseClient /\ phase[c] = "request"
    /\ linked' = linked \cup {c}
    /\ UNCHANGED <<bridgeVars, run, cancelled, wsServer, sseServer, nextWs,
                   nextSse>>

\* An HTTP connection ends, without a request, after one that was refused, or
\* after the one it served.
SseLeaves(c) ==
    /\ c \in linked \cap SseClient
    /\ phase[c] \notin {"listening", "streaming"}
    /\ linked' = linked \ {c}
    /\ UNCHANGED <<bridgeVars, run, cancelled, wsServer, sseServer, nextWs,
                   nextSse>>

\* A peer acts on its connection; a request that is admitted takes the next id.
Served(c) ==
    /\ c \in linked
    /\ Peer(c)
    /\ phase[c] = "request" => IdOf[c] = nextSse
    /\ nextSse' = IF phase[c] = "request" THEN nextSse + 1 ELSE nextSse
    /\ UNCHANGED <<run, cancelled, wsServer, sseServer, nextWs, linked>>

-----------------------------------------------------------------------------
(* Shutdown *)

\* terminate()
Terminate ==
    /\ ~cancelled
    /\ cancelled' = TRUE
    /\ UNCHANGED <<bridgeVars, run, wsServer, sseServer, nextWs, nextSse, linked>>

\* The run returns when no server is left that is still running.
Joined(ws, sse) ==
    run' = IF ws \in {"off", "stopped"} /\ sse \in {"off", "stopped"}
           THEN "returned" ELSE run

\* Mutant: the loop waits for the connections it has spawned.
WsStops_Joins ==
    /\ run = "serving" /\ wsServer = "accepting" /\ cancelled
    /\ \A c \in linked \cap WsClient : phase[c] = "closed"
    /\ wsServer' = "stopped"
    /\ Joined("stopped", sseServer)
    /\ UNCHANGED <<bridgeVars, cancelled, sseServer, nextWs, nextSse, linked>>

\* select! takes the cancellation or one more connection, whichever it polls
\* first; the connections are neither told nor waited for.
WsStops ==
    /\ run = "serving" /\ wsServer = "accepting" /\ cancelled
    /\ wsServer' = "stopped"
    /\ Joined("stopped", sseServer)
    /\ UNCHANGED <<bridgeVars, cancelled, sseServer, nextWs, nextSse, linked>>

SseDrains ==
    /\ run = "serving" /\ sseServer = "accepting" /\ cancelled
    /\ sseServer' = "draining"
    /\ UNCHANGED <<bridgeVars, run, cancelled, wsServer, nextWs, nextSse, linked>>

\* Mutant: a server that is not shut down gracefully.
SseStops_AtOnce ==
    /\ run = "serving" /\ sseServer = "draining"
    /\ sseServer' = "stopped"
    /\ Joined(wsServer, "stopped")
    /\ UNCHANGED <<bridgeVars, cancelled, wsServer, nextWs, nextSse, linked>>

\* with_graceful_shutdown: the last HTTP connection is gone.
SseStops ==
    /\ run = "serving" /\ sseServer = "draining"
    /\ linked \cap SseClient = {}
    /\ sseServer' = "stopped"
    /\ Joined(wsServer, "stopped")
    /\ UNCHANGED <<bridgeVars, cancelled, wsServer, nextWs, nextSse, linked>>

-----------------------------------------------------------------------------

\* What the task of the run does when nothing disturbs it.
RunStep == Connect \/ WsBind \/ SseBind \/ WsStops \/ SseDrains \/ SseStops

\* A step of what the servers have spawned, and of the session once there is one.
Spawned ==
    /\ \/ \E c \in Client : ClientTask(c) \/ Drain(c) \/ Call(c)
       \/ Deliver
       \/ run # "connecting" /\ Session
    /\ UNCHANGED serverVars

ServersNext ==
    \/ RunStep \/ Terminate \/ WsAcceptFails
    \/ \E c \in Client : WsAccept(c) \/ SseAccept(c) \/ SseLeaves(c) \/ Served(c)
    \/ Spawned

ServersSpec == ServersInit /\ [][ServersNext]_serversVars

\* A connection of a server that drains is closed when its request is over.
SseCloses(c) ==
    sseServer = "draining" /\ phase[c] # "request" /\ SseLeaves(c)

\* As in Bridge; and the run goes on when it can.
ServersFairness ==
    /\ WF_serversVars(RunStep)
    /\ WF_serversVars(Deliver /\ UNCHANGED serverVars)
    /\ \A c \in Client :
          /\ WF_serversVars(Call(c) /\ UNCHANGED serverVars)
          /\ WF_serversVars(ClientTask(c) /\ UNCHANGED serverVars)
          /\ WF_serversVars(Drain(c) /\ UNCHANGED serverVars)
          /\ WF_serversVars(SseCloses(c))

ServersFairSpec == ServersSpec /\ ServersFairness

-----------------------------------------------------------------------------
(* Properties *)

\* A run that has returned has given up no SSE request on the way: each of them
\* was answered and its stream closed before (server_push.rs:70, "Use graceful
\* shutdown").
DrainedReturn ==
    run = "returned" =>
        \A c \in SseClient : phase[c] \notin {"listening", "streaming"}

\* An HTTP connection that keeps the SSE server.
Open(c) == c \in linked /\ phase[c] \in {"request", "listening", "streaming"}

\* "Initiate graceful shutdown of the bridge" (bridge.rs:60): whenever it is
\* asked for, during the start included, the run ends, provided that the HTTP
\* peers leave in the end.  WebSocket peers need not.
Terminates ==
    (<>[](\A c \in SseClient : ~Open(c))) => (cancelled ~> Ended)

=============================================================================
