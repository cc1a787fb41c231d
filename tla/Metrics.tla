------------------------------- MODULE Metrics -------------------------------
(***************************************************************************)
(* The connection gauges of src/src/metrics.rs, raised and lowered along   *)
(* the steps of the module Servers.                                        *)
(***************************************************************************)
EXTENDS Servers

VARIABLES
    wsActive,    \* alle_websocket_connections_active
    sseActive    \* alle_sse_connections_active

gauges == <<wsActive, sseActive>>

MetricsInit == ServersInit /\ wsActive = 0 /\ sseActive = 0

\* c's connection or request comes to its end with this step.
Over(c) == phase[c] # "closed" /\ phase'[c] = "closed"

\* Mutant: a cleanup that failed returns before ws_disconnected().
WsUncounted_IfCleaned == {c \in WsClient : Over(c) /\ pc[c] = "ok"}

\* ws_disconnected(): at the end of the connection, whatever its cleanup returned.
WsUncounted == {c \in WsClient : Over(c)}

\* sse_disconnected(): at the end of a cleanup that succeeded; a failed one panics
\* before, and a request that is refused or panics has no cleanup.
SseUncounted == {c \in SseClient : Over(c) /\ phase[c] = "cleaning" /\ pc[c] = "ok"}

\* ws_connected() follows the handshake, sse_connected() the taking of the id.
MetricsNext ==
    /\ ServersNext
    /\ wsActive' = wsActive + Cardinality(WsClient \cap (linked' \ linked))
                            - Cardinality(WsUncounted)
    /\ sseActive' = sseActive + (nextSse' - nextSse) - Cardinality(SseUncounted)

MetricsSpec ==
    MetricsInit /\ [][MetricsNext]_<<serversVars, gauges>> /\ ServersFairness

-----------------------------------------------------------------------------
(* Safety *)

\* "Current active WebSocket connections" (bridge.rs:71): exactly those, whatever
\* fails.  The gauge of the SSE requests leaks upwards only: it counts every
\* request that is still subscribed or has still to be cleaned up.
GaugesCover ==
    /\ wsActive = Cardinality({c \in WsClient \cap linked : phase[c] # "closed"})
    /\ sseActive >= Cardinality({c \in SseClient :
                                    phase[c] \notin {"request", "closed"}})

=============================================================================
