------------------------------ MODULE MCServers ------------------------------
(* Servers and Metrics for TLC, with the client ids that the servers give. *)
EXTENDS Metrics, MCBridge

\* Every WebSocket connection is the first of its server, and the SSE requests
\* are numbered in some order.
Numbered == CHOOSE f \in [Client -> ClientId] :
                /\ \A c \in WsClient : f[c] = 0
                /\ \A c, d \in SseClient : f[c] = f[d] => c = d
                /\ \E c \in SseClient : f[c] = 0

=============================================================================
