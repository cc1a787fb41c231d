---------------------------- MODULE ServersProofs ----------------------------
(***************************************************************************)
(* Theorems about Servers: what the servers let the connections do is a    *)
(* part of what Bridge specifies, and a run that returns has drained them. *)
(***************************************************************************)
EXTENDS Metrics, BridgeProofs, FiniteSetTheorems

\* The parts of a step of the servers, one that leaves the connections alone
\* included.
LEMMA ServersParts ==
  ASSUME [ServersNext]_serversVars
  PROVE  \/ UNCHANGED bridgeVars
         \/ \E c \in Client : Served(c)
         \/ Spawned
<1>1. ASSUME RunStep \/ Terminate \/ WsAcceptFails
      PROVE  UNCHANGED bridgeVars
  BY <1>1 DEF RunStep, Connect, WsBind, SseBind, WsStops, SseDrains, SseStops,
              Terminate, WsAcceptFails
<1>2. ASSUME NEW c \in Client, WsAccept(c) \/ SseAccept(c) \/ SseLeaves(c)
      PROVE  UNCHANGED bridgeVars
  BY <1>2 DEF WsAccept, SseAccept, SseLeaves
<1> QED
  BY <1>1, <1>2 DEF ServersNext, serversVars

\* A step of the servers is a step of the bridge or leaves it alone.
LEMMA ServersStepRefines ==
  ASSUME [ServersNext]_serversVars
  PROVE  [BridgeNext]_bridgeVars
<1>1. ASSUME NEW c \in Client, Served(c)
      PROVE  BridgeNext
  BY <1>1 DEF Served, BridgeNext
<1>2. CASE Spawned
  BY <1>2 DEF Spawned, BridgeNext
<1> QED
  BY <1>1, <1>2, ServersParts

\* The servers only restrict when a connection begins and which id it has, so
\* that whatever holds of the bridge holds under them.
THEOREM ServersImplement == ServersSpec => BridgeSpec
<1>1. ServersInit => BridgeInit
  BY DEF ServersInit
<1>2. [ServersNext]_serversVars => [BridgeNext]_bridgeVars
  BY ServersStepRefines
<1> QED
  BY <1>1, <1>2, PTL DEF ServersSpec, BridgeSpec

\* The variables of the servers have their types.
THEOREM ServersTypeCorrect == ServersSpec => []ServersTypeOK
<1>1. ServersInit /\ BridgeTypeOK => ServersTypeOK
  <2>1. ServersInit => cancelled \in BOOLEAN /\ linked \subseteq Client
    BY DEF ServersInit
  <2>2. ServersInit => nextWs \in Nat /\ nextSse \in Nat
    BY DEF ServersInit
  <2> QED
    BY <2>1, <2>2, Zenon DEF ServersInit, ServersTypeOK
<1>2. ASSUME ServersTypeOK, BridgeTypeOK', [ServersNext]_serversVars
      PROVE  ServersTypeOK'
  <2> USE DEF ServersTypeOK
  <2>1. CASE Connect \/ WsBind \/ SseBind \/ WsAcceptFails \/ Terminate
    BY <1>2, <2>1 DEF Connect, WsBind, SseBind, WsAcceptFails, Terminate
  <2>2. CASE WsStops \/ SseDrains \/ SseStops
    BY <1>2, <2>2 DEF WsStops, SseDrains, SseStops, Joined
  <2>3. ASSUME NEW c \in Client,
               WsAccept(c) \/ SseAccept(c) \/ SseLeaves(c) \/ Served(c)
        PROVE  ServersTypeOK'
    BY <1>2, <2>3 DEF WsAccept, SseAccept, SseLeaves, Served
  <2>4. CASE Spawned \/ UNCHANGED serversVars
    BY <1>2, <2>4 DEF Spawned, serversVars, serverVars
  <2> QED
    BY <1>2, <2>1, <2>2, <2>3, <2>4 DEF ServersNext, RunStep
<1> QED
  BY <1>1, <1>2, ServersImplement, BridgeTypeCorrect, PTL DEF ServersSpec

-----------------------------------------------------------------------------
(* The SSE server's shutdown *)

Requested(c) == phase[c] \in {"listening", "streaming"}

\* A request is served on a connection that is still open, the server that does
\* not accept has none, and the run outlasts the server.
Attended ==
    /\ \A c \in SseClient : Requested(c) => c \in linked
    /\ sseServer \in {"off", "binding", "stopped"} => linked \cap SseClient = {}
    /\ run = "returned" => sseServer \in {"off", "stopped"}

\* The steps of the servers keep their connections attended.
LEMMA AttendedStep ==
  ASSUME BridgeTypeOK, Attended, [ServersNext]_serversVars
  PROVE  Attended'
<1>1. ASSUME UNCHANGED phase, UNCHANGED linked, UNCHANGED <<run, sseServer>>
      PROVE  Attended'
  BY <1>1 DEF Attended, Requested
<1>2. CASE Connect \/ WsBind \/ SseBind \/ WsAcceptFails \/ Terminate
  BY <1>2 DEF Connect, WsBind, SseBind, WsAcceptFails, Terminate, bridgeVars,
              clientVars, Attended, Requested
<1>3. CASE WsStops \/ SseDrains \/ SseStops
  BY <1>3 DEF WsStops, SseDrains, SseStops, Joined, bridgeVars, clientVars,
              Attended, Requested
<1>4. ASSUME NEW c \in Client, WsAccept(c) \/ SseAccept(c) \/ SseLeaves(c)
      PROVE  Attended'
  BY <1>4, BridgeAssumption DEF WsAccept, SseAccept, SseLeaves, bridgeVars,
              clientVars, Attended, Requested
<1>5. ASSUME NEW c \in Client, Served(c)
      PROVE  Attended'
  <2>1. UNCHANGED <<run, sseServer, linked>> /\ c \in linked /\ [BridgeNext]_bridgeVars
    BY <1>5 DEF Served, BridgeNext
  <2>2. ASSUME NEW d \in SseClient, Requested(d)'
        PROVE  d \in linked
    <3>1. CASE d = c
      BY <2>1, <3>1
    <3>2. CASE d # c
      <4>1. phase'[d] = phase[d]
        BY <1>5, <3>2, BridgeAssumption DEF BridgeTypeOK, Served, Peer, Goto,
           WsHangup, SseAborted, SseHangup, WsAuthenticate, SseInvalid,
           WsSubscribe, WsUnsubscribe, WsNotify, SseRequest, clientVars
      <4> QED
        BY <2>2, <4>1 DEF Attended, Requested
    <3> QED
      BY <3>1, <3>2
  <2> QED
    BY <2>1, <2>2 DEF Attended
<1>6. CASE Spawned
  <2>1. UNCHANGED <<run, sseServer, linked>>
    BY <1>6 DEF Spawned, serverVars
  <2>2. ASSUME NEW c \in Client, Requested(c)'
        PROVE  Requested(c)
    BY <1>6, <2>2 DEF Spawned, ClientTask, Drain, Call, Deliver, Session, WsReply,
       WsCleanup, SseResponse, SsePanics, SseFieldsDropped, SseCleanup, Closed,
       WsNotification, SseEvent, clientVars, BridgeTypeOK, Requested, Goto
  <2> QED
    BY <2>1, <2>2, BridgeAssumption DEF Attended
<1>7. CASE UNCHANGED serversVars
  BY <1>1, <1>7 DEF serversVars, serverVars, bridgeVars, clientVars
<1> QED
  BY <1>2, <1>3, <1>4, <1>5, <1>6, <1>7 DEF ServersNext, RunStep

\* When the run has returned, no SSE request is being served: each was answered
\* and its stream closed before.
THEOREM ReturnIsDrained == ServersSpec => []DrainedReturn
<1>1. ServersInit => Attended
  BY BridgeAssumption DEF ServersInit, BridgeInit, Attended, Requested
<1>2. BridgeTypeOK /\ Attended /\ [ServersNext]_serversVars => Attended'
  BY AttendedStep
<1>3. Attended => DrainedReturn
  BY DEF Attended, Requested, DrainedReturn
<1> QED
  BY <1>1, <1>2, <1>3, ServersImplement, BridgeTypeCorrect, PTL DEF ServersSpec

-----------------------------------------------------------------------------
(* The gauges *)

\* A step with gauges is a step of the servers.
THEOREM MetricsImplement == MetricsSpec => ServersSpec
<1>1. MetricsInit => ServersInit
  BY DEF MetricsInit
<1>2. [MetricsNext]_<<serversVars, gauges>> => [ServersNext]_serversVars
  BY DEF MetricsNext
<1> QED
  BY <1>1, <1>2, PTL DEF MetricsSpec, ServersSpec

\* The WebSocket connections and the SSE requests that a gauge has to count.
Live == {c \in WsClient \cap linked : phase[c] # "closed"}
Busy == {c \in SseClient : phase[c] \notin {"request", "closed"}}

\* The gauges cover what they count, of which there is finitely much; a WebSocket
\* connection that no server has accepted has not begun.
Gauged ==
    /\ IsFiniteSet(Live) /\ wsActive = Cardinality(Live)
    /\ IsFiniteSet(Busy) /\ sseActive \in Int /\ sseActive >= Cardinality(Busy)
    /\ \A c \in WsClient \ linked : phase[c] = "loop"

\* c's phase changes, from what a peer or its own task may leave, and no other's.
Moves(c, from) ==
    /\ phase[c] \in from \ {"closed"}
    /\ \E p : p # "request" /\ phase' = [phase EXCEPT ![c] = p]
    /\ phase'[c] = "closed" => phase[c] # "loop"

\* A connection's own task moves it on from a phase that a peer began, or drops
\* its receiver.
LEMMA TaskMoves ==
  ASSUME BridgeTypeOK, NEW c \in Client, ClientTask(c)
  PROVE  \/ Moves(c, {"listening", "dropped", "subscribing", "unsubscribing",
                      "cleanup", "cleaning"})
         \/ UNCHANGED phase
BY DEF ClientTask, WsReply, WsCleanup, SseResponse, SsePanics, SseFieldsDropped,
       SseCleanup, Closed, Goto, Moves, clientVars, BridgeTypeOK

\* A peer moves its connection on from a phase that waits for it, or leaves it
\* where it is, and then it is past its request.
LEMMA PeerMoves ==
  ASSUME BridgeTypeOK, NEW c \in Client, Peer(c)
  PROVE  \/ Moves(c, {"request", "listening", "streaming", "loop"})
         \/ UNCHANGED phase /\ phase[c] # "request"
<1> USE DEF Goto, Moves, BridgeTypeOK
<1>1. CASE WsHangup(c) \/ SseAborted(c) \/ SseHangup(c)
  BY <1>1 DEF WsHangup, SseAborted, SseHangup
<1>2. ASSUME NEW answer \in Answers, WsAuthenticate(c, answer) \/ SseInvalid(c, answer)
      PROVE  \/ Moves(c, {"request", "listening", "streaming", "loop"})
             \/ UNCHANGED phase /\ phase[c] # "request"
  BY <1>2 DEF WsAuthenticate, SseInvalid
<1>3. ASSUME NEW ch \in Channel,
             WsSubscribe(c, ch) \/ WsUnsubscribe(c, ch) \/ WsNotify(c, ch)
      PROVE  \/ Moves(c, {"request", "listening", "streaming", "loop"})
             \/ UNCHANGED phase /\ phase[c] # "request"
  BY <1>3 DEF WsSubscribe, WsUnsubscribe, WsNotify, clientVars
<1>4. ASSUME NEW chs \in SUBSET Channel, NEW answer \in Answers,
             SseRequest(c, chs, answer)
      PROVE  Moves(c, {"request", "listening", "streaming", "loop"})
  BY <1>4 DEF SseRequest
<1> QED
  BY <1>1, <1>2, <1>3, <1>4 DEF Peer

\* What a step of the servers means for the gauges: a connection is accepted, a
\* client moves on, its request being counted as it is admitted, or neither.
LEMMA GaugedParts ==
  ASSUME BridgeTypeOK, [MetricsNext]_<<serversVars, gauges>>
  PROVE  \/ /\ UNCHANGED <<phase, nextSse>>
            /\ WsClient \cap linked' = WsClient \cap linked
         \/ /\ UNCHANGED <<phase, nextSse>>
            /\ \E c \in WsClient : linked' = linked \cup {c}
         \/ /\ UNCHANGED linked
            /\ \E c \in Client :
                  \/ /\ c \in linked
                     /\ Moves(c, {"request", "listening", "streaming", "loop"})
                     /\ nextSse' = IF phase[c] = "request" THEN nextSse + 1 ELSE nextSse
                  \/ /\ Moves(c, {"listening", "dropped", "subscribing",
                                  "unsubscribing", "cleanup", "cleaning"})
                     /\ UNCHANGED nextSse
<1> USE DEF bridgeVars, clientVars
<1>1. CASE RunStep \/ Terminate \/ WsAcceptFails
  BY <1>1 DEF RunStep, Connect, WsBind, SseBind, WsStops, SseDrains, SseStops,
              Terminate, WsAcceptFails
<1>2. ASSUME NEW c \in Client, WsAccept(c)
      PROVE  /\ UNCHANGED <<phase, nextSse>>
             /\ \/ WsClient \cap linked' = WsClient \cap linked
                \/ c \in WsClient /\ linked' = linked \cup {c}
  BY <1>2 DEF WsAccept
<1>3. ASSUME NEW c \in Client, SseAccept(c) \/ SseLeaves(c)
      PROVE  /\ UNCHANGED <<phase, nextSse>>
             /\ WsClient \cap linked' = WsClient \cap linked
  BY <1>3, BridgeAssumption DEF SseAccept, SseLeaves
<1>4. ASSUME NEW c \in Client, Served(c)
      PROVE  /\ UNCHANGED linked /\ c \in linked
             /\ nextSse' = IF phase[c] = "request" THEN nextSse + 1 ELSE nextSse
             /\ \/ Moves(c, {"request", "listening", "streaming", "loop"})
                \/ UNCHANGED phase /\ phase[c] # "request"
  BY <1>4, PeerMoves DEF Served
<1>5. CASE Spawned
  <2>1. UNCHANGED <<linked, nextSse>>
    BY <1>5 DEF Spawned, serverVars
  <2>2. \/ \E c \in Client : ClientTask(c)
        \/ UNCHANGED phase
    BY <1>5 DEF Spawned, Drain, WsNotification, SseEvent, Call, Deliver, Session
  <2> QED
    BY <2>1, <2>2, TaskMoves
<1>6. CASE UNCHANGED serversVars
  BY <1>6 DEF serversVars, serverVars
<1>7. ServersNext \/ UNCHANGED serversVars
  BY DEF MetricsNext
<1> HIDE DEF bridgeVars, clientVars
<1> QED
  BY <1>1, <1>2, <1>3, <1>4, <1>5, <1>6, <1>7 DEF ServersNext

\* Nobody's connection is over while no phase changes.
LEMMA NoneOver == UNCHANGED phase => WsUncounted = {} /\ SseUncounted = {}
BY DEF WsUncounted, SseUncounted, Over

\* When c moves on, the gauges go down for c at most, and then c was counted.
LEMMA OneOver ==
  ASSUME BridgeTypeOK, Gauged, UNCHANGED linked, NEW c \in Client, NEW from,
         Moves(c, from), c \in linked \/ "loop" \notin from
  PROVE  /\ WsUncounted = IF c \in WsClient /\ phase'[c] = "closed" THEN {c} ELSE {}
         /\ Live' = Live \ WsUncounted /\ WsUncounted \subseteq Live
         /\ SseUncounted \in {{}, {c}}
         /\ SseUncounted \subseteq Busy /\ Busy' \cap SseUncounted = {}
         /\ phase[c] # "request" => Busy' \subseteq Busy
         /\ Busy' = Busy \/ Busy' = Busy \cup {c} \/ Busy' = Busy \ {c}
         /\ phase[c] = "request" => SseUncounted = {}
<1>1. PICK p : p # "request" /\ phase' = [phase EXCEPT ![c] = p]
  BY DEF Moves
<1>2. /\ phase'[c] = p /\ \A d \in Client \ {c} : phase'[d] = phase[d]
      /\ phase[c] \in from \ {"closed"} /\ (p = "closed" => phase[c] # "loop")
  BY <1>1 DEF Moves, BridgeTypeOK
<1>3. WsClient \subseteq Client /\ SseClient \subseteq Client
  BY BridgeAssumption
<1>4. c \in WsClient => c \in linked \/ p # "closed"
  BY <1>2 DEF Gauged
<1>5. WsUncounted = IF c \in WsClient /\ phase'[c] = "closed" THEN {c} ELSE {}
  BY <1>2, <1>3 DEF WsUncounted, Over
<1>6. Live' = Live \ WsUncounted /\ WsUncounted \subseteq Live
  BY <1>2, <1>3, <1>4, <1>5 DEF Live
<1>7. /\ SseUncounted \in {{}, {c}}
      /\ SseUncounted \subseteq Busy /\ Busy' \cap SseUncounted = {}
      /\ phase[c] = "request" => SseUncounted = {}
  BY <1>2, <1>3 DEF SseUncounted, Over, Busy
<1>8. /\ phase[c] # "request" => Busy' \subseteq Busy
      /\ Busy' = Busy \/ Busy' = Busy \cup {c} \/ Busy' = Busy \ {c}
  BY <1>1, <1>2, <1>3 DEF Busy
<1> QED
  BY <1>5, <1>6, <1>7, <1>8

\* The gauges cover what they count after every step.
LEMMA GaugedStep ==
  ASSUME ServersTypeOK, Gauged, [MetricsNext]_<<serversVars, gauges>>
  PROVE  Gauged'
<1>1. BridgeTypeOK /\ nextSse \in Nat
  BY DEF ServersTypeOK
<1>2. \/ UNCHANGED <<wsActive, sseActive, phase, linked>>
      \/ /\ wsActive' = wsActive + Cardinality(WsClient \cap (linked' \ linked))
                                 - Cardinality(WsUncounted)
         /\ sseActive' = sseActive + (nextSse' - nextSse) - Cardinality(SseUncounted)
  BY DEF MetricsNext, serversVars, serverVars, bridgeVars, clientVars, gauges
<1>3. /\ Cardinality(Live) \in Nat /\ Cardinality(Busy) \in Nat
      /\ wsActive \in Int /\ sseActive \in Int
      /\ Cardinality({}) = 0
  <2>1. Cardinality(Live) \in Nat /\ Cardinality(Busy) \in Nat
    BY FS_CardinalityType DEF Gauged
  <2> QED
    BY <2>1, FS_EmptySet DEF Gauged
<1> DEFINE wsNew == Cardinality(WsClient \cap (linked' \ linked))
           wsGone == Cardinality(WsUncounted)
           sseGone == Cardinality(SseUncounted)
<1>4. CASE UNCHANGED <<wsActive, sseActive, phase, linked>>
  BY <1>4 DEF Gauged, Live, Busy
<1>5. CASE /\ ~UNCHANGED <<wsActive, sseActive, phase, linked>>
           /\ UNCHANGED <<phase, nextSse>>
           /\ WsClient \cap linked' = WsClient \cap linked
  <2>1. WsClient \cap (linked' \ linked) = {} /\ WsUncounted = {} /\ SseUncounted = {}
    BY <1>5, NoneOver
  <2>2. wsActive' = wsActive /\ sseActive' = sseActive
    BY <1>1, <1>2, <1>3, <1>5, <2>1
  <2>3. Live' = Live /\ Busy' = Busy
    BY <1>5 DEF Live, Busy
  <2> QED
    BY <1>5, <2>2, <2>3 DEF Gauged
<1>6. ASSUME ~UNCHANGED <<wsActive, sseActive, phase, linked>>, UNCHANGED <<phase, nextSse>>,
             NEW c \in WsClient, linked' = linked \cup {c}
      PROVE  Gauged'
  <2>1. WsUncounted = {} /\ SseUncounted = {} /\ Busy' = Busy
    BY <1>6, NoneOver DEF Busy
  <2>2. sseActive' = sseActive
    BY <1>1, <1>2, <1>3, <1>6, <2>1
  <2>3. CASE c \in linked
    <3>1. WsClient \cap (linked' \ linked) = {} /\ Live' = Live
      BY <1>6, <2>3 DEF Live
    <3>2. wsActive' = wsActive
      BY <1>2, <1>3, <1>6, <2>1, <3>1
    <3> QED
      BY <1>6, <2>1, <2>2, <3>1, <3>2 DEF Gauged
  <2>4. CASE c \notin linked
    <3>1. WsClient \cap (linked' \ linked) = {c}
      BY <1>6, <2>4
    <3>2. Live' = Live \cup {c} /\ c \notin Live
      BY <1>6, <2>4 DEF Gauged, Live
    <3>3. wsActive' = wsActive + 1
      <4>1. wsNew = 1 /\ wsGone = 0
        BY <1>3, <2>1, <3>1, FS_Singleton
      <4> QED
        BY <1>2, <1>3, <1>6, <4>1
    <3>4. IsFiniteSet(Live') /\ Cardinality(Live') = Cardinality(Live) + 1
      BY <3>2, FS_AddElement DEF Gauged
    <3> QED
      BY <1>6, <2>1, <2>2, <3>3, <3>4 DEF Gauged
  <2> QED
    BY <2>3, <2>4
<1>7. ASSUME ~UNCHANGED <<wsActive, sseActive, phase, linked>>, UNCHANGED linked,
             NEW c \in Client, NEW from, Moves(c, from),
             c \in linked \/ "loop" \notin from,
             nextSse' = IF phase[c] = "request" THEN nextSse + 1 ELSE nextSse
      PROVE  Gauged'
  <2>1. WsClient \cap (linked' \ linked) = {}
    BY <1>7
  <2>2. IsFiniteSet(Live') /\ wsActive' = Cardinality(Live')
    <3>1. CASE WsUncounted = {}
      <4>1. wsActive' = wsActive
        <5>1. wsNew = 0 /\ wsGone = 0
          BY <1>3, <2>1, <3>1
        <5> QED
          BY <1>2, <1>3, <1>7, <5>1
      <4>2. Live' = Live
        BY <1>1, <1>7, <3>1, OneOver
      <4> QED
        BY <4>1, <4>2 DEF Gauged
    <3>2. CASE WsUncounted = {c}
      <4>1. wsActive' = wsActive - 1
        <5>1. wsNew = 0 /\ wsGone = 1
          BY <1>3, <2>1, <3>2, FS_Singleton
        <5> QED
          BY <1>2, <1>3, <1>7, <5>1
      <4>2. Live' = Live \ {c} /\ c \in Live
        BY <1>1, <1>7, <3>2, OneOver
      <4> QED
        BY <1>3, <4>1, <4>2, FS_RemoveElement DEF Gauged
    <3> QED
      BY <1>1, <1>7, <3>1, <3>2, OneOver
  <2>3. IsFiniteSet(Busy') /\ sseActive' \in Int /\ sseActive' >= Cardinality(Busy')
    <3>1. /\ IsFiniteSet(Busy \cup {c}) /\ IsFiniteSet(Busy \ {c})
          /\ Cardinality(Busy \cup {c}) <= Cardinality(Busy) + 1
          /\ Cardinality(Busy \ {c}) = IF c \in Busy THEN Cardinality(Busy) - 1
                                                     ELSE Cardinality(Busy)
      <4>1. IsFiniteSet(Busy)
        BY DEF Gauged
      <4> HIDE DEF Busy
      <4>2. /\ IsFiniteSet(Busy \cup {c})
            /\ Cardinality(Busy \cup {c}) = IF c \in Busy THEN Cardinality(Busy)
                                                        ELSE Cardinality(Busy) + 1
        BY <4>1, FS_AddElement
      <4>3. /\ IsFiniteSet(Busy \ {c})
            /\ Cardinality(Busy \ {c}) = IF c \in Busy THEN Cardinality(Busy) - 1
                                                     ELSE Cardinality(Busy)
        BY <4>1, FS_RemoveElement
      <4> QED
        BY <1>3, <4>2, <4>3
    <3>2. CASE phase[c] = "request"
      <4>1. sseActive' = sseActive + 1
        <5>1. SseUncounted = {}
          BY <1>1, <1>7, <3>2, OneOver
        <5>2. sseGone = 0 /\ nextSse' - nextSse = 1
          BY <1>1, <1>3, <1>7, <3>2, <5>1
        <5> QED
          BY <1>2, <1>3, <1>7, <5>2
      <4>2. Busy' = Busy \/ Busy' = Busy \cup {c} \/ Busy' = Busy \ {c}
        BY <1>1, <1>7, OneOver
      <4>3. /\ IsFiniteSet(Busy')
            /\ Cardinality(Busy') \in {Cardinality(Busy), Cardinality(Busy \cup {c}),
                                        Cardinality(Busy \ {c})}
        BY <3>1, <4>2, Zenon DEF Gauged
      <4> QED
        BY <1>3, <3>1, <4>1, <4>3, FS_CardinalityType DEF Gauged
    <3>3. CASE phase[c] # "request" /\ SseUncounted = {}
      <4>1. sseActive' = sseActive
        BY <1>1, <1>2, <1>3, <1>7, <3>3
      <4>2. Busy' = Busy \/ Busy' = Busy \ {c}
        BY <1>1, <1>7, <3>3, OneOver
      <4>3. IsFiniteSet(Busy') /\ Cardinality(Busy') \in Nat
            /\ Cardinality(Busy') <= Cardinality(Busy)
        <5>1. CASE Busy' = Busy
          BY <1>3, <5>1 DEF Gauged
        <5>2. CASE Busy' = Busy \ {c}
          <6>1. /\ IsFiniteSet(Busy')
                /\ Cardinality(Busy') = IF c \in Busy THEN Cardinality(Busy) - 1
                                                      ELSE Cardinality(Busy)
            BY <3>1, <5>2, Zenon
          <6> QED
            BY <1>3, <6>1, FS_CardinalityType
        <5> QED
          BY <4>2, <5>1, <5>2
      <4> QED
        BY <1>3, <4>1, <4>3 DEF Gauged
    <3>4. CASE phase[c] # "request" /\ SseUncounted = {c}
      <4>1. sseActive' = sseActive - 1
        <5>1. sseGone = 1 /\ nextSse' - nextSse = 0
          BY <1>1, <1>7, <3>4, FS_Singleton
        <5> QED
          BY <1>2, <1>3, <1>7, <5>1
      <4>2. Busy' = Busy \ {c} /\ c \in Busy
        BY <1>1, <1>7, <3>4, OneOver
      <4>3. IsFiniteSet(Busy') /\ Cardinality(Busy') = Cardinality(Busy) - 1
        BY <3>1, <4>2, Zenon
      <4> QED
        BY <1>3, <4>1, <4>3 DEF Gauged
    <3> QED
      BY <1>1, <1>7, <3>2, <3>3, <3>4, OneOver
  <2>4. \A d \in WsClient \ linked' : phase'[d] = "loop"
    <3> SUFFICES ASSUME NEW d \in WsClient \ linked
                 PROVE  phase'[d] = "loop"
      BY <1>7
    <3>1. phase[d] = "loop" /\ d \in Client
      BY BridgeAssumption DEF Gauged
    <3>2. d # c
      BY <1>7, <3>1 DEF Moves
    <3> QED
      BY <1>1, <1>7, <3>1, <3>2 DEF Moves, BridgeTypeOK
  <2> QED
    BY <2>2, <2>3, <2>4 DEF Gauged
<1>8. \/ /\ UNCHANGED <<phase, nextSse>>
         /\ \/ WsClient \cap linked' = WsClient \cap linked
            \/ \E c \in WsClient : linked' = linked \cup {c}
      \/ /\ UNCHANGED linked
         /\ \E c \in Client : \E from :
               /\ Moves(c, from) /\ (c \in linked \/ "loop" \notin from)
               /\ nextSse' = IF phase[c] = "request" THEN nextSse + 1 ELSE nextSse
  <2>1. ASSUME NEW c \in Client, UNCHANGED <<linked, nextSse>>,
               Moves(c, {"listening", "dropped", "subscribing", "unsubscribing",
                         "cleanup", "cleaning"})
        PROVE  phase[c] # "request"
    BY <2>1 DEF Moves
  <2> QED
    BY <1>1, <2>1, GaugedParts
<1> QED
  BY <1>4, <1>5, <1>6, <1>7, <1>8

\* The gauge of the WebSocket connections is exactly right, whatever fails; that of
\* the SSE requests may only be too high.
THEOREM GaugesAlwaysCover == MetricsSpec => []GaugesCover
<1>1. MetricsInit => Gauged
  <2> SUFFICES ASSUME MetricsInit
               PROVE  Gauged
    OBVIOUS
  <2>1. /\ linked = {} /\ wsActive = 0 /\ sseActive = 0
        /\ phase = [c \in Client |-> IF c \in WsClient THEN "loop" ELSE "request"]
    BY DEF MetricsInit, ServersInit, BridgeInit
  <2>2. Live = {}
    BY <2>1 DEF Live
  <2>3. Busy = {}
    BY <2>1, BridgeAssumption DEF Busy
  <2>4. \A c \in WsClient : phase[c] = "loop"
    BY <2>1, BridgeAssumption
  <2> QED
    BY <2>1, <2>2, <2>3, <2>4, FS_EmptySet DEF Gauged
<1>2. ServersTypeOK /\ Gauged /\ [MetricsNext]_<<serversVars, gauges>> => Gauged'
  BY GaugedStep
<1>3. Gauged => GaugesCover
  BY DEF Gauged, Live, Busy, GaugesCover
<1> QED
  BY <1>1, <1>2, <1>3, MetricsImplement, ServersTypeCorrect, PTL DEF MetricsSpec

=============================================================================
