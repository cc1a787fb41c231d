---------------------------- MODULE BridgeProofs ----------------------------
(***************************************************************************)
(* Theorems about Bridge: its connections use the listener only in ways    *)
(* that PostgresListener allows, and clean up after themselves.            *)
(***************************************************************************)
EXTENDS Bridge, PostgresListenerProofs

-----------------------------------------------------------------------------
(* The bridge implements PostgresListener *)

\* The channel lists a connection keeps are sets of channels.
Lists == /\ mine \in [Client -> SUBSET Channel]
         /\ asked \in [Client -> SUBSET Channel]

\* The lists keep their types.
LEMMA ListsStep ==
  ASSUME Lists, [BridgeNext]_bridgeVars
  PROVE  Lists'
<1> USE DEF Lists
<1>1. ASSUME NEW c \in Client, ClientTask(c)
      PROVE  Lists'
  BY <1>1 DEF ClientTask, WsReply, WsCleanup, SseResponse, SsePanics,
              SseFieldsDropped, SseCleanup, Closed, clientVars
<1>2. ASSUME NEW c \in Client, Drain(c)
      PROVE  Lists'
  BY <1>2 DEF Drain, WsNotification, SseEvent, clientVars
<1>3. ASSUME NEW c \in Client, Peer(c)
      PROVE  Lists'
  <2>1. CASE WsHangup(c) \/ SseAborted(c) \/ SseHangup(c)
    BY <2>1 DEF WsHangup, SseAborted, SseHangup
  <2>2. ASSUME NEW ch \in Channel, WsSubscribe(c, ch) \/ WsUnsubscribe(c, ch)
        PROVE  Lists'
    BY <2>2 DEF WsSubscribe, WsUnsubscribe
  <2>3. ASSUME NEW ch \in Channel, WsNotify(c, ch)
        PROVE  Lists'
    BY <2>3 DEF WsNotify, clientVars
  <2>4. ASSUME NEW chs \in SUBSET Channel, NEW answer \in Answers,
               SseRequest(c, chs, answer)
        PROVE  Lists'
    BY <2>4 DEF SseRequest
  <2>5. ASSUME NEW answer \in Answers,
               WsAuthenticate(c, answer) \/ SseInvalid(c, answer)
        PROVE  Lists'
    BY <2>5 DEF WsAuthenticate, SseInvalid
  <2> QED
    BY <1>3, <2>1, <2>2, <2>3, <2>4, <2>5 DEF Peer
<1>4. CASE UNCHANGED clientVars
  BY <1>4 DEF clientVars
<1>5. \/ \E c \in Client : ClientTask(c) \/ Drain(c) \/ Peer(c)
      \/ UNCHANGED clientVars
  BY DEF BridgeNext, Call, Deliver, Session, bridgeVars
<1> QED
  BY <1>1, <1>2, <1>3, <1>4, <1>5

\* The step of the listener that a connection's own step makes.
LEMMA ClientRefines ==
  ASSUME Lists, NEW c \in Client, ClientTask(c) \/ Drain(c) \/ Peer(c)
  PROVE  [Next]_vars
<1>1. CASE ClientTask(c)
  <2>1. mine[c] \in SUBSET Channel
    BY DEF Lists
  <2>2. \/ UNCHANGED vars
        \/ CloseReceiver(c)
        \/ UnlistenMany(c, mine[c])
    BY <1>1 DEF ClientTask, WsReply, WsCleanup, SseResponse, SsePanics,
                SseFieldsDropped, SseCleanup, Closed
  <2> QED
    BY <2>1, <2>2 DEF Next, ClientStep
<1>2. CASE Drain(c)
  BY <1>2 DEF Drain, WsNotification, SseEvent, Next, ClientStep
<1>3. CASE Peer(c)
  <2>1. ASSUME NEW answer \in Answers,
               WsAuthenticate(c, answer) \/ SseInvalid(c, answer)
        PROVE  [Next]_vars
    BY <2>1 DEF WsAuthenticate, SseInvalid
  <2>2. CASE WsHangup(c) \/ SseAborted(c) \/ SseHangup(c)
    BY <2>2 DEF WsHangup, SseAborted, SseHangup, Next, ClientStep
  <2>3. ASSUME NEW ch \in Channel,
               WsSubscribe(c, ch) \/ WsUnsubscribe(c, ch) \/ WsNotify(c, ch)
        PROVE  [Next]_vars
    <3>1. {ch} \in SUBSET Channel
      OBVIOUS
    <3> QED
      BY <2>3, <3>1 DEF WsSubscribe, WsUnsubscribe, WsNotify, Next, ClientStep,
                        SessionStep
  <2>4. ASSUME NEW chs \in SUBSET Channel, NEW answer \in Answers,
               SseRequest(c, chs, answer)
        PROVE  [Next]_vars
    BY <2>4 DEF SseRequest, Next, ClientStep
  <2> QED
    BY <1>3, <2>1, <2>2, <2>3, <2>4 DEF Peer
<1> QED
  BY <1>1, <1>2, <1>3

\* Every step of the bridge is a step of the listener or leaves it alone.
LEMMA BridgeStepRefines ==
  ASSUME Lists, [BridgeNext]_bridgeVars
  PROVE  [Next]_vars
<1>1. ASSUME NEW c \in Client, Call(c)
      PROVE  [Next]_vars
  BY <1>1 DEF Call, Next, ClientStep
<1>2. CASE Deliver \/ Session
  BY <1>2 DEF Deliver, Session, Next
<1>3. CASE UNCHANGED bridgeVars
  BY <1>3 DEF bridgeVars
<1> QED
  BY <1>1, <1>2, <1>3, ClientRefines DEF BridgeNext

\* WebSocket and SSE connections are callers of the kind PostgresListener is
\* specified for, so that whatever holds of it holds in the bridge.
THEOREM BridgeImplements == BridgeSpec => Spec
<1>1. BridgeInit => Init /\ Lists
  BY DEF BridgeInit, Lists
<1>2. Lists /\ [BridgeNext]_bridgeVars => Lists' /\ [Next]_vars
  BY ListsStep, BridgeStepRefines
<1> QED
  BY <1>1, <1>2, PTL DEF BridgeSpec, Spec

-----------------------------------------------------------------------------
(* What a connection remembers is what is filed for it *)

Listens(c) == pc[c] \in {"listenLock", "listen", "ok", "err"}
Unlistens(c) == pc[c] \in {"unlistenLock", "recheckLock", "unlisten", "ok", "err"}

\* How a connection's list relates to the map in every phase, the call included
\* that is being made: before its write section and after it.
Books(c) ==
    /\ phase[c] \in {"request", "loop", "streaming", "cleanup", "dropped", "closed"}
          => Idle(c)
    /\ phase[c] = "request" => subscribed[c] = {}
    /\ phase[c] \in {"loop", "streaming", "cleanup", "dropped"}
          => mine[c] = subscribed[c]
    /\ phase[c] = "listening" =>
          /\ Listens(c)
          /\ pc[c] = "listenLock" => subscribed[c] = {} /\ todo[c] = asked[c]
          /\ pc[c] # "listenLock" => subscribed[c] = asked[c]
    /\ phase[c] = "subscribing" =>
          /\ Listens(c)
          /\ pc[c] = "listenLock" => mine[c] = subscribed[c] \cup todo[c]
          /\ pc[c] # "listenLock" => mine[c] = subscribed[c]
    /\ phase[c] = "unsubscribing" =>
          /\ Unlistens(c)
          /\ pc[c] = "unlistenLock" => mine[c] = subscribed[c] \ todo[c]
          /\ pc[c] # "unlistenLock" => mine[c] = subscribed[c]
    /\ phase[c] = "cleaning" =>
          /\ Unlistens(c)
          /\ pc[c] = "unlistenLock" => subscribed[c] \subseteq todo[c]
          /\ pc[c] # "unlistenLock" => subscribed[c] = {}

KeptBooks == \A c \in Client : Books(c)

\* The types of Bridge's own variables are kept.
LEMMA PhasesStep ==
  ASSUME BridgeTypeOK, TypeOK', [BridgeNext]_bridgeVars
  PROVE  BridgeTypeOK'
<1> USE DEF BridgeTypeOK, Goto
<1>1. ASSUME NEW c \in Client, ClientTask(c)
      PROVE  BridgeTypeOK'
  BY <1>1 DEF ClientTask, WsReply, WsCleanup, SseResponse, SsePanics,
              SseFieldsDropped, SseCleanup, Closed, clientVars
<1>2. ASSUME NEW c \in Client, Drain(c)
      PROVE  BridgeTypeOK'
  BY <1>2 DEF Drain, WsNotification, SseEvent, clientVars
<1>3. ASSUME NEW c \in Client, Peer(c)
      PROVE  BridgeTypeOK'
  <2>1. CASE WsHangup(c) \/ SseAborted(c) \/ SseHangup(c)
    BY <2>1 DEF WsHangup, SseAborted, SseHangup
  <2>2. ASSUME NEW ch \in Channel, WsSubscribe(c, ch) \/ WsUnsubscribe(c, ch)
        PROVE  BridgeTypeOK'
    BY <2>2 DEF WsSubscribe, WsUnsubscribe
  <2>3. ASSUME NEW ch \in Channel, WsNotify(c, ch)
        PROVE  BridgeTypeOK'
    BY <2>3 DEF WsNotify, clientVars
  <2>4. ASSUME NEW chs \in SUBSET Channel, NEW answer \in Answers,
               SseRequest(c, chs, answer)
        PROVE  BridgeTypeOK'
    BY <2>4 DEF SseRequest, Admitted, Learn
  <2>5. ASSUME NEW answer \in Answers,
               WsAuthenticate(c, answer) \/ SseInvalid(c, answer)
        PROVE  BridgeTypeOK'
    BY <2>5 DEF WsAuthenticate, SseInvalid, Admitted, Learn
  <2> QED
    BY <1>3, <2>1, <2>2, <2>3, <2>4, <2>5 DEF Peer
<1>4. CASE UNCHANGED clientVars
  BY <1>4 DEF clientVars
<1>5. \/ \E c \in Client : ClientTask(c) \/ Drain(c) \/ Peer(c)
      \/ UNCHANGED clientVars
  BY DEF BridgeNext, Call, Deliver, Session, bridgeVars
<1> QED
  BY <1>1, <1>2, <1>3, <1>4, <1>5

\* The variables of the bridge have their types.
THEOREM BridgeTypeCorrect == BridgeSpec => []BridgeTypeOK
<1>1. BridgeInit /\ TypeOK => BridgeTypeOK
  BY DEF BridgeInit, BridgeTypeOK
<1>2. BridgeTypeOK /\ TypeOK' /\ [BridgeNext]_bridgeVars => BridgeTypeOK'
  BY PhasesStep
<1> QED
  BY <1>1, <1>2, BridgeImplements, TypeCorrect, PTL DEF BridgeSpec

\* What a step of a call does to its caller's place in the map, and that it does
\* nothing to another caller's.
LEMMA CallEffect ==
  ASSUME TypeOK, NEW c \in Client, CallStep(c)
  PROVE  /\ \A d \in Client \ {c} :
               pc'[d] = pc[d] /\ todo'[d] = todo[d] /\ subscribed'[d] = subscribed[d]
         /\ \/ /\ pc[c] = "listenLock" /\ pc'[c] \in {"listen", "ok"}
               /\ subscribed'[c] = subscribed[c] \cup todo[c]
            \/ /\ pc[c] = "listen" /\ pc'[c] \in {"listen", "ok", "err"}
               /\ subscribed'[c] = subscribed[c]
            \/ /\ pc[c] = "unlistenLock" /\ pc'[c] = "recheckLock"
               /\ subscribed'[c] = subscribed[c] \ todo[c]
            \/ /\ pc[c] \in {"recheckLock", "unlisten"}
               /\ pc'[c] \in {"unlisten", "ok", "err"}
               /\ subscribed'[c] = subscribed[c]
<1> USE DEF TypeOK
<1>1. CASE ListenLocked(c)
  BY <1>1 DEF ListenLocked
<1>2. CASE ListenReturns(c) \/ ListenFails(c) \/ \E ch \in Channel : ExecuteListen(c, ch)
  BY <1>2 DEF ListenReturns, ListenFails, ExecuteListen, mapVars
<1>3. CASE UnlistenLocked(c)
  BY <1>3 DEF UnlistenLocked
<1>4. CASE RecheckLocked(c) \/ \E ch \in Channel : Recheck(c, ch)
  BY <1>4 DEF RecheckLocked, Recheck, mapVars
<1>5. CASE ExecuteUnlisten(c) \/ UnlistenReturns(c) \/ UnlistenFails(c)
  BY <1>5 DEF ExecuteUnlisten, UnlistenReturns, UnlistenFails, mapVars
<1> QED
  BY <1>1, <1>2, <1>3, <1>4, <1>5 DEF CallStep

\* The handler and the session have no part in a call.
LEMMA OthersEffect ==
  ASSUME HandlerStep \/ SessionStep
  PROVE  UNCHANGED <<subscribed, callVars>>
<1>1. CASE HandlerStep
  BY <1>1 DEF HandlerStep, HandlerReceive, HandlerStops, HandlerLocked, SendDone,
              SendFails, Distributed, Reap, SendNext, mapVars, callVars
<1>2. CASE SessionStep
  BY <1>2 DEF SessionStep, ConnectionLost, Notify, OrphanListen, mapVars, callVars
<1> QED
  BY <1>1, <1>2

\* A connection's books depend on its own variables only.
LEMMA OtherBooks ==
  ASSUME NEW d \in Client, Books(d),
         phase'[d] = phase[d], mine'[d] = mine[d], asked'[d] = asked[d],
         pc'[d] = pc[d], todo'[d] = todo[d], subscribed'[d] = subscribed[d]
  PROVE  Books(d)'
BY DEF Books, Idle, Listens, Unlistens

\* A step of its call keeps a connection's books.
LEMMA CallBooks ==
  ASSUME TypeOK, KeptBooks, NEW c \in Client, Call(c)
  PROVE  KeptBooks'
<1>1. CallStep(c) /\ UNCHANGED <<phase, mine, asked>>
  BY DEF Call, clientVars
<1>2. ASSUME NEW d \in Client, d # c
      PROVE  Books(d)'
  BY <1>1, <1>2, CallEffect, OtherBooks DEF KeptBooks
<1>3. Books(c)'
  <2> USE <1>1, CallEffect DEF Books, Idle, Listens, Unlistens
  <2>1. Books(c)
    BY DEF KeptBooks
  <2>2. CASE pc[c] = "listenLock"
    BY <2>1, <2>2
  <2>3. CASE pc[c] = "listen"
    BY <2>1, <2>3
  <2>4. CASE pc[c] = "unlistenLock"
    BY <2>1, <2>4
  <2>5. CASE pc[c] \in {"recheckLock", "unlisten"}
    BY <2>1, <2>5
  <2> HIDE DEF Books
  <2> QED
    BY <2>2, <2>3, <2>4, <2>5
<1> QED
  BY <1>2, <1>3 DEF KeptBooks

\* The connection's own task keeps its books.
LEMMA TaskBooks ==
  ASSUME BridgeTypeOK, KeptBooks, NEW c \in Client, ClientTask(c) \/ Drain(c)
  PROVE  KeptBooks'
<1> USE DEF BridgeTypeOK, TypeOK, Goto, Idle, Listens, Unlistens
<1>1. \A d \in Client \ {c} :
         /\ phase'[d] = phase[d] /\ mine'[d] = mine[d] /\ asked'[d] = asked[d]
         /\ pc'[d] = pc[d] /\ todo'[d] = todo[d] /\ subscribed'[d] = subscribed[d]
  BY DEF ClientTask, Drain, WsReply, WsCleanup, SseResponse, SsePanics,
         SseFieldsDropped, SseCleanup, Closed, WsNotification, SseEvent, UnlistenMany, CloseReceiver, Receive,
         vars, clientVars, callVars, mapVars
<1>2. Books(c)
  BY DEF KeptBooks
<1>3. Books(c)'
  <2>1. CASE WsReply(c)
    BY <1>2, <2>1 DEF Books, WsReply, vars, callVars, mapVars
  <2>2. CASE WsCleanup(c)
    BY <1>2, <2>2 DEF Books, WsCleanup, UnlistenMany, vars, callVars, mapVars
  <2>3. CASE SseResponse(c)
    BY <1>2, <2>3 DEF Books, SseResponse, vars, callVars, mapVars
  <2>4. CASE SsePanics(c)
    BY <1>2, <2>4 DEF Books, SsePanics, CloseReceiver, callVars, mapVars
  <2>5. CASE SseCleanup(c)
    BY <1>2, <2>5 DEF Books, SseCleanup, UnlistenMany, mapVars
  <2>6. CASE Closed(c)
    BY <1>2, <2>6 DEF Books, Closed, vars, callVars, mapVars
  <2>7. CASE Drain(c) \/ SseFieldsDropped(c)
    BY <1>2, <2>7 DEF Books, Drain, WsNotification, SseEvent, SseFieldsDropped,
                      Receive, CloseReceiver, clientVars, callVars, mapVars
  <2> QED
    BY <2>1, <2>2, <2>3, <2>4, <2>5, <2>6, <2>7 DEF ClientTask
<1> QED
  BY <1>1, <1>3, OtherBooks DEF KeptBooks

\* Whatever its peer does, a connection's books are kept.
LEMMA PeerBooks ==
  ASSUME BridgeTypeOK, KeptBooks, NEW c \in Client, Peer(c)
  PROVE  KeptBooks'
<1> USE DEF BridgeTypeOK, TypeOK, Goto, Idle, Listens, Unlistens
<1>1. Books(c)
  BY DEF KeptBooks
<1>2. ASSUME \/ \E answer \in Answers : WsAuthenticate(c, answer)
             \/ \E ch \in Channel : WsNotify(c, ch)
      PROVE  KeptBooks'
  <2>1. UNCHANGED <<phase, mine, asked, pc, todo, subscribed>>
    BY <1>2 DEF WsAuthenticate, WsNotify, Notify, vars, clientVars, callVars,
                mapVars
  <2> QED
    BY <2>1, OtherBooks DEF KeptBooks
<1>3. ASSUME \/ WsHangup(c) \/ SseHangup(c) \/ SseAborted(c)
             \/ \E ch \in Channel : WsSubscribe(c, ch) \/ WsUnsubscribe(c, ch)
             \/ \E answer \in Answers : SseInvalid(c, answer)
             \/ \E chs \in (SUBSET Channel) \ {{}}, answer \in Answers :
                    SseRequest(c, chs, answer)
      PROVE  KeptBooks'
  <2>1. \A d \in Client \ {c} :
           /\ phase'[d] = phase[d] /\ mine'[d] = mine[d] /\ asked'[d] = asked[d]
           /\ pc'[d] = pc[d] /\ todo'[d] = todo[d]
           /\ subscribed'[d] = subscribed[d]
    BY <1>3 DEF WsHangup, SseHangup, SseAborted, WsSubscribe, WsUnsubscribe,
                SseInvalid, SseRequest, CloseReceiver, DropListen, ListenMany,
                UnlistenMany, vars, callVars, mapVars
  <2>2. Books(c)'
    <3>1. CASE WsHangup(c)
      BY <1>1, <3>1 DEF Books, WsHangup, CloseReceiver, callVars, mapVars
    <3>2. CASE SseHangup(c)
      BY <1>1, <3>2 DEF Books, SseHangup, vars, callVars, mapVars
    <3>3. CASE SseAborted(c)
      <4>1. phase'[c] = "closed" /\ pc'[c] = "err"
        BY <3>3 DEF SseAborted, DropListen
      <4> QED
        BY <4>1 DEF Books
    <3>4. ASSUME NEW ch \in Channel, WsSubscribe(c, ch)
          PROVE  Books(c)'
      BY <1>1, <3>4 DEF Books, WsSubscribe, ListenMany, mapVars
    <3>5. ASSUME NEW ch \in Channel, WsUnsubscribe(c, ch)
          PROVE  Books(c)'
      BY <1>1, <3>5 DEF Books, WsUnsubscribe, UnlistenMany, mapVars
    <3>6. ASSUME NEW chs \in SUBSET Channel, NEW answer \in Answers,
                 SseRequest(c, chs, answer)
          PROVE  Books(c)'
      BY <1>1, <3>6 DEF Books, SseRequest, ListenMany, mapVars
    <3>7. ASSUME NEW answer \in Answers, SseInvalid(c, answer)
          PROVE  Books(c)'
      BY <1>1, <3>7 DEF Books, SseInvalid, vars, callVars, mapVars
    <3> QED
      BY <1>3, <3>1, <3>2, <3>3, <3>4, <3>5, <3>6, <3>7
  <2> QED
    BY <2>1, <2>2, OtherBooks DEF KeptBooks
<1> QED
  BY <1>2, <1>3 DEF Peer

\* Every step of the bridge keeps every connection's books.
LEMMA BooksStep ==
  ASSUME BridgeTypeOK, KeptBooks, [BridgeNext]_bridgeVars
  PROVE  KeptBooks'
<1>1. ASSUME NEW c \in Client, ClientTask(c) \/ Drain(c) \/ Peer(c) \/ Call(c)
      PROVE  KeptBooks'
  BY <1>1, TaskBooks, PeerBooks, CallBooks DEF BridgeTypeOK
<1>2. ASSUME Deliver \/ Session \/ UNCHANGED bridgeVars
      PROVE  KeptBooks'
  <2>1. UNCHANGED <<phase, mine, asked, pc, todo, subscribed>>
    BY <1>2, OthersEffect DEF Deliver, Session, bridgeVars, vars, clientVars,
                              callVars, mapVars
  <2> QED
    BY <2>1, OtherBooks DEF KeptBooks
<1> QED
  BY <1>1, <1>2 DEF BridgeNext

\* What a connection is about to clean up is exactly what is filed for it, also
\* after calls that failed and whatever other connections do meanwhile.
THEOREM CleanupCovers == BridgeSpec => []CleanupCoversMap
<1>1. BridgeInit => KeptBooks
  BY DEF BridgeInit, Init, KeptBooks, Books, Idle
<1>2. BridgeTypeOK /\ KeptBooks /\ [BridgeNext]_bridgeVars => KeptBooks'
  BY BooksStep
<1>3. KeptBooks => CleanupCoversMap
  BY DEF KeptBooks, Books, CleanupCoversMap
<1> QED
  BY <1>1, <1>2, <1>3, BridgeTypeCorrect, PTL DEF BridgeSpec

-----------------------------------------------------------------------------
(* How long a receiver lives *)

\* A connection's receiver is there until its loop or its stream ends.  A loop
\* takes it along; after a stream it may outlive the cleanup, but by then the
\* connection is filed nowhere.  Only a WebSocket connection has a loop.
Receiver(c) ==
    /\ phase[c] \in {"request", "listening", "streaming", "loop", "subscribing",
                     "unsubscribing"} => open[c]
    /\ phase[c] = "cleanup" => ~open[c]
    /\ phase[c] = "closed" => ~open[c] \/ subscribed[c] = {}
    /\ phase[c] \in {"loop", "subscribing", "unsubscribing"} => c \in WsClient

KeptReceivers == \A c \in Client : Receiver(c)

\* That depends on the connection's own variables only.
LEMMA OtherReceiver ==
  ASSUME NEW d \in Client, Receiver(d), phase'[d] = phase[d], open'[d] = open[d],
         subscribed'[d] = subscribed[d]
  PROVE  Receiver(d)'
BY DEF Receiver

\* The connection's own task keeps to it.
LEMMA TaskReceivers ==
  ASSUME BridgeTypeOK, KeptBooks, KeptReceivers, NEW c \in Client,
         ClientTask(c) \/ Drain(c)
  PROVE  KeptReceivers'
<1> USE DEF BridgeTypeOK, TypeOK, Goto
<1>1. \A d \in Client \ {c} : /\ phase'[d] = phase[d] /\ open'[d] = open[d]
                               /\ subscribed'[d] = subscribed[d]
  BY DEF ClientTask, Drain, WsReply, WsCleanup, SseResponse, SsePanics,
         SseFieldsDropped, SseCleanup, Closed, WsNotification, SseEvent, UnlistenMany, CloseReceiver, Receive,
         vars, clientVars, queueVars, mapVars
<1>2. Receiver(c)
  BY DEF KeptReceivers
<1>3. Receiver(c)'
  <2>1. CASE WsReply(c) \/ SseResponse(c)
    BY <1>2, <2>1 DEF Receiver, WsReply, SseResponse, vars, queueVars, mapVars
  <2>2. CASE WsCleanup(c) \/ SseCleanup(c)
    BY <1>2, <2>2 DEF Receiver, WsCleanup, SseCleanup, UnlistenMany, vars, queueVars,
                      mapVars
  <2>3. CASE SsePanics(c) \/ SseFieldsDropped(c)
    BY <1>2, <2>3 DEF Receiver, SsePanics, SseFieldsDropped, CloseReceiver, clientVars
  <2>4. CASE Drain(c)
    BY <1>2, <2>4 DEF Receiver, Drain, WsNotification, SseEvent, Receive, clientVars,
                      mapVars
  <2>5. CASE Closed(c)
    <3>1. subscribed[c] = {}
      BY <2>5 DEF Closed, KeptBooks, Books, Idle
    <3> QED
      BY <2>5, <3>1 DEF Receiver, Closed, vars, mapVars
  <2> QED
    BY <2>1, <2>2, <2>3, <2>4, <2>5 DEF ClientTask
<1> QED
  BY <1>1, <1>3, OtherReceiver DEF KeptReceivers

\* So does whatever its peer does.
LEMMA PeerReceivers ==
  ASSUME BridgeTypeOK, KeptBooks, KeptReceivers, NEW c \in Client, Peer(c)
  PROVE  KeptReceivers'
<1> USE DEF BridgeTypeOK, TypeOK, Goto
<1>1. \A d \in Client \ {c} : /\ phase'[d] = phase[d] /\ open'[d] = open[d]
                               /\ subscribed'[d] = subscribed[d]
  BY DEF Peer, WsAuthenticate, SseInvalid, WsHangup, SseHangup, SseAborted,
         WsSubscribe, WsUnsubscribe, WsNotify, SseRequest, ListenMany, UnlistenMany,
         CloseReceiver, DropListen, Notify, vars, clientVars, queueVars, mapVars
<1>2. Receiver(c)
  BY DEF KeptReceivers
<1>3. Receiver(c)'
  <2>1. CASE WsHangup(c) \/ SseHangup(c)
    BY <1>2, <2>1 DEF Receiver, WsHangup, SseHangup, CloseReceiver
  <2>2. CASE SseAborted(c)
    BY <2>2 DEF Receiver, SseAborted, DropListen
  <2>3. ASSUME NEW answer \in Answers, WsAuthenticate(c, answer)
        PROVE  Receiver(c)'
    BY <1>2, <2>3 DEF Receiver, WsAuthenticate, vars, queueVars, mapVars
  <2>4. ASSUME NEW answer \in Answers, SseInvalid(c, answer)
        PROVE  Receiver(c)'
    <3>1. subscribed[c] = {}
      BY <2>4 DEF KeptBooks, Books, SseInvalid
    <3> QED
      BY <2>4, <3>1 DEF Receiver, SseInvalid, vars, mapVars
  <2>5. ASSUME NEW ch \in Channel, WsSubscribe(c, ch) \/ WsUnsubscribe(c, ch)
        PROVE  Receiver(c)'
    BY <1>2, <2>5 DEF Receiver, WsSubscribe, WsUnsubscribe, ListenMany, UnlistenMany,
                      queueVars
  <2>6. ASSUME NEW ch \in Channel, WsNotify(c, ch)
        PROVE  Receiver(c)'
    BY <1>2, <2>6 DEF Receiver, WsNotify, Notify, clientVars, queueVars, mapVars
  <2>7. ASSUME NEW chs \in SUBSET Channel, NEW answer \in Answers,
               SseRequest(c, chs, answer)
        PROVE  Receiver(c)'
    BY <1>2, <2>7 DEF Receiver, SseRequest, ListenMany, queueVars
  <2> QED
    BY <2>1, <2>2, <2>3, <2>4, <2>5, <2>6, <2>7 DEF Peer
<1> QED
  BY <1>1, <1>3, OtherReceiver DEF KeptReceivers

\* Every step of the bridge keeps to it.
LEMMA ReceiversStep ==
  ASSUME BridgeTypeOK, KeptBooks, KeptReceivers, [BridgeNext]_bridgeVars
  PROVE  KeptReceivers'
<1>1. ASSUME NEW c \in Client, Call(c)
      PROVE  KeptReceivers'
  <2>1. UNCHANGED <<phase, open>>
    BY <1>1 DEF Call, CallStep, ListenLocked, ListenReturns, ListenFails,
       UnlistenLocked, RecheckLocked, ExecuteUnlisten, UnlistenReturns,
       UnlistenFails, ExecuteListen, Recheck, clientVars, queueVars
  <2>2. \A d \in Client \ {c} : subscribed'[d] = subscribed[d]
    BY <1>1, CallEffect DEF Call, BridgeTypeOK
  <2>3. phase[c] # "closed"
    BY <1>1, CallEffect DEF Call, BridgeTypeOK, KeptBooks, Books, Idle
  <2> QED
    BY <2>1, <2>2, <2>3 DEF KeptReceivers, Receiver
<1>2. CASE Deliver \/ Session \/ UNCHANGED bridgeVars
  <2>1. UNCHANGED <<phase, open, subscribed>>
    BY <1>2 DEF Deliver, Session, HandlerStep, SessionStep, HandlerReceive,
       HandlerStops, HandlerLocked, SendDone, SendFails, Distributed, Reap, SendNext,
       ConnectionLost, Notify, OrphanListen, bridgeVars, vars, clientVars, queueVars,
       mapVars
  <2> QED
    BY <2>1, OtherReceiver DEF KeptReceivers
<1> QED
  BY <1>1, <1>2, TaskReceivers, PeerReceivers DEF BridgeNext

\* A connection's receiver lives at least as long as its loop or its stream, and
\* when the connection is closed, one that is still there is filed nowhere.
THEOREM ReceiversKept == BridgeSpec => [](KeptBooks /\ KeptReceivers)
<1>1. BridgeInit => KeptBooks /\ KeptReceivers
  BY DEF BridgeInit, Init, KeptBooks, Books, Idle, KeptReceivers, Receiver
<1>2. BridgeTypeOK /\ KeptBooks /\ KeptReceivers /\ [BridgeNext]_bridgeVars
      => KeptBooks' /\ KeptReceivers'
  BY BooksStep, ReceiversStep
<1> QED
  BY <1>1, <1>2, BridgeTypeCorrect, PTL DEF BridgeSpec

-----------------------------------------------------------------------------
(* What a peer was told *)

\* What was confirmed is in the connection's list and filed by its calls, in the
\* middle of a further call too; and only a connection with a receiver has any.
Told(c) ==
    /\ confirmed[c] \subseteq mine[c] \cap subscribed[c]
    /\ confirmed[c] # {} =>
          phase[c] \in {"loop", "subscribing", "unsubscribing", "streaming"}
    /\ phase[c] = "subscribing" => asked[c] \subseteq mine[c]

AllTold == \A c \in Client : Told(c)

\* That depends on the connection's own variables only.
LEMMA OtherTold ==
  ASSUME NEW d \in Client, Told(d), phase'[d] = phase[d], mine'[d] = mine[d],
         asked'[d] = asked[d], confirmed'[d] = confirmed[d],
         subscribed'[d] = subscribed[d]
  PROVE  Told(d)'
BY DEF Told

\* The connection's own task confirms what is filed.
LEMMA TaskTold ==
  ASSUME BridgeTypeOK, KeptBooks, AllTold, NEW c \in Client, ClientTask(c) \/ Drain(c)
  PROVE  AllTold'
<1> USE DEF BridgeTypeOK, TypeOK, Goto
<1>1. \A d \in Client \ {c} :
         /\ phase'[d] = phase[d] /\ mine'[d] = mine[d] /\ asked'[d] = asked[d]
         /\ confirmed'[d] = confirmed[d] /\ subscribed'[d] = subscribed[d]
  BY DEF ClientTask, Drain, WsReply, WsCleanup, SseResponse, SsePanics,
         SseFieldsDropped, SseCleanup, Closed, WsNotification, SseEvent, UnlistenMany, CloseReceiver, Receive,
         vars, clientVars, mapVars
<1>2. Told(c) /\ Books(c)
  BY DEF AllTold, KeptBooks
<1>3. Told(c)'
  <2>1. CASE WsReply(c)
    <3>1. phase[c] = "subscribing" /\ pc[c] = "ok" => mine[c] = subscribed[c]
      BY <1>2 DEF Books
    <3> QED
      BY <1>2, <2>1, <3>1 DEF Told, WsReply, vars, mapVars
  <2>2. CASE SseResponse(c)
    <3>1. subscribed[c] = asked[c]
      BY <1>2, <2>2 DEF Books, SseResponse
    <3> QED
      BY <2>2, <3>1 DEF Told, SseResponse, vars, mapVars
  <2>3. CASE WsCleanup(c) \/ SsePanics(c) \/ SseCleanup(c) \/ Closed(c)
    BY <1>2, <2>3 DEF Told, WsCleanup, SsePanics, SseCleanup, Closed, UnlistenMany,
                      CloseReceiver, vars, mapVars
  <2>4. CASE Drain(c) \/ SseFieldsDropped(c)
    BY <1>2, <2>4 DEF Told, Drain, WsNotification, SseEvent, SseFieldsDropped,
                      Receive, CloseReceiver, clientVars, mapVars
  <2> QED
    BY <2>1, <2>2, <2>3, <2>4 DEF ClientTask
<1> QED
  BY <1>1, <1>3, OtherTold DEF AllTold

\* A peer that unsubscribes or leaves gives up what it was told before the map
\* does.
LEMMA PeerTold ==
  ASSUME BridgeTypeOK, AllTold, NEW c \in Client, Peer(c)
  PROVE  AllTold'
<1> USE DEF BridgeTypeOK, TypeOK, Goto
<1>1. \A d \in Client \ {c} :
         /\ phase'[d] = phase[d] /\ mine'[d] = mine[d] /\ asked'[d] = asked[d]
         /\ confirmed'[d] = confirmed[d] /\ subscribed'[d] = subscribed[d]
  BY DEF Peer, WsAuthenticate, SseInvalid, WsHangup, SseHangup, SseAborted,
         WsSubscribe, WsUnsubscribe, WsNotify, SseRequest, ListenMany, UnlistenMany,
         CloseReceiver, DropListen, Notify, vars, clientVars, mapVars
<1>2. Told(c)
  BY DEF AllTold
<1>3. Told(c)'
  <2>1. CASE WsHangup(c) \/ SseHangup(c) \/ SseAborted(c)
    BY <1>2, <2>1 DEF Told, WsHangup, SseHangup, SseAborted, CloseReceiver,
                      DropListen, vars, mapVars
  <2>2. ASSUME NEW answer \in Answers, WsAuthenticate(c, answer) \/ SseInvalid(c, answer)
        PROVE  Told(c)'
    BY <1>2, <2>2 DEF Told, WsAuthenticate, SseInvalid, vars, mapVars
  <2>3. ASSUME NEW ch \in Channel, WsSubscribe(c, ch) \/ WsUnsubscribe(c, ch)
        PROVE  Told(c)'
    BY <1>2, <2>3 DEF Told, WsSubscribe, WsUnsubscribe, ListenMany, UnlistenMany, mapVars
  <2>4. ASSUME NEW ch \in Channel, WsNotify(c, ch)
        PROVE  Told(c)'
    BY <1>2, <2>4 DEF Told, WsNotify, Notify, clientVars, mapVars
  <2>5. ASSUME NEW chs \in SUBSET Channel, NEW answer \in Answers,
               SseRequest(c, chs, answer)
        PROVE  Told(c)'
    BY <1>2, <2>5 DEF Told, SseRequest, ListenMany, mapVars
  <2> QED
    BY <2>1, <2>2, <2>3, <2>4, <2>5 DEF Peer
<1> QED
  BY <1>1, <1>3, OtherTold DEF AllTold

\* A call removes from the map only what is off its caller's list already.
LEMMA CallTold ==
  ASSUME BridgeTypeOK, KeptBooks, AllTold, NEW c \in Client, Call(c)
  PROVE  AllTold'
<1>1. TypeOK /\ CallStep(c) /\ UNCHANGED <<phase, mine, asked, confirmed>>
  BY DEF BridgeTypeOK, Call, clientVars
<1>2. \A d \in Client \ {c} : subscribed'[d] = subscribed[d]
  BY <1>1, CallEffect
<1>3. Told(c)'
  <2>1. CASE pc[c] = "unlistenLock"
    <3>1. subscribed'[c] = subscribed[c] \ todo[c]
      BY <1>1, <2>1, CallEffect
    <3>2. \/ phase[c] = "unsubscribing" /\ mine[c] = subscribed[c] \ todo[c]
          \/ phase[c] = "cleaning"
      BY <2>1 DEF BridgeTypeOK, KeptBooks, Books, Idle, Listens
    <3> QED
      BY <1>1, <3>1, <3>2 DEF AllTold, Told
  <2>2. CASE pc[c] # "unlistenLock"
    <3>1. subscribed[c] \subseteq subscribed'[c]
      BY <1>1, <2>2, CallEffect
    <3> QED
      BY <1>1, <3>1 DEF AllTold, Told
  <2> QED
    BY <2>1, <2>2
<1> QED
  BY <1>1, <1>2, <1>3, OtherTold DEF AllTold

\* Every step of the bridge keeps what peers were told true.
LEMMA ToldStep ==
  ASSUME BridgeTypeOK, KeptBooks, AllTold, [BridgeNext]_bridgeVars
  PROVE  AllTold'
<1>1. CASE Deliver \/ Session \/ UNCHANGED bridgeVars
  <2>1. UNCHANGED <<phase, mine, asked, confirmed, subscribed>>
    BY <1>1, OthersEffect DEF Deliver, Session, bridgeVars, vars, clientVars, mapVars
  <2> QED
    BY <2>1, OtherTold DEF AllTold
<1> QED
  BY <1>1, TaskTold, PeerTold, CallTold DEF BridgeNext

\* With distinct ids: whoever was told that it is subscribed is filed, through
\* failures of other calls, reaping and the calls of others; and its channel is
\* listened on, or about to be, or had its LISTEN given up.
THEOREM WhatWasConfirmedIsFiled ==
  ASSUME DistinctIds
  PROVE  BridgeSpec => []ConfirmedIsFiled
<1>1. BridgeInit => AllTold
  BY DEF BridgeInit, Init, AllTold, Told
<1>2. BridgeTypeOK /\ KeptBooks /\ AllTold /\ [BridgeNext]_bridgeVars => AllTold'
  BY ToldStep
<1>3. ASSUME AllTold, KeptReceivers, MapAgrees, ListenCovered
      PROVE  ConfirmedIsFiled
  <2> SUFFICES ASSUME NEW c \in Client, NEW ch \in Channel, ch \in confirmed[c]
               PROVE  /\ channels[ch][IdOf[c]] = c
                      /\ connected => ch \in listening \cup orphans \cup lost
                                                     \cup Pending
    BY DEF ConfirmedIsFiled
  <2>1. ch \in subscribed[c] /\ open[c]
    BY <1>3 DEF AllTold, Told, KeptReceivers, Receiver
  <2>2. channels[ch][IdOf[c]] = c
    BY <1>3, <2>1 DEF MapAgrees, EntriesKept
  <2>3. IdOf[c] \in Subscribers(ch)
    BY <2>2, ListenerAssumption DEF Subscribers
  <2> QED
    BY <1>3, <2>2, <2>3 DEF ListenCovered
<1> QED
  BY <1>1, <1>2, <1>3, BridgeTypeCorrect, BridgeImplements, ReceiversKept,
     MapAlwaysAgrees, AlwaysCovered, PTL DEF BridgeSpec

-----------------------------------------------------------------------------
(* What a closed connection leaves behind *)

\* No statement fails, the session stays up and no request is dropped half-way.
Faultless == Faults = {} /\ Droppable = {}

\* Without faults the session is up, no listen_many fails, and a connection is
\* closed only when its cleanup has emptied its place in the map.
Unharmed ==
    /\ connected
    /\ \A c \in Client : /\ phase[c] = "listening" => pc[c] # "err"
                         /\ phase[c] = "closed" => subscribed[c] = {}

\* Nobody's step harms another connection, and without faults not its own.
LEMMA UnharmedStep ==
  ASSUME Faultless, BridgeTypeOK, KeptBooks, Unharmed, [BridgeNext]_bridgeVars
  PROVE  Unharmed'
<1> USE DEF BridgeTypeOK, TypeOK
<1>1. ASSUME NEW c \in Client, Call(c)
      PROVE  Unharmed'
  <2>1. connected' /\ UNCHANGED phase
    BY <1>1 DEF Unharmed, Faultless, Call, clientVars, CallStep, ListenLocked,
                ListenReturns, ListenFails, UnlistenLocked, RecheckLocked,
                ExecuteUnlisten, UnlistenReturns, UnlistenFails, ExecuteListen,
                Recheck, sessionVars
  <2>2. ~ListenFails(c)
    BY DEF Unharmed, Faultless, ListenFails
  <2>3. phase[c] = "listening" => pc'[c] # "err"
    BY <1>1, <2>2 DEF Unharmed, KeptBooks, Books, Listens, Call, CallStep,
                      ListenLocked, ListenReturns, ExecuteListen, UnlistenLocked,
                      RecheckLocked, ExecuteUnlisten, UnlistenReturns,
                      UnlistenFails, Recheck
  <2>4. phase[c] # "closed"
    BY <1>1, CallEffect DEF Call, KeptBooks, Books, Idle
  <2>5. /\ \A d \in Client \ {c} : pc'[d] = pc[d] /\ subscribed'[d] = subscribed[d]
        /\ connected' /\ phase' = phase
    BY <1>1, <2>1, CallEffect DEF Call
  <2> HIDE DEF BridgeTypeOK, TypeOK
  <2> QED
    BY <2>3, <2>4, <2>5 DEF Unharmed
<1>2. ASSUME Deliver \/ Session \/ UNCHANGED bridgeVars
      PROVE  Unharmed'
  <2>1. UNCHANGED <<phase, pc, subscribed>>
    BY <1>2, OthersEffect DEF Deliver, Session, bridgeVars, vars, clientVars,
                              callVars, mapVars
  <2>2. UNCHANGED connected
    BY <1>2 DEF Faultless, Deliver, Session, bridgeVars, vars, HandlerStep,
                SessionStep, HandlerReceive, HandlerStops, HandlerLocked, SendDone,
                SendFails, Distributed, Reap, SendNext, ConnectionLost, Notify,
                OrphanListen, sessionVars
  <2> QED
    BY <2>1, <2>2 DEF Unharmed
<1>3. ASSUME NEW c \in Client, ClientTask(c) \/ Drain(c)
      PROVE  Unharmed'
  <2>1. connected' /\ UNCHANGED subscribed
    BY <1>3 DEF Unharmed, ClientTask, Drain, WsReply, WsCleanup, SseResponse,
                SsePanics, SseFieldsDropped, SseCleanup, Closed, WsNotification,
                SseEvent, UnlistenMany, CloseReceiver, Receive, vars, sessionVars,
                mapVars
  <2>2. \A d \in Client \ {c} : phase'[d] = phase[d] /\ pc'[d] = pc[d]
    BY <1>3 DEF ClientTask, Drain, WsReply, WsCleanup, SseResponse, SsePanics,
                SseFieldsDropped, SseCleanup, Closed, WsNotification, SseEvent, Goto,
                UnlistenMany, CloseReceiver, Receive, vars, callVars, clientVars
  <2>3. phase'[c] = "listening" => pc'[c] # "err"
    BY <1>3 DEF Unharmed, ClientTask, Drain, WsReply, WsCleanup, SseResponse,
                SsePanics, SseFieldsDropped, SseCleanup, Closed, WsNotification,
                SseEvent, Goto, CloseReceiver, Receive, callVars, clientVars
  <2>4. phase'[c] = "closed" => subscribed[c] = {}
    <3>1. CASE WsCleanup(c)
      BY <3>1 DEF WsCleanup, Goto, KeptBooks, Books
    <3>2. CASE SsePanics(c)
      BY <3>2 DEF SsePanics, Unharmed
    <3>3. CASE Closed(c)
      BY <3>3 DEF Closed, Idle, KeptBooks, Books
    <3>4. CASE \/ WsReply(c) \/ SseResponse(c) \/ SseFieldsDropped(c)
               \/ SseCleanup(c) \/ Drain(c)
      BY <3>4 DEF WsReply, SseResponse, SseFieldsDropped, SseCleanup, Drain,
                  WsNotification, SseEvent, Goto, clientVars, Unharmed
    <3> QED
      BY <1>3, <3>1, <3>2, <3>3, <3>4 DEF ClientTask
  <2> QED
    BY <2>1, <2>2, <2>3, <2>4 DEF Unharmed
<1>4. ASSUME NEW c \in Client, Peer(c)
      PROVE  Unharmed'
  <2>0. ~SseAborted(c)
    BY DEF Faultless, SseAborted, DropListen
  <2>1. UNCHANGED <<connected, subscribed>>
    BY <1>4, <2>0 DEF Peer, WsAuthenticate, SseInvalid, WsHangup, SseHangup,
                WsSubscribe, WsUnsubscribe, WsNotify, SseRequest, ListenMany,
                UnlistenMany,
                CloseReceiver, Notify, vars, sessionVars, mapVars
  <2>2. \A d \in Client \ {c} : phase'[d] = phase[d] /\ pc'[d] = pc[d]
    BY <1>4, <2>0 DEF Peer, WsAuthenticate, SseInvalid, WsHangup, SseHangup,
                WsSubscribe, WsUnsubscribe, WsNotify, SseRequest, ListenMany,
                UnlistenMany,
                CloseReceiver, Notify, Goto, vars, callVars, clientVars
  <2>3. /\ phase'[c] = "listening" => pc'[c] # "err"
        /\ phase'[c] # "closed"  \/ subscribed[c] = {}
    <3>1. ASSUME NEW chs \in SUBSET Channel, NEW answer \in Answers,
                 SseRequest(c, chs, answer)
          PROVE  phase'[c] = "listening" /\ pc'[c] = "listenLock"
      BY <3>1 DEF SseRequest, ListenMany, Goto
    <3>2. ASSUME \/ WsHangup(c) \/ SseHangup(c)
                 \/ \E ch \in Channel : WsSubscribe(c, ch) \/ WsUnsubscribe(c, ch)
          PROVE  phase'[c] \in {"subscribing", "unsubscribing", "cleanup", "dropped"}
      BY <3>2 DEF WsHangup, SseHangup, WsSubscribe, WsUnsubscribe, Goto
    <3>3. ASSUME \/ \E answer \in Answers : WsAuthenticate(c, answer)
                 \/ \E ch \in Channel : WsNotify(c, ch)
          PROVE  UNCHANGED <<phase, pc>>
      BY <3>3 DEF WsAuthenticate, WsNotify, Notify, vars, callVars, clientVars
    <3>4. ASSUME NEW answer \in Answers, SseInvalid(c, answer)
          PROVE  phase'[c] = "closed" /\ subscribed[c] = {}
      BY <3>4 DEF SseInvalid, Goto, KeptBooks, Books
    <3> QED
      BY <1>4, <2>0, <3>1, <3>2, <3>3, <3>4 DEF Unharmed, Peer
  <2> QED
    BY <2>1, <2>2, <2>3 DEF Unharmed
<1> QED
  BY <1>1, <1>2, <1>3, <1>4 DEF BridgeNext

\* A closed connection has nothing left in the map, as long as statements are
\* answered, the session stays up and no request is dropped half-way.
THEOREM ClosedLeavesNothing ==
  ASSUME Faultless
  PROVE  BridgeSpec => []NothingLeftBehind
<1>1. BridgeInit => KeptBooks /\ Unharmed
  BY DEF BridgeInit, Init, KeptBooks, Books, Idle, Unharmed
<1>2. BridgeTypeOK /\ KeptBooks /\ Unharmed /\ [BridgeNext]_bridgeVars
      => KeptBooks' /\ Unharmed'
  BY BooksStep, UnharmedStep
<1>3. Unharmed /\ EntriesOwned => NothingLeftBehind
  BY DEF Unharmed, EntriesOwned, NothingLeftBehind
<1> QED
  BY <1>1, <1>2, <1>3, BridgeTypeCorrect, BridgeImplements, EntriesAreOwned, PTL
  DEF BridgeSpec

-----------------------------------------------------------------------------
(* Nobody gets in without a yes *)

\* authenticate() says so only of a row that is a yes.
LEMMA VerdictGrants ==
  ASSUME NEW answer \in Answer, Verdict(answer) = "authenticated"
  PROVE  Grants(answer)
<1> DEFINE row == Head(answer.rows)
<1>1. answer.ok /\ answer.rows \in Seq(Seq(Column)) /\ answer.rows # <<>>
  BY DEF Verdict, Answer
<1>2. row \in Seq(Column) /\ row # <<>> /\ Readable(row) /\ Flag(row) = "true"
  BY <1>1 DEF Verdict
<1> HIDE DEF row
<1>3. CASE Len(row) = 1
  <2>1. row[1] = "true"
    BY <1>2, <1>3 DEF Flag
  <2>2. row = <<"true">>
    BY <1>2, <1>3, <2>1
  <2> QED
    BY <1>1, <2>2 DEF Grants, row
<1>4. CASE Len(row) >= 2
  <2>1. row[1] = "text" /\ row[2] = "true"
    BY <1>2, <1>4 DEF Flag, Readable
  <2> QED
    BY <1>1, <1>4, <2>1 DEF Grants, row
<1> QED
  BY <1>2, <1>3, <1>4 DEF Readable

\* Whoever is let in, is filed or is about to be, was granted access.
Trusted ==
    \A c \in Client :
        authenticated[c] \/ subscribed[c] \cup todo[c] # {} => c \in granted

\* A call neither widens what it was asked for nor files more than that.
LEMMA CallNarrows ==
  ASSUME TypeOK, NEW c \in Client, CallStep(c)
  PROVE  todo'[c] \subseteq todo[c] /\ subscribed'[c] \subseteq subscribed[c] \cup todo[c]
<1> USE DEF TypeOK
<1>1. CASE ListenLocked(c)
  BY <1>1 DEF ListenLocked
<1>2. CASE ListenReturns(c) \/ ListenFails(c) \/ \E ch \in Channel : ExecuteListen(c, ch)
  BY <1>2 DEF ListenReturns, ListenFails, ExecuteListen, mapVars
<1>3. CASE UnlistenLocked(c)
  BY <1>3 DEF UnlistenLocked
<1>4. CASE RecheckLocked(c) \/ \E ch \in Channel : Recheck(c, ch)
  BY <1>4 DEF RecheckLocked, Recheck, mapVars
<1>5. CASE ExecuteUnlisten(c) \/ UnlistenReturns(c) \/ UnlistenFails(c)
  BY <1>5 DEF ExecuteUnlisten, UnlistenReturns, UnlistenFails, mapVars
<1> QED
  BY <1>1, <1>2, <1>3, <1>4, <1>5 DEF CallStep

\* Where an authenticator is configured every step keeps to that.
LEMMA TrustedStep ==
  ASSUME AuthRequired, BridgeTypeOK, KeptBooks, Trusted, [BridgeNext]_bridgeVars
  PROVE  Trusted'
<1> USE DEF BridgeTypeOK, TypeOK
<1>1. ASSUME NEW c \in Client, Call(c)
      PROVE  Trusted'
  <2>1. CallStep(c) /\ UNCHANGED <<authenticated, granted>>
    BY <1>1 DEF Call, clientVars
  <2>2. /\ todo'[c] \subseteq todo[c] /\ subscribed'[c] \subseteq subscribed[c] \cup todo[c]
        /\ \A d \in Client \ {c} : todo'[d] = todo[d] /\ subscribed'[d] = subscribed[d]
    BY <2>1, CallEffect, CallNarrows
  <2> QED
    BY <2>1, <2>2 DEF Trusted
<1>2. ASSUME Deliver \/ Session \/ UNCHANGED bridgeVars
      PROVE  Trusted'
  BY <1>2, OthersEffect DEF Deliver, Session, bridgeVars, vars, clientVars,
                            callVars, mapVars, Trusted
<1>3. ASSUME NEW c \in Client, ClientTask(c) \/ Drain(c)
      PROVE  Trusted'
  <2>1. UNCHANGED <<authenticated, granted, subscribed>>
    BY <1>3 DEF ClientTask, Drain, WsReply, WsCleanup, SseResponse, SsePanics,
                SseFieldsDropped, SseCleanup, Closed, WsNotification, SseEvent,
                UnlistenMany, CloseReceiver, Receive, vars, clientVars, mapVars
  <2>2. \/ UNCHANGED todo
        \/ /\ phase[c] \in {"cleanup", "dropped"} /\ mine[c] # {}
           /\ todo' = [todo EXCEPT ![c] = mine[c]]
    BY <1>3 DEF ClientTask, Drain, WsReply, WsCleanup, SseResponse, SsePanics,
                SseFieldsDropped, SseCleanup, Closed, WsNotification, SseEvent,
                UnlistenMany, CloseReceiver, Receive, vars, clientVars, callVars
  <2>3. phase[c] \in {"cleanup", "dropped"} => mine[c] = subscribed[c]
    BY DEF KeptBooks, Books
  <2> QED
    BY <2>1, <2>2, <2>3 DEF Trusted
<1>4. ASSUME NEW c \in Client, Peer(c)
      PROVE  Trusted'
  <2>1. CASE WsHangup(c) \/ SseHangup(c) \/ SseAborted(c)
    BY <2>1 DEF WsHangup, SseHangup, SseAborted, CloseReceiver, DropListen, vars,
                callVars, mapVars, Trusted
  <2>2. ASSUME NEW answer \in Answers, Learn(c, answer), UNCHANGED subscribed,
               \/ UNCHANGED todo
               \/ /\ Verdict(answer) = "authenticated"
                  /\ \E chs : todo' = [todo EXCEPT ![c] = chs]
        PROVE  Trusted'
    <3>1. Verdict(answer) = "authenticated" => Grants(answer)
      BY VerdictGrants, BridgeAssumption
    <3> QED
      BY <2>2, <3>1 DEF Learn, Trusted
  <2>3. ASSUME NEW answer \in Answers,
               \/ WsAuthenticate(c, answer)
               \/ SseInvalid(c, answer)
               \/ \E chs \in SUBSET Channel : SseRequest(c, chs, answer)
        PROVE  Trusted'
    BY <2>2, <2>3 DEF WsAuthenticate, SseInvalid, SseRequest, Admitted, ListenMany,
                      vars, callVars, mapVars
  <2>4. ASSUME NEW ch \in Channel, WsSubscribe(c, ch) \/ WsUnsubscribe(c, ch)
        PROVE  Trusted'
    BY <2>4 DEF WsSubscribe, WsUnsubscribe, ListenMany, UnlistenMany, mapVars, Trusted
  <2>5. ASSUME NEW ch \in Channel, WsNotify(c, ch)
        PROVE  Trusted'
    BY <2>5 DEF WsNotify, Notify, clientVars, callVars, mapVars, Trusted
  <2> QED
    BY <1>4, <2>1, <2>3, <2>4, <2>5 DEF Peer
<1> QED
  BY <1>1, <1>2, <1>3, <1>4 DEF BridgeNext

\* Nobody is filed in the map, or on the way there, whose token the PostgreSQL
\* function has not said yes to, whatever rows it returns.
THEOREM GrantedOnly == BridgeSpec => []OnlyGranted
<1>1. CASE ~AuthRequired
  <2>1. OnlyGranted
    BY <1>1 DEF OnlyGranted
  <2> QED
    BY <2>1, PTL
<1>2. CASE AuthRequired
  <2>1. BridgeInit => KeptBooks /\ Trusted
    BY <1>2 DEF BridgeInit, Init, KeptBooks, Books, Idle, Trusted
  <2>2. BridgeTypeOK /\ KeptBooks /\ Trusted /\ [BridgeNext]_bridgeVars
        => KeptBooks' /\ Trusted'
    BY <1>2, BooksStep, TrustedStep
  <2>3. Trusted => OnlyGranted
    BY DEF Trusted, OnlyGranted
  <2> QED
    BY <2>1, <2>2, <2>3, BridgeTypeCorrect, PTL DEF BridgeSpec
<1> QED
  BY <1>1, <1>2

=============================================================================
