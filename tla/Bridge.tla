------------------------------- MODULE Bridge -------------------------------
(***************************************************************************)
(* The bridge: PostgresListener with the callers it really has, WebSocket  *)
(* connections (src/src/websocket.rs) and Server-Sent Events responses     *)
(* (src/src/server_push.rs, src/src/drop_stream.rs).                       *)
(*                                                                         *)
(* A WebSocket connection is one task: while it handles a message it does  *)
(* not read its queue.  An SSE response is read by the HTTP server, apart  *)
(* from the calls that set it up and clean it up.                          *)
(***************************************************************************)
EXTENDS PostgresListener, Authenticator

CONSTANTS
    WsClient,        \* WebSocket connections
    SseClient,       \* SSE requests
    AuthRequired,    \* an authenticator is configured
    Answers          \* answers its PostgreSQL function may give

ASSUME BridgeAssumption ==
    /\ Client = WsClient \cup SseClient
    /\ WsClient \cap SseClient = {}
    /\ Droppable \subseteq SseClient
    /\ AuthRequired \in BOOLEAN
    \* next_client_id and client_id_counter both count from 0.
    /\ \A c, d \in WsClient : IdOf[c] = IdOf[d] => c = d
    /\ \A c, d \in SseClient : IdOf[c] = IdOf[d] => c = d
    /\ Answers \subseteq Answer

VARIABLES
    phase,           \* where the connection or request is
    authenticated,   \* WebSocketClient.authenticated; an SSE request let in
    granted,         \* history: clients whose token the function said yes to
    mine,            \* WebSocketClient.channels; drop_channels of an SSE stream
    asked,           \* the channels of the call being made
    confirmed        \* history: subscriptions the peer was told it has

clientVars == <<phase, authenticated, granted, mine, asked, confirmed>>
bridgeVars == <<vars, clientVars>>

\* The types of the variables.
BridgeTypeOK ==
    /\ TypeOK
    /\ phase \in [Client -> {"request", "listening", "streaming", "dropped",
                             "loop", "subscribing", "unsubscribing", "cleanup",
                             "cleaning", "closed"}]
    /\ authenticated \in [Client -> BOOLEAN]
    /\ granted \subseteq Client
    /\ mine \in [Client -> SUBSET Channel]
    /\ asked \in [Client -> SUBSET Channel]
    /\ confirmed \in [Client -> SUBSET Channel]

BridgeInit ==
    /\ Init
    /\ phase = [c \in Client |-> IF c \in WsClient THEN "loop" ELSE "request"]
    /\ authenticated = [c \in Client |-> ~AuthRequired]
    /\ granted = {}
    /\ mine = [c \in Client |-> {}]
    /\ asked = [c \in Client |-> {}]
    /\ confirmed = [c \in Client |-> {}]

Goto(c, p) == phase' = [phase EXCEPT ![c] = p]

-----------------------------------------------------------------------------
(* A WebSocket connection *)

\* The authenticator's answer about c's token.  A no takes nothing back that an
\* earlier yes has given.
Learn(c, answer) ==
    /\ authenticated' =
          [authenticated EXCEPT ![c] = @ \/ Verdict(answer) = "authenticated"]
    /\ granted' = IF Grants(answer) THEN granted \cup {c} ELSE granted

\* An Authenticate message.  One sent though no authenticator is configured is
\* answered with an error and changes nothing.
WsAuthenticate(c, answer) ==
    /\ phase[c] = "loop" /\ c \in WsClient /\ AuthRequired
    /\ Learn(c, answer)
    /\ UNCHANGED <<vars, phase, mine, asked, confirmed>>

\* Mutant: the channel is not entered in self.channels.
WsSubscribe_Unrecorded(c, ch) ==
    /\ phase[c] = "loop" /\ authenticated[c]
    /\ asked' = [asked EXCEPT ![c] = {ch}]
    /\ ListenMany(c, {ch})
    /\ Goto(c, "subscribing")
    /\ UNCHANGED <<authenticated, granted, mine, confirmed>>

\* A Subscribe message: into self.channels first, then listen_many.
WsSubscribe(c, ch) ==
    /\ phase[c] = "loop" /\ authenticated[c]
    /\ mine' = [mine EXCEPT ![c] = @ \cup {ch}]
    /\ asked' = [asked EXCEPT ![c] = {ch}]
    /\ ListenMany(c, {ch})
    /\ Goto(c, "subscribing")
    /\ UNCHANGED <<authenticated, granted, confirmed>>

WsUnsubscribe(c, ch) ==
    /\ phase[c] = "loop" /\ authenticated[c]
    /\ mine' = [mine EXCEPT ![c] = @ \ {ch}]
    /\ confirmed' = [confirmed EXCEPT ![c] = @ \ {ch}]
    /\ asked' = [asked EXCEPT ![c] = {ch}]
    /\ UnlistenMany(c, {ch})
    /\ Goto(c, "unsubscribing")
    /\ UNCHANGED <<authenticated, granted>>

\* Mutant: a failed subscription is taken back from self.channels only.
WsReply_TakesBack(c) ==
    /\ phase[c] \in {"subscribing", "unsubscribing"} /\ Idle(c)
    /\ confirmed' = IF phase[c] = "subscribing" /\ pc[c] = "ok"
                    THEN [confirmed EXCEPT ![c] = @ \cup asked[c]]
                    ELSE confirmed
    /\ mine' = IF phase[c] = "subscribing" /\ pc[c] = "err"
               THEN [mine EXCEPT ![c] = @ \ asked[c]]
               ELSE mine
    /\ asked' = [asked EXCEPT ![c] = {}]
    /\ Goto(c, "loop")
    /\ UNCHANGED <<vars, authenticated, granted>>

\* The call is over: Subscribed, Unsubscribed or Error is sent, and the task is
\* back in its loop.
WsReply(c) ==
    /\ phase[c] \in {"subscribing", "unsubscribing"} /\ Idle(c)
    /\ confirmed' = IF phase[c] = "subscribing" /\ pc[c] = "ok"
                    THEN [confirmed EXCEPT ![c] = @ \cup asked[c]]
                    ELSE confirmed
    /\ asked' = [asked EXCEPT ![c] = {}]
    /\ Goto(c, "loop")
    /\ UNCHANGED <<vars, authenticated, granted, mine>>

\* A Notify message becomes a pg_notify of the bridge's own session.
WsNotify(c, ch) ==
    /\ phase[c] = "loop" /\ authenticated[c]
    /\ Notify(ch)
    /\ UNCHANGED clientVars

\* The loop takes a notification from the queue; one of a channel that is not
\* in self.channels is skipped, and consumed all the same.
WsNotification(c) ==
    /\ phase[c] = "loop"
    /\ Receive(c)
    /\ UNCHANGED clientVars

\* The peer closes, the socket fails or a send does: the loop ends, and its
\* receiver with it, before the cleanup begins.
WsHangup(c) ==
    /\ phase[c] = "loop"
    /\ CloseReceiver(c)
    /\ confirmed' = [confirmed EXCEPT ![c] = {}]
    /\ Goto(c, "cleanup")
    /\ UNCHANGED <<authenticated, granted, mine, asked>>

\* handle_connection unlistens self.channels, if there are any.
WsCleanup(c) ==
    /\ phase[c] = "cleanup"
    /\ \/ /\ mine[c] # {}
          /\ UnlistenMany(c, mine[c])
          /\ Goto(c, "cleaning")
       \/ /\ mine[c] = {}
          /\ Goto(c, "closed")
          /\ UNCHANGED vars
    /\ UNCHANGED <<authenticated, granted, mine, asked, confirmed>>

-----------------------------------------------------------------------------
(* An SSE request *)

\* The check in front of the handler; a request that fails it is answered at
\* once and leaves no trace.
Admitted(c, answer) ==
    \/ AuthRequired /\ Verdict(answer) = "authenticated" /\ Learn(c, answer)
    \/ ~AuthRequired /\ UNCHANGED <<authenticated, granted>>

\* An admitted request with valid names, of which there is at least one.
SseRequest(c, chs, answer) ==
    /\ phase[c] = "request"
    /\ Admitted(c, answer)
    /\ asked' = [asked EXCEPT ![c] = chs]
    /\ ListenMany(c, chs)
    /\ Goto(c, "listening")
    /\ UNCHANGED <<mine, confirmed>>

\* An admitted request with a name among its channels that is not valid: it is
\* refused as a whole, before it touches the listener.
SseInvalid(c, answer) ==
    /\ phase[c] = "request"
    /\ Admitted(c, answer)
    /\ Goto(c, "closed")
    /\ UNCHANGED <<vars, mine, asked, confirmed>>

\* listen_many succeeded: only now is there a DropStream that will undo it.
SseResponse(c) ==
    /\ phase[c] = "listening" /\ pc[c] = "ok"
    /\ mine' = [mine EXCEPT ![c] = asked[c]]
    /\ confirmed' = [confirmed EXCEPT ![c] = asked[c]]
    /\ asked' = [asked EXCEPT ![c] = {}]
    /\ Goto(c, "streaming")
    /\ UNCHANGED <<vars, authenticated, granted>>

\* listen_many failed: `expect` panics before there is a DropStream.
SsePanics(c) ==
    /\ phase[c] = "listening" /\ pc[c] = "err"
    /\ CloseReceiver(c)
    /\ asked' = [asked EXCEPT ![c] = {}]
    /\ Goto(c, "closed")
    /\ UNCHANGED <<authenticated, granted, mine, confirmed>>

\* The peer goes away while the handler is inside listen_many: its future is
\* dropped before there is a DropStream.
SseAborted(c) ==
    /\ phase[c] = "listening"
    /\ DropListen(c)
    /\ asked' = [asked EXCEPT ![c] = {}]
    /\ Goto(c, "closed")
    /\ UNCHANGED <<authenticated, granted, mine, confirmed>>

SseEvent(c) ==
    /\ phase[c] = "streaming"
    /\ Receive(c)
    /\ UNCHANGED clientVars

\* The peer goes away and the DropStream is dropped: its own `drop` comes first
\* and spawns on_drop ...
SseHangup(c) ==
    /\ phase[c] = "streaming"
    /\ confirmed' = [confirmed EXCEPT ![c] = {}]
    /\ Goto(c, "dropped")
    /\ UNCHANGED <<vars, authenticated, granted, mine, asked>>

\* Mutant: the receiver is moved into on_drop, which drops it at its end.
SseFieldsDropped_AtTheEnd(c) ==
    /\ phase[c] = "closed"
    /\ CloseReceiver(c)
    /\ UNCHANGED clientVars

\* ... then its fields are dropped, the receiver among them; on_drop may be under
\* way by then, or over.  (A refused request drops its receiver this way too, and
\* a WebSocket connection has none left.)
SseFieldsDropped(c) ==
    /\ phase[c] \in {"dropped", "cleaning", "closed"}
    /\ CloseReceiver(c)
    /\ UNCHANGED clientVars

\* on_drop runs as a task of its own.
SseCleanup(c) ==
    /\ phase[c] = "dropped"
    /\ UnlistenMany(c, mine[c])
    /\ Goto(c, "cleaning")
    /\ UNCHANGED <<authenticated, granted, mine, asked, confirmed>>

\* The end of either cleanup, whatever unlisten_many returned.
Closed(c) ==
    /\ phase[c] = "cleaning" /\ Idle(c)
    /\ mine' = [mine EXCEPT ![c] = {}]
    /\ Goto(c, "closed")
    /\ UNCHANGED <<vars, authenticated, granted, asked, confirmed>>

-----------------------------------------------------------------------------

\* What the connection's own tasks do next, without its peer.
ClientTask(c) ==
    \/ WsReply(c) \/ WsCleanup(c)
    \/ SseResponse(c) \/ SsePanics(c) \/ SseFieldsDropped(c) \/ SseCleanup(c)
    \/ Closed(c)

Drain(c) == WsNotification(c) \/ SseEvent(c)

\* What the peer does.
Peer(c) ==
    \/ WsHangup(c) \/ SseAborted(c) \/ SseHangup(c)
    \/ \E answer \in Answers : WsAuthenticate(c, answer) \/ SseInvalid(c, answer)
    \/ \E ch \in Channel :
          WsSubscribe(c, ch) \/ WsUnsubscribe(c, ch) \/ WsNotify(c, ch)
    \/ \E chs \in (SUBSET Channel) \ {{}}, answer \in Answers :
          SseRequest(c, chs, answer)

Call(c) == CallStep(c) /\ UNCHANGED clientVars
Deliver == HandlerStep /\ UNCHANGED clientVars
Session == SessionStep /\ UNCHANGED clientVars

BridgeNext ==
    \/ \E c \in Client : ClientTask(c) \/ Drain(c) \/ Peer(c) \/ Call(c)
    \/ Deliver
    \/ Session

BridgeSpec == BridgeInit /\ [][BridgeNext]_bridgeVars

\* Tasks are scheduled and statements answered; a queue is drained by whoever
\* reads it, and by nobody while a WebSocket task is busy with a message.
BridgeFairness ==
    /\ WF_bridgeVars(Deliver)
    /\ \A c \in Client :
          /\ WF_bridgeVars(Call(c))
          /\ WF_bridgeVars(ClientTask(c))
          /\ WF_bridgeVars(Drain(c))

BridgeFairSpec == BridgeSpec /\ BridgeFairness

-----------------------------------------------------------------------------
(* Safety *)

\* A connection's own list and the map agree whenever it may hang up: what its
\* cleanup will remove is exactly what is filed for it.
CleanupCoversMap ==
    \A c \in Client :
        phase[c] \in {"loop", "streaming", "cleanup", "dropped"}
            => mine[c] = subscribed[c]

\* Nobody is filed in the map, or on the way there, whose token the PostgreSQL
\* function has not said yes to: "Authentication required" (websocket.rs:290,
\* server_push.rs:133), whatever rows the function returns and whichever server
\* was asked.
OnlyGranted ==
    AuthRequired => \A c \in Client :
        authenticated[c] \/ subscribed[c] \cup todo[c] # {} => c \in granted

\* A connection that is closed has nothing left in the map.
NothingLeftBehind ==
    \A c \in Client : phase[c] = "closed" =>
        \A ch \in Channel, id \in ClientId : channels[ch][id] # c

\* c will, or is about to, call or finish an unlisten_many that covers ch.
Owes(c, ch) ==
    \/ ch \in mine[c]
    \/ pc[c] \in {"unlistenLock", "recheckLock", "unlisten"}
          /\ ch \in todo[c] \cup checked[c]

\* "Automatically LISTEN/UNLISTEN on Postgres as clients subscribe"
\* (README.md:10): a channel is listened on without anybody subscribed to it
\* only as long as some connection has still to unlisten it.
NoIdleListen ==
    \A ch \in listening : Subscribers(ch) # {} \/ \E c \in Client : Owes(c, ch)

\* A peer that was told it is subscribed, and has not been told otherwise, is
\* subscribed to a channel the session listens on.
ConfirmedIsHeard ==
    connected => \A c \in Client : confirmed[c] \subseteq listening

\* A peer that was told it is subscribed, and has not been told otherwise, has its
\* connection filed under the channel, where no other connection replaces it and
\* no reaping removes it; and the session listens on the channel, is about to, or
\* gave that up with an error or a dropped call.
ConfirmedIsFiled ==
    \A c \in Client, ch \in Channel : ch \in confirmed[c] =>
        /\ channels[ch][IdOf[c]] = c
        /\ connected => ch \in listening \cup orphans \cup lost \cup Pending

-----------------------------------------------------------------------------
(* Deadlock *)

\* The handler waits for a slot in the queue of a WebSocket connection whose task
\* waits for the lock that the handler holds.
Stalled ==
    \E c \in WsClient :
        /\ stage = "sending" /\ \E entry \in target : entry[2] = c
        /\ Len(buf[c]) = Capacity
        /\ ~Idle(c) /\ ~CallGoesOn(c)

\* Whoever has c's queue is reading it, or will be after a call that goes on, or is
\* about to drop it.
WillEmpty(c) ==
    /\ open[c]
    /\ \/ phase[c] \in {"loop", "streaming", "dropped", "cleaning"}
       \/ /\ phase[c] \in {"listening", "subscribing", "unsubscribing"}
          /\ Idle(c) \/ CallGoesOn(c)

\* Whoever waits for the lock is queued for it; the head of the queue gets it or
\* waits for readers; and a reader goes on, or is the handler, waiting for a
\* queue that will be emptied.  The stall is the only cycle there is.
OnlyStallBlocks ==
    /\ \A c \in Client : Idle(c) \/ CallGoesOn(c) \/ Queued(c)
    /\ stage \in {"distLock", "reapLock"} => Queued(Handler)
    /\ waiting # <<>> => GoesOn(Head(waiting)) \/ readers # {}
    /\ \A t \in readers :
          GoesOn(t) \/ (t = Handler /\ (Stalled \/ \E entry \in target : WillEmpty(entry[2])))

-----------------------------------------------------------------------------
(* Liveness *)

\* A connection whose peer has gone is cleaned up in the end.
HangupIsCleanedUp ==
    \A c \in Client : phase[c] \in {"cleanup", "dropped"} ~> phase[c] = "closed"

\* Nothing else blocks a call, neither a queue that is full nor a receiver that
\* is gone.
CallsReturnUnlessStalled == CallsReturn \/ <>[]Stalled

\* Nor does anything else keep a connection that is over from being cleaned up.
CleanedUpUnlessStalled == HangupIsCleanedUp \/ <>[]Stalled

=============================================================================
