-------------------------- MODULE PostgresListener --------------------------
(***************************************************************************)
(* The LISTEN/NOTIFY multiplexer of src/src/postgres.rs: one PostgreSQL    *)
(* session shared by every subscriber of the process.                      *)
(*                                                                         *)
(* The subscription map (`channels`) sits behind a tokio RwLock.  Callers  *)
(* run listen_many and unlisten_many; the notification handler, a task of  *)
(* its own, takes what the session delivers and hands it to the bounded    *)
(* mpsc queue of every subscriber.  A write section contains no await, so  *)
(* it is one step here; the two read sections that do await while holding  *)
(* the lock (delivery, and UNLISTEN) are split at every await.             *)
(*                                                                         *)
(* Callers are the most general ones: any client may call when it is idle. *)
(* The module Bridge restricts them to what websocket.rs and               *)
(* server_push.rs do.                                                      *)
(***************************************************************************)
EXTENDS Naturals, Sequences, FiniteSets

CONSTANTS
    Client,      \* subscribers: a task and the receiving end of its queue
    ClientId,    \* the u64 ids under which the map files a Sender
    IdOf,        \* the id each client was given by its server
    Droppable,   \* clients whose call is a future that may be dropped
    Channel,     \* channel names
    Handler,     \* the notification handler task
    NoSender,    \* no entry in the map
    Capacity,    \* slots of a subscriber's queue (32 in the code)
    MaxNotify,   \* bound: notifications published in a behaviour
    Faults       \* which faults the session may show

FaultKinds == {"reject", "disconnect"}

ASSUME ListenerAssumption ==
    /\ IdOf \in [Client -> ClientId]
    /\ Droppable \subseteq Client
    /\ Handler \notin Client
    /\ NoSender \notin Client
    /\ Capacity \in Nat \ {0}
    /\ MaxNotify \in Nat
    /\ Faults \subseteq FaultKinds

VARIABLES
    channels,    \* the map: channel -> id -> the client whose Sender is filed
    subscribed,  \* history: channels each client's own calls put it in
    waiting,     \* tasks queued for the RwLock, first come first served
    readers,     \* tasks inside a read section
    pc,          \* where each client's call is; "ok" and "err" when idle
    todo,        \* channels the call has still to LISTEN or to recheck
    checked,     \* the channel found empty, whose UNLISTEN is in flight
    connected,   \* the session is up
    listening,   \* channels the session listens on, as the server sees it
    orphans,     \* LISTEN statements in flight whose caller is gone
    lost,        \* history: LISTENs given up by an error or a dropped call
    published,   \* history: the channel of every notification so far
    inbox,       \* notifications on their way to the handler, by number
    stage,       \* where the handler is
    msg,         \* the notification it handles, 0 for none
    targets,     \* entries <<id, client>> it has still to serve
    target,      \* the entry it is sending to, {} for none
    dead,        \* dead_ids: ids whose receiver turned out to be closed
    buf,         \* the subscriber's queue
    open,        \* its receiving end exists
    last         \* history: number of the last notification it consumed

callVars    == <<pc, todo, checked>>
lockVars    == <<waiting, readers>>
sessionVars == <<connected, listening, orphans, lost>>
noteVars    == <<published, inbox>>
handlerVars == <<stage, msg, targets, target, dead>>
queueVars   == <<buf, open, last>>
mapVars     == <<channels, subscribed>>
vars == <<mapVars, callVars, lockVars, sessionVars, noteVars, handlerVars,
          queueVars>>

-----------------------------------------------------------------------------

Task == Client \cup {Handler}
Idle(c) == pc[c] \in {"ok", "err"}

\* The ids and the entries filed under a channel; the channel of a notification.
Subscribers(ch) == {id \in ClientId : channels[ch][id] # NoSender}
Entries(ch) ==
    {entry \in ClientId \X Client : channels[ch][entry[1]] = entry[2]}
Topic(n) == published[n]

\* tokio's RwLock is fair: only the first task in the queue is served, and a
\* writer waits there until the readers have left.
CanRead(t) == waiting # <<>> /\ Head(waiting) = t
CanWrite(t) == CanRead(t) /\ readers = {}

\* The types of the variables.
TypeOK ==
    /\ channels \in [Channel -> [ClientId -> Client \cup {NoSender}]]
    /\ subscribed \in [Client -> SUBSET Channel]
    /\ waiting \in Seq(Task)
    /\ readers \subseteq Task
    /\ pc \in [Client -> {"ok", "err", "listenLock", "listen", "unlistenLock",
                          "recheckLock", "unlisten"}]
    /\ todo \in [Client -> SUBSET Channel]
    /\ checked \in [Client -> SUBSET Channel]
    /\ connected \in BOOLEAN
    /\ listening \subseteq Channel
    /\ orphans \subseteq Channel
    /\ lost \subseteq Channel
    /\ published \in Seq(Channel)
    /\ inbox \in Seq(Nat)
    /\ stage \in {"recv", "distLock", "distribute", "sending", "reapLock",
                  "stopped"}
    /\ msg \in Nat
    /\ targets \subseteq ClientId \X Client
    /\ target \subseteq ClientId \X Client
    /\ dead \subseteq ClientId
    /\ buf \in [Client -> Seq(Nat)]
    /\ open \in [Client -> BOOLEAN]
    /\ last \in [Client -> Nat]

\* connect(): an empty map, the session up and listening on nothing, the
\* handler waiting for its first message.
Init ==
    /\ channels = [ch \in Channel |-> [id \in ClientId |-> NoSender]]
    /\ subscribed = [c \in Client |-> {}]
    /\ waiting = <<>>
    /\ readers = {}
    /\ pc = [c \in Client |-> "ok"]
    /\ todo = [c \in Client |-> {}]
    /\ checked = [c \in Client |-> {}]
    /\ connected = TRUE
    /\ listening = {}
    /\ orphans = {}
    /\ lost = {}
    /\ published = <<>>
    /\ inbox = <<>>
    /\ stage = "recv"
    /\ msg = 0
    /\ targets = {}
    /\ target = {}
    /\ dead = {}
    /\ buf = [c \in Client |-> <<>>]
    /\ open = [c \in Client |-> TRUE]
    /\ last = [c \in Client |-> 0]

-----------------------------------------------------------------------------
(* listen_many *)

\* The call starts by queueing for the write lock.
ListenMany(c, chs) ==
    /\ Idle(c) /\ open[c] /\ chs # {}
    /\ pc' = [pc EXCEPT ![c] = "listenLock"]
    /\ todo' = [todo EXCEPT ![c] = chs]
    /\ waiting' = Append(waiting, c)
    /\ UNCHANGED <<mapVars, readers, checked, sessionVars, noteVars,
                   handlerVars, queueVars>>

\* The map with c's Sender filed under every channel of chs.
Filed(c, chs) ==
    [ch \in Channel |-> IF ch \in chs
                        THEN [channels[ch] EXCEPT ![IdOf[c]] = c]
                        ELSE channels[ch]]

\* The write section: file the Sender everywhere, and remember the channels
\* that nobody was subscribed to.  Without any the call returns at once.
ListenLocked(c) ==
    /\ pc[c] = "listenLock" /\ CanWrite(c)
    /\ waiting' = Tail(waiting)
    /\ channels' = Filed(c, todo[c])
    /\ subscribed' = [subscribed EXCEPT ![c] = @ \cup todo[c]]
    /\ todo' = [todo EXCEPT ![c] = {ch \in @ : Subscribers(ch) = {}}]
    /\ pc' = [pc EXCEPT ![c] = IF todo'[c] = {} THEN "ok" ELSE "listen"]
    /\ UNCHANGED <<readers, checked, sessionVars, noteVars, handlerVars,
                   queueVars>>

\* The server executes the LISTEN in flight.
ExecuteListen(c, ch) ==
    /\ pc[c] = "listen" /\ ch \in todo[c] /\ connected
    /\ listening' = listening \cup {ch}
    /\ lost' = lost \ {ch}
    /\ todo' = [todo EXCEPT ![c] = @ \ {ch}]
    /\ UNCHANGED <<mapVars, pc, checked, lockVars, connected, orphans,
                   noteVars, handlerVars, queueVars>>

\* The answer to the last one resumes the call.
ListenReturns(c) ==
    /\ pc[c] = "listen" /\ todo[c] = {}
    /\ pc' = [pc EXCEPT ![c] = "ok"]
    /\ UNCHANGED <<mapVars, todo, checked, lockVars, sessionVars, noteVars,
                   handlerVars, queueVars>>

\* A LISTEN is refused, or the session is lost before its answer, whether it was
\* executed or not: `?` returns at once and leaves the entries in the map.
ListenFails(c) ==
    /\ pc[c] = "listen"
    /\ ("reject" \in Faults /\ todo[c] # {}) \/ ~connected
    /\ pc' = [pc EXCEPT ![c] = "err"]
    /\ todo' = [todo EXCEPT ![c] = {}]
    /\ lost' = IF connected THEN lost \cup (todo[c] \ listening) ELSE lost
    /\ UNCHANGED <<mapVars, checked, lockVars, connected, listening, orphans,
                   noteVars, handlerVars, queueVars>>

\* The future of a listen_many is dropped where it awaits, and the receiver
\* with it: a task queued for the lock leaves the queue; one awaiting a LISTEN
\* may have sent it already (sent), the rest is never sent.
DropListen(c) ==
    /\ c \in Droppable
    /\ \/ /\ pc[c] = "listenLock"
          /\ \E i \in DOMAIN waiting :
                /\ waiting[i] = c
                /\ waiting' = SubSeq(waiting, 1, i - 1)
                              \o SubSeq(waiting, i + 1, Len(waiting))
          /\ UNCHANGED <<orphans, lost>>
       \/ /\ pc[c] = "listen"
          /\ \E sent \in {{}} \cup {{ch} : ch \in todo[c]} :
                /\ connected \/ sent = {}
                /\ orphans' = orphans \cup sent
                /\ lost' = IF connected
                           THEN lost \cup (todo[c] \ (listening \cup sent))
                           ELSE lost
          /\ UNCHANGED waiting
    /\ pc' = [pc EXCEPT ![c] = "err"]
    /\ todo' = [todo EXCEPT ![c] = {}]
    /\ open' = [open EXCEPT ![c] = FALSE]
    /\ buf' = [buf EXCEPT ![c] = <<>>]
    /\ UNCHANGED <<mapVars, checked, readers, connected, listening, noteVars,
                   handlerVars, last>>

\* The server executes a LISTEN whose caller is gone.
OrphanListen(ch) ==
    /\ ch \in orphans /\ connected
    /\ orphans' = orphans \ {ch}
    /\ listening' = listening \cup {ch}
    /\ lost' = lost \ {ch}
    /\ UNCHANGED <<mapVars, callVars, lockVars, connected, noteVars,
                   handlerVars, queueVars>>

-----------------------------------------------------------------------------
(* unlisten_many *)

UnlistenMany(c, chs) ==
    /\ Idle(c) /\ chs # {}
    /\ pc' = [pc EXCEPT ![c] = "unlistenLock"]
    /\ todo' = [todo EXCEPT ![c] = chs]
    /\ waiting' = Append(waiting, c)
    /\ UNCHANGED <<mapVars, readers, checked, sessionVars, noteVars,
                   handlerVars, queueVars>>

\* The map without the id's entry in any channel of chs.
Removed(id, chs) ==
    [ch \in Channel |-> IF ch \in chs
                        THEN [channels[ch] EXCEPT ![id] = NoSender]
                        ELSE channels[ch]]

\* Mutant: is_empty is asked before the entry is removed.
UnlistenLocked_TooEarly(c) ==
    /\ pc[c] = "unlistenLock" /\ CanWrite(c)
    /\ channels' = Removed(IdOf[c], todo[c])
    /\ subscribed' = [subscribed EXCEPT ![c] = @ \ todo[c]]
    /\ todo' = [todo EXCEPT ![c] = {ch \in @ : Subscribers(ch) = {}}]
    /\ waiting' = Append(Tail(waiting), c)
    /\ pc' = [pc EXCEPT ![c] = "recheckLock"]
    /\ UNCHANGED <<readers, checked, sessionVars, noteVars, handlerVars,
                   queueVars>>

\* The write section: remove whatever is filed under the id, remember the
\* channels left empty, release, and queue again as a reader.
UnlistenLocked(c) ==
    /\ pc[c] = "unlistenLock" /\ CanWrite(c)
    /\ channels' = Removed(IdOf[c], todo[c])
    /\ subscribed' = [subscribed EXCEPT ![c] = @ \ todo[c]]
    /\ todo' = [todo EXCEPT ![c] = {ch \in @ : Subscribers(ch) \subseteq {IdOf[c]}}]
    /\ waiting' = Append(Tail(waiting), c)
    /\ pc' = [pc EXCEPT ![c] = "recheckLock"]
    /\ UNCHANGED <<readers, checked, sessionVars, noteVars, handlerVars,
                   queueVars>>

RecheckLocked(c) ==
    /\ pc[c] = "recheckLock" /\ CanRead(c)
    /\ waiting' = Tail(waiting)
    /\ readers' = readers \cup {c}
    /\ pc' = [pc EXCEPT ![c] = "unlisten"]
    /\ UNCHANGED <<mapVars, todo, checked, sessionVars, noteVars, handlerVars,
                   queueVars>>

\* Mutant: no second is_empty.
Recheck_Omitted(c, ch) ==
    /\ pc[c] = "unlisten" /\ checked[c] = {} /\ ch \in todo[c]
    /\ todo' = [todo EXCEPT ![c] = @ \ {ch}]
    /\ checked' = [checked EXCEPT ![c] = {ch}]
    /\ UNCHANGED <<mapVars, pc, lockVars, sessionVars, noteVars, handlerVars,
                   queueVars>>

\* Under the read lock: UNLISTEN a channel only if it is still empty.
Recheck(c, ch) ==
    /\ pc[c] = "unlisten" /\ checked[c] = {} /\ ch \in todo[c]
    /\ todo' = [todo EXCEPT ![c] = @ \ {ch}]
    /\ checked' = [checked EXCEPT ![c] = {x \in {ch} : Subscribers(x) = {}}]
    /\ UNCHANGED <<mapVars, pc, lockVars, sessionVars, noteVars, handlerVars,
                   queueVars>>

ExecuteUnlisten(c) ==
    /\ pc[c] = "unlisten" /\ checked[c] # {} /\ connected
    /\ listening' = listening \ checked[c]
    /\ checked' = [checked EXCEPT ![c] = {}]
    /\ UNCHANGED <<mapVars, pc, todo, lockVars, connected, orphans, lost,
                   noteVars, handlerVars, queueVars>>

\* Mutant: the read guard outlives the call.
UnlistenReturns_KeepsLock(c) ==
    /\ pc[c] = "unlisten" /\ checked[c] = {} /\ todo[c] = {}
    /\ pc' = [pc EXCEPT ![c] = "ok"]
    /\ UNCHANGED <<mapVars, todo, checked, lockVars, sessionVars, noteVars,
                   handlerVars, queueVars>>

\* Returning releases the read lock.
UnlistenReturns(c) ==
    /\ pc[c] = "unlisten" /\ checked[c] = {} /\ todo[c] = {}
    /\ pc' = [pc EXCEPT ![c] = "ok"]
    /\ readers' = readers \ {c}
    /\ UNCHANGED <<mapVars, todo, checked, waiting, sessionVars, noteVars,
                   handlerVars, queueVars>>

UnlistenFails(c) ==
    /\ pc[c] = "unlisten" /\ checked[c] # {}
    /\ "reject" \in Faults \/ ~connected
    /\ pc' = [pc EXCEPT ![c] = "err"]
    /\ todo' = [todo EXCEPT ![c] = {}]
    /\ checked' = [checked EXCEPT ![c] = {}]
    /\ readers' = readers \ {c}
    /\ UNCHANGED <<mapVars, waiting, sessionVars, noteVars, handlerVars,
                   queueVars>>

-----------------------------------------------------------------------------
(* The subscriber's end of its queue *)

Receive(c) ==
    /\ open[c] /\ buf[c] # <<>>
    /\ last' = [last EXCEPT ![c] = Head(buf[c])]
    /\ buf' = [buf EXCEPT ![c] = Tail(@)]
    /\ UNCHANGED <<mapVars, callVars, lockVars, sessionVars, noteVars,
                   handlerVars, open>>

\* The receiver is dropped, and what was queued with it: by a task that is in no
\* call, or while another one is already unlistening for it.
CloseReceiver(c) ==
    /\ open[c] /\ pc[c] \notin {"listenLock", "listen"}
    /\ open' = [open EXCEPT ![c] = FALSE]
    /\ buf' = [buf EXCEPT ![c] = <<>>]
    /\ UNCHANGED <<mapVars, callVars, lockVars, sessionVars, noteVars,
                   handlerVars, last>>

-----------------------------------------------------------------------------
(* The session *)

\* Some session commits a NOTIFY; ours is told if it listens.
Notify(ch) ==
    /\ connected /\ Len(published) < MaxNotify
    /\ published' = Append(published, ch)
    /\ inbox' = IF ch \in listening
                THEN Append(inbox, Len(published) + 1)
                ELSE inbox
    /\ UNCHANGED <<mapVars, callVars, lockVars, sessionVars, handlerVars,
                   queueVars>>

\* The connection breaks; only a prefix of what was sent to us got through.
ConnectionLost ==
    /\ "disconnect" \in Faults /\ connected
    /\ connected' = FALSE
    /\ listening' = {}
    /\ orphans' = {}
    /\ lost' = {}
    /\ \E k \in 0 .. Len(inbox) : inbox' = SubSeq(inbox, 1, k)
    /\ UNCHANGED <<mapVars, callVars, lockVars, published, handlerVars,
                   queueVars>>

-----------------------------------------------------------------------------
(* handle_notifications *)

\* Mutant: the newest notification first.
HandlerReceive_Newest ==
    /\ stage = "recv" /\ inbox # <<>>
    /\ msg' = inbox[Len(inbox)]
    /\ inbox' = SubSeq(inbox, 1, Len(inbox) - 1)
    /\ stage' = "distLock"
    /\ waiting' = Append(waiting, Handler)
    /\ UNCHANGED <<mapVars, callVars, readers, sessionVars, published, targets,
                   target, dead, queueVars>>

HandlerReceive ==
    /\ stage = "recv" /\ inbox # <<>>
    /\ msg' = Head(inbox)
    /\ inbox' = Tail(inbox)
    /\ stage' = "distLock"
    /\ waiting' = Append(waiting, Handler)
    /\ UNCHANGED <<mapVars, callVars, readers, sessionVars, published, targets,
                   target, dead, queueVars>>

\* The connection task dropped its end and everything forwarded is handled.
HandlerStops ==
    /\ stage = "recv" /\ inbox = <<>> /\ ~connected
    /\ stage' = "stopped"
    /\ UNCHANGED <<mapVars, callVars, lockVars, sessionVars, noteVars, msg,
                   targets, target, dead, queueVars>>

\* Mutant: the Senders are copied and the lock is released before the sends.
HandlerLocked_Snapshot ==
    /\ stage = "distLock" /\ CanRead(Handler)
    /\ waiting' = Tail(waiting)
    /\ targets' = Entries(Topic(msg))
    /\ \/ targets' = {} /\ stage' = "recv" /\ msg' = 0
       \/ targets' # {} /\ stage' = "distribute" /\ UNCHANGED msg
    /\ UNCHANGED <<mapVars, callVars, readers, sessionVars, noteVars, target,
                   dead, queueVars>>

\* The read section starts; with no subscriber it is over at once.
HandlerLocked ==
    /\ stage = "distLock" /\ CanRead(Handler)
    /\ waiting' = Tail(waiting)
    /\ targets' = Entries(Topic(msg))
    /\ \/ /\ targets' = {}
          /\ stage' = "recv" /\ msg' = 0
          /\ UNCHANGED readers
       \/ /\ targets' # {}
          /\ stage' = "distribute"
          /\ readers' = readers \cup {Handler}
          /\ UNCHANGED msg
    /\ UNCHANGED <<mapVars, callVars, sessionVars, noteVars, target, dead,
                   queueVars>>

\* The map is iterated in no particular order.
SendNext(entry) ==
    /\ stage = "distribute" /\ entry \in targets
    /\ target' = {entry}
    /\ targets' = targets \ {entry}
    /\ stage' = "sending"
    /\ UNCHANGED <<mapVars, callVars, lockVars, sessionVars, noteVars, msg,
                   dead, queueVars>>

\* Mutant: try_send, which drops the notification when the queue is full.
SendDone_TrySend ==
    /\ stage = "sending"
    /\ \E entry \in target :
          /\ open[entry[2]]
          /\ buf' = IF Len(buf[entry[2]]) < Capacity
                    THEN [buf EXCEPT ![entry[2]] = Append(@, msg)] ELSE buf
    /\ target' = {}
    /\ stage' = "distribute"
    /\ UNCHANGED <<mapVars, callVars, lockVars, sessionVars, noteVars, msg,
                   targets, dead, open, last>>

\* chan.send().await, still under the read lock: waits for a free slot ...
SendDone ==
    /\ stage = "sending"
    /\ \E entry \in target :
          /\ open[entry[2]] /\ Len(buf[entry[2]]) < Capacity
          /\ buf' = [buf EXCEPT ![entry[2]] = Append(@, msg)]
    /\ target' = {}
    /\ stage' = "distribute"
    /\ UNCHANGED <<mapVars, callVars, lockVars, sessionVars, noteVars, msg,
                   targets, dead, open, last>>

\* Mutant: dead_ids collects the receiver instead of the id it is filed under.
SendFails_NotTheId ==
    /\ stage = "sending"
    /\ \E entry \in target : ~open[entry[2]] /\ dead' = dead \cup {entry[2]}
    /\ target' = {}
    /\ stage' = "distribute"
    /\ UNCHANGED <<mapVars, callVars, lockVars, sessionVars, noteVars, msg,
                   targets, queueVars>>

\* Mutant: a send that fails is tried again.
SendFails_Retries ==
    /\ stage = "sending"
    /\ \E entry \in target : ~open[entry[2]]
    /\ UNCHANGED vars

\* ... or fails because the receiver is gone.
SendFails ==
    /\ stage = "sending"
    /\ \E entry \in target : ~open[entry[2]] /\ dead' = dead \cup {entry[1]}
    /\ target' = {}
    /\ stage' = "distribute"
    /\ UNCHANGED <<mapVars, callVars, lockVars, sessionVars, noteVars, msg,
                   targets, queueVars>>

\* The read lock is released; dead receivers need the write lock.
Distributed ==
    /\ stage = "distribute" /\ targets = {}
    /\ readers' = readers \ {Handler}
    /\ \/ /\ dead = {}
          /\ stage' = "recv" /\ msg' = 0
          /\ UNCHANGED waiting
       \/ /\ dead # {}
          /\ stage' = "reapLock"
          /\ waiting' = Append(waiting, Handler)
          /\ UNCHANGED msg
    /\ UNCHANGED <<mapVars, callVars, sessionVars, noteVars, targets, target,
                   dead, queueVars>>

\* Mutant: the write section keeps the dead and removes the others.
Reap_Inverted ==
    /\ stage = "reapLock" /\ CanWrite(Handler)
    /\ waiting' = Tail(waiting)
    /\ channels' = [channels EXCEPT ![Topic(msg)] =
                       [id \in ClientId |-> IF id \notin dead THEN NoSender
                                            ELSE @[id]]]
    /\ dead' = {} /\ msg' = 0 /\ stage' = "recv"
    /\ UNCHANGED <<subscribed, callVars, readers, sessionVars, noteVars,
                   targets, target, queueVars>>

\* The write section that removes the dead from the notification's channel.
Reap ==
    /\ stage = "reapLock" /\ CanWrite(Handler)
    /\ waiting' = Tail(waiting)
    /\ channels' = [channels EXCEPT ![Topic(msg)] =
                       [id \in ClientId |-> IF id \in dead THEN NoSender
                                            ELSE @[id]]]
    /\ dead' = {} /\ msg' = 0 /\ stage' = "recv"
    /\ UNCHANGED <<subscribed, callVars, readers, sessionVars, noteVars,
                   targets, target, queueVars>>

-----------------------------------------------------------------------------

\* What carries a call forward once it is made.
CallStep(c) ==
    \/ ListenLocked(c) \/ ListenReturns(c) \/ ListenFails(c)
    \/ UnlistenLocked(c) \/ RecheckLocked(c) \/ ExecuteUnlisten(c)
    \/ UnlistenReturns(c) \/ UnlistenFails(c)
    \/ \E ch \in Channel : ExecuteListen(c, ch) \/ Recheck(c, ch)

HandlerStep ==
    \/ HandlerReceive \/ HandlerStops \/ HandlerLocked
    \/ SendDone \/ SendFails \/ Distributed \/ Reap
    \/ \E entry \in targets : SendNext(entry)

SessionStep ==
    \/ ConnectionLost
    \/ \E ch \in Channel : Notify(ch) \/ OrphanListen(ch)

ClientStep(c) ==
    \/ \E chs \in SUBSET Channel : ListenMany(c, chs) \/ UnlistenMany(c, chs)
    \/ CallStep(c) \/ DropListen(c) \/ Receive(c) \/ CloseReceiver(c)

Next ==
    \/ \E c \in Client : ClientStep(c)
    \/ HandlerStep
    \/ SessionStep

Spec == Init /\ [][Next]_vars

\* Every task is scheduled, every statement is answered (with an error when
\* the session is gone), and every receiver is drained however long its owner
\* takes over a call: the last holds for a client whose reader is not the task
\* that calls, which the SSE stream is and the WebSocket loop is not.
Fairness ==
    /\ WF_vars(HandlerStep)
    /\ \A c \in Client : WF_vars(CallStep(c)) /\ WF_vars(Receive(c))

FairSpec == Spec /\ Fairness

-----------------------------------------------------------------------------
(* Safety *)

Pending == UNION {todo[c] : c \in {d \in Client : pc[d] = "listen"}}

\* As long as the session is up, a channel with an entry in the map is listened
\* on, or a LISTEN for it is on its way, or the LISTEN was given up by an error
\* or a dropped call.  The second `is_empty` of unlisten_many, made under a read
\* lock that is held until the UNLISTEN is answered, is there for this: without
\* it a LISTEN and an UNLISTEN decided on at different times cross.
ListenCovered ==
    connected => \A ch \in Channel :
        Subscribers(ch) # {} => ch \in listening \cup orphans \cup lost \cup Pending

\* An entry bears its owner's id and stands only where its owner's calls put it.
EntriesOwned ==
    \A ch \in Channel, id \in ClientId, c \in Client :
        channels[ch][id] = c => id = IdOf[c] /\ ch \in subscribed[c]

\* "Both clients should receive it" (postgres.rs:586): the entry of a client whose
\* receiver is open is there from its listen_many to its unlisten_many.
EntriesKept ==
    \A c \in Client : open[c] =>
        \A ch \in subscribed[c] : channels[ch][IdOf[c]] = c

\* The map is what the callers made it: an entry stands where its owner's calls
\* put it, and nothing but its owner's calls removes or replaces it while the
\* owner's receiver is open; not another client's call, and not the handler,
\* whose dead_ids were collected under a lock it has since given up.
MapAgrees == EntriesOwned /\ EntriesKept

\* What the servers have to guarantee for it: no two clients share an id.
DistinctIds == \A c, d \in Client : IdOf[c] = IdOf[d] => c = d

\* The notification in hand still has to be put in c's queue.
Serving(c) == \E entry \in targets \cup target : entry[2] = c
InHandFor(c) == stage = "distLock" \/ Serving(c)

StrictlyIncreasing(s) == \A i \in 1 .. Len(s) - 1 : s[i] < s[i + 1]

\* A client consumes notifications in the order they were committed, and none
\* twice, whatever is subscribed, dropped or reaped meanwhile.
InOrder ==
    \A c \in Client :
        StrictlyIncreasing(<<last[c]>> \o buf[c]
                           \o (IF InHandFor(c) THEN <<msg>> ELSE <<>>) \o inbox)

\* Once the write section of unlisten_many is over, nothing more of the channel
\* is queued for the client, even if the notification was taken in before.
NoDeliveryAfterUnlisten ==
    [][\A c \in Client :
          Len(buf'[c]) > Len(buf[c]) => Topic(msg) \in subscribed[c]]_vars

-----------------------------------------------------------------------------
(* Who waits for whom *)

Queued(t) == \E i \in DOMAIN waiting : waiting[i] = t

\* c's call has a step to take: a statement is answered, one way or the other,
\* and the lock is granted.
CallGoesOn(c) ==
    \/ pc[c] \in {"listen", "unlisten"}
    \/ pc[c] \in {"listenLock", "unlistenLock"} /\ CanWrite(c)
    \/ pc[c] = "recheckLock" /\ CanRead(c)

\* The handler has one, with the notification it has in hand.
HandlerGoesOn ==
    \/ stage = "distribute"
    \/ stage = "distLock" /\ CanRead(Handler)
    \/ stage = "reapLock" /\ CanWrite(Handler)
    \/ stage = "sending" /\ \E entry \in target :
                               open[entry[2]] => Len(buf[entry[2]]) < Capacity

GoesOn(t) == IF t = Handler THEN HandlerGoesOn ELSE CallGoesOn(t)

-----------------------------------------------------------------------------
(* Liveness *)

\* Every call returns: no cycle of lock, queue and statement holds it for ever.
CallsReturn == \A c \in Client : ~Idle(c) ~> Idle(c)

Wants(c, n) ==
    open[c] /\ n \in DOMAIN published /\ published[n] \in subscribed[c]

\* A notification that reached this process is consumed by every client that is
\* subscribed and stays so.
Delivered ==
    \A c \in Client, n \in 1 .. MaxNotify :
        Wants(c, n) /\ (\E i \in DOMAIN inbox : inbox[i] = n)
            ~> last[c] = n \/ ~Wants(c, n)

-----------------------------------------------------------------------------
(* Refinement *)

\* The moment of delivery is the read section's beginning: whoever is filed then
\* counts as served, although the sends take their time.
PS == INSTANCE PubSub WITH
    alive <- open,
    member <- [c \in Client |-> IF open[c] THEN subscribed[c] ELSE {}],
    up <- connected,
    heard <- listening,
    log <- published,
    stream <- (IF stage = "distLock" THEN <<msg>> ELSE <<>>) \o inbox,
    queue <- [c \in Client |-> IF ~open[c] THEN <<>>
                               ELSE buf[c] \o (IF Serving(c) THEN <<msg>>
                                                            ELSE <<>>)],
    got <- last

\* Delivery is atomic: however the sends of one notification interleave with
\* subscriptions, unsubscriptions and clients going away, the outcome is that of
\* handing it in one step to the members of the channel; and a channel is never
\* given up while it has a member.
ImplementsPubSub == PS!Spec

=============================================================================
