# alle in TLA+

`alle` bridges PostgreSQL's LISTEN/NOTIFY to WebSocket and Server-Sent Events
(SSE) clients over one PostgreSQL session. This directory holds TLA+ models of
it, the TLC runs that check them and theorems checked by TLAPS. Source lines are
those of the files under `src/src/`.

## The system

| Component | State | Operations | Talks to |
|---|---|---|---|
| Listener (`postgres.rs`) | `channels`: map channel -> client id -> `Sender`, behind a tokio `RwLock`; the SQL session; the stream of async messages | `connect`, `listen_many`, `unlisten_many`, `notify`, the connection poll task, `handle_notifications` / `handle_notification` | PostgreSQL; the bounded mpsc queue (32 slots) of every subscriber |
| WebSocket server (`websocket.rs`) | `next_client_id`; per connection `channels`, `authenticated`, its queue | accept loop, the connection's select loop, `handle_client_message`, cleanup | listener, authenticator |
| SSE server (`server_push.rs`) | `client_id_counter`; per request a queue and `drop_channels` | `sse_handler`, `notify_handler`, graceful shutdown | listener, authenticator |
| `DropStream` (`drop_stream.rs`) | `on_drop` | `poll_next`, `drop`, which spawns the cleanup | listener |
| Bridge (`bridge.rs`) | configuration, cancellation token | `run`, `terminate` | all of the above |
| Authenticator (`auth.rs`) | a session of its own | `authenticate` | PostgreSQL |
| `ChannelName` (`channel_name.rs`) | none | lower-casing, validation, identifier quoting | |
| Metrics (`metrics.rs`) | counters and gauges | increments and decrements | |
| Configuration and binary (`lib.rs`, `main.rs`) | plain data | builders, argument parsing | |

### Where it is hard

* `listen_many` and `unlisten_many` decide under the lock and act (LISTEN,
  UNLISTEN) after it, so decisions of different callers can cross. The second
  `is_empty` in `unlisten_many` (line 205), under a read lock that is held over the
  UNLISTEN, is what keeps them apart.
* `handle_notification` awaits `send` on a bounded queue while it holds the read
  lock (line 125), then gives the lock up and takes it again as a writer to remove
  the ids it found dead (line 136).
* tokio's `RwLock` is fair: a waiting writer holds back every later reader, the
  notification handler among them.
* A WebSocket connection is one task: it does not drain its queue while it handles
  a message, and handling a message may mean waiting for the write lock.
* An SSE handler is a future the HTTP server drops when the peer goes away, also in
  the middle of `listen_many` and before there is a `DropStream` to clean up.
* The two servers count client ids separately, both from 0, and file under one map.
* LISTEN can fail after the entry is filed; the session can be lost and is never
  re-established.
* `Bridge::run` polls both servers in one task: an error of one drops the other, while
  the connections both have spawned live on. Its end waits for SSE connections and
  not for WebSocket connections.
* A channel name goes through lower-casing, validation and quoting on its way to
  LISTEN, through only some of it on its way to `pg_notify`, and comes back from
  PostgreSQL to be a key again.

### What makes each component correct

* Listener: every channel with a subscriber is listened on, or about to be, or its
  LISTEN failed; an entry belongs to whose calls put it there and stays until its
  owner takes it out; notifications arrive in order, each once; none after
  `unlisten_many` took effect; every call returns; a notification reaches every
  subscriber.
* Connections: what they will clean up is what is filed for them; a closed one
  leaves nothing behind, in the map or in PostgreSQL; one whose peer left gets
  cleaned up.
* Authenticator: nobody is filed, or on the way there, without a yes of the function.
* Bridge: asked to terminate, it ends, and gives up no SSE request on the way.
* `ChannelName`: each key has one LISTEN, of the channel it names; what is notified
  arrives under the key of its channel.
* Metrics: a connection gauge never shows less than there is.

## The modules

| Module | What it models |
|---|---|
| `PostgresListener` | `postgres.rs`: map, lock queue, LISTEN/UNLISTEN in flight, handler, bounded queues, loss of the session. Callers are the most general ones |
| `PubSub` | what the listener promises: members per channel, one stream dispatched atomically to the members of the moment |
| `Bridge` | `PostgresListener` with its real callers: WebSocket connections and SSE requests |
| `Authenticator` | what an answer of the authentication function means (operators) |
| `Servers` | `Bridge` under the servers that accept its connections: start, ids, termination |
| `Metrics` | the connection gauges along the steps of `Servers` |
| `ChannelNames` | names from a client's text to the map, LISTEN and `pg_notify`, and back |
| `PostgresListenerProofs` | theorems about `PostgresListener` |
| `OrderProofs` | notifications arrive in order |
| `PubSubRefinement` | `PostgresListener` implements `PubSub` |
| `BridgeProofs` | `Bridge` implements `PostgresListener`; cleanup, authentication, and what a peer was told |
| `ProgressProofs` | the queue for the lock, and that only one deadlock is possible |
| `IdleListenProofs` | nothing is listened on for nobody |
| `ServersProofs` | `Servers` implements `Bridge`; what a return means; the gauges |
| `ChannelNamesProofs` | each key has its LISTEN, and what is notified arrives |
| `MCPostgresListener`, `MCBridge`, `MCServers`, `MCChannelNames` | ids, answers and characters for TLC |

`Metrics` extends `Servers`, which extends `Bridge`, which extends `PostgresListener` and
`Authenticator`. `PostgresListener` instantiates `PubSub`. `ChannelNames` stands alone:
the others take a channel for an atomic value, which is right as far as names are
told apart the same way everywhere, and that is what `ChannelNames` is about.

### PostgresListener

A write section (lines 155-168, 186-199, 136-141) contains no await: it is one
action, `ListenLocked`, `UnlistenLocked`, `Reap`. The two read sections that await
under the lock are split at every await. `waiting` is the queue of the fair RwLock,
whose head alone may be granted; `readers` are the holders of read guards;
uncontended acquisition is an `Append` followed at once by the grant.

| Code | Actions |
|---|---|
| `connect` | `Init` |
| `listen_many` | `ListenMany`, `ListenLocked`, `ExecuteListen`, `ListenReturns`, `ListenFails` |
| its future dropped | `DropListen`, `OrphanListen` |
| `unlisten_many` | `UnlistenMany`, `UnlistenLocked`, `RecheckLocked`, `Recheck`, `ExecuteUnlisten`, `UnlistenReturns`, `UnlistenFails` |
| `handle_notifications`, `handle_notification` | `HandlerReceive`, `HandlerStops`, `HandlerLocked`, `SendNext`, `SendDone`, `SendFails`, `Distributed`, `Reap` |
| `notify`, other sessions' NOTIFY | `Notify` |
| the poll task ending | `ConnectionLost` |
| the receiving end | `Receive`, `CloseReceiver` |

A notification is its number: the channel it was published on is
`published[number]`, and the payload is left out. LISTENs of one call are executed in
any order, as they are of distinct channels; a call that has none to make returns from
its write section. The answer to the last LISTEN is a step of its own, and so is its
loss: when the session ends before the answer, `ListenFails` returns the error whether
the server executed the statement or not. An UNLISTEN and its answer are one step: when
the answer is lost so is the session, and of a channel without subscribers nothing else
tells whether it was executed. The LISTEN of a dropped call may still be executed.
`subscribed`, `published`, `lost` and `last` are history variables; no guard of
the code's steps reads them, `Notify`'s bound and the numbering of `published`
apart.

### Bridge

A connection's `phase` says where its task is; its calls are those of
`PostgresListener`, by conjunction. `mine` is `WebSocketClient.channels`, or the
`drop_channels` a `DropStream` holds. An SSE request has no `mine` before its
`listen_many` has returned: that is when the `DropStream` is made. When that is dropped
(`SseHangup`), its own `drop` spawns the cleanup and only then its fields go, the receiver
among them (`SseFieldsDropped`): the cleanup may be under way, or over, before the receiver
is gone. An `Authenticate` message may come at any time, again after a success too, and
get any of `Answers`; `granted` remembers who was said yes to. Refused messages change nothing.
A WebSocket `Notify` or `Authenticate` is one step, although the task awaits the
answer. With distinct ids no `Sender` is
replaced while its receiver lives, so an SSE stream does not end by itself.

### PubSub

The refinement mapping makes the beginning of the handler's read section the moment
of delivery: an entry that is still to be served counts as delivered to its client's
queue. So the intermediate sends, the lock and the dead list disappear. That it works
needs the lock to be held over the sends.

### Authenticator

`Verdict` is `authenticate()` by cases, over answers that are sequences of rows of typed
columns; `Grants` is what the doc comment at `auth.rs:59` asks a yes to be.

### Servers

| Code | Actions |
|---|---|
| `Bridge::run` up to the servers | `ServersInit` (any of the four configurations), `Connect` |
| `WebSocketServer::start` | `WsBind`, `WsAccept`, `WsAcceptFails`, `WsStops` |
| `server` | `SseBind`, `SseAccept`, `SseLeaves`, `SseDrains`, `SseStops` |
| `try_join!` and the return | `Joined`, and the failures of the actions above |
| `terminate` | `Terminate` |
| everything spawned | `Served` (the peers), `Spawned` (tasks, handler, session) |

`IdOf` is a constant; an id that a server takes must be the one `IdOf` gives to the
client (`WsAccept`, `Served`), so that a constant function stands for any order of
arrival. A client's connection carries one request, which is the only simplification
of HTTP: hyper may keep a connection for a further request, which is another client
here, and whether an idle connection closes before the drain is left open. A drain
closes it (`SseCloses`).

### Metrics

`MetricsNext` conjoins a step of `Servers` with what the gauges do in that step.
`ws_disconnected` is reached whatever the cleanup returned; `sse_disconnected` only
after a cleanup that succeeded, so that the SSE gauge may stay up for good. That
leak is what the code does and no document denies; `GaugesCover` says in which
direction it goes.

### ChannelNames

A text is a sequence of characters, of which only the lower case, the length in bytes
and the kind are known. `ToLowercase` is `str::to_lowercase`: it converts each character
for itself, into one or several, but for the capital sigma, which becomes the final
one where it ends a word. A WebSocket `Notify` converts its channel once, as it is parsed
(`WsNotify`); a POST does so too and then calls `ChannelName::new` again (`HttpNotify`). `Identified` is the reference: how PostgreSQL reads a quoted
identifier, and what it cuts off. `PgNotify` takes its argument as it is. One request
and one notification make a behaviour; nothing here depends on more.

## The runs

| Run | Shows |
|---|---|
| `faults` | 2 clients, failing statements, lost session, dropped calls and three notifications under way: types, order, refinement |
| `liveness` | every call returns and notifications are consumed, if every queue is drained |
| `mixed` | 2 WebSocket connections and an SSE request, no faults: closed connections leave nothing in the map, no channel is listened on that nobody will unlisten, nobody else's call and no reaping disturbs an entry, nothing is delivered after unsubscribing, delivery is atomic |
| `bridge_faults` | a connection of each kind on two channels with every fault and every answer of the function: cleanup covers the map, what a peer was told is filed stays filed, subscribed channels are listened on, nobody gets in without a yes |
| `traffic` | a connection of each kind with full queues and refused statements: calls return and hung-up connections are cleaned up, or the deadlock of `stall` is why not; in no other state do all wait for each other |
| `shutdown` | all configurations with every failure at the start and termination at any moment: the run ends once HTTP peers have left, gives up no request, and the gauges cover |
| `names` | all texts of up to three of ten kinds of characters, on every way a name can take |
| `stall`, `same_id`, `aborted`, `retry`, `quoted` | violations, below |

Bounds. Two clients on a channel are enough for every decision on "the first" and
"the last" subscriber to be raced by another; `mixed` has a third so that a
bystander exists. A queue of one slot is full after one notification and makes the
handler wait; two notifications then give a wait with another one behind (`traffic`).
`faults` has three, so that one is consumed, one queued and one in hand. `bridge_faults`
has two channels, so that one of several statements can fail. `shutdown` has a client
of each server: nothing in it relates two clients of one server but their ids, which
`BridgeAssumption` keeps apart. In `names` a name may have four bytes, so that a text
of three characters can be too long before the conversion, after it, or only one of
both. Where a run restricts faults, another run allows them. `MaxNotify` bounds
notifications and `MaxTyped` texts; everything else is finite.

Deadlock is checked in every run of `PostgresListener`. It is not in the others:
connections that are all closed, a run that has ended, or a notification that has
arrived are the end of the behaviour.

Fairness (`Fairness`, `BridgeFairness`): the tokio scheduler runs every ready task,
PostgreSQL answers every statement (with an error when the session is gone, which
`ListenFails` and `UnlistenFails` then are), and a peer reads what it is sent, so that
queues are drained. In `PostgresListener` a queue is drained whatever the client is
doing; that is right for SSE, whose stream is polled apart from the calls, and wrong
for WebSocket, whose task does both. `Bridge` makes the difference: there the loop
drains only in phase "loop". Nothing is assumed about peers' calls, NOTIFYs or the
loss of the session. In `Servers` the task of the run goes on when it can
(`WF(RunStep)`; a failing accept is not part of it) and a draining server closes
idle HTTP connections; nothing makes a peer leave or anybody terminate, so that
`Terminates` has the departure of the HTTP peers as its premise. A peer that stops reading stalls the handler, and with it every
client: the fairness assumption is then not met.

## What the code does otherwise

Each of these is a run that TLC must find violated.

* `stall`: a WebSocket connection whose queue is full handles a Subscribe: it waits for
  the write lock, which the handler's read guard blocks, while the handler waits for
  a slot in that queue, which only the connection's task could free. Nobody gets on.
  `postgres.rs:170` moves LISTEN out of the lock "to avoid deadlock"; the send under
  the lock remains. The model has one slot and the code 32.
* `same_id`: the first WebSocket connection and the first SSE request are both 0; the
  second to subscribe replaces the first one's `Sender`.
* `aborted`: an SSE request that is dropped inside `listen_many` leaves its entry and
  its LISTEN. The next notification reaps the entry, without UNLISTEN.
* `retry`: a LISTEN that fails leaves the entry, so a second Subscribe finds the channel
  not empty, executes nothing and is confirmed.

* `quoted`: `notify` gives `pg_notify` the text of `quote_identifier`, with double quotes
  doubled, where PostgreSQL takes the name as it is. A channel with a double quote in
  its name cannot be notified, and the notification reaches another one.

Two more the runs do not show. The second subscriber of a channel skips LISTEN
because the entry of the first is there (`postgres.rs:162`), and is confirmed while
the first one's LISTEN may still be under way; `ConfirmedIsHeard` is violated that way
too. The comment at `postgres.rs:201` says UNLISTEN is executed outside the lock; it is
executed under a read lock, and `ListenCovered` depends on that.

## The theorems

For every set of clients, ids and channels, every queue capacity and notification
bound and every set of faults:

* `TypeCorrect`: `Spec => []TypeOK`.
* `LockDiscipline`: readers of the lock are exactly the tasks inside a read section
  (`LockHeld`), and a channel whose UNLISTEN is in flight has no subscriber
  (`UnlistenSafe`). The latter is inductive because a writer is granted the lock
  only without readers.
* `AlwaysCovered`: `[]ListenCovered`. By itself it is not inductive: an UNLISTEN about to
  be executed could uncover a channel. `UnlistenSafe` is the missing part.
* `TargetsStay`: what the handler still has to serve is filed under the notification's
  channel, and notifications carry numbers that were published.
* `EntriesAreOwned`, `NothingAfterUnlisten`: `[]EntriesOwned`, and from it with
  `TargetsStay` that nothing is queued for a client outside its subscriptions.
* `MapAlwaysAgrees`: with distinct ids, `[]MapAgrees`. The strengthening is
  `DeadStayDead`: every client of an id in `dead_ids` stays closed until the reaping.
* `Refinement`: with distinct ids, `Spec => ImplementsPubSub`, one lemma per kind of
  step, from all of the above.
* `BridgeImplements`: `BridgeSpec => Spec`, so the theorems above hold in the bridge.
* `BridgeTypeCorrect`, `CleanupCovers`: `[]BridgeTypeOK`, `[]CleanupCoversMap`. The
  inductive invariant, `KeptBooks`, follows each call from before its write section to
  after it.
* `ClosedLeavesNothing`: without faults or dropped requests, `[]NothingLeftBehind`, from
  `KeptBooks` and `EntriesOwned`.
* `AlwaysInOrder`: `[]InOrder`, shared ids included. The invariant `Sorted` says it pairwise
  for what is consumed, queued, in hand and on its way; that a client gets one copy
  follows from `EntriesOwned` and `TargetsFiled`: it has one entry in a channel.
* `ReceiversKept`: a connection has its receiver at least until its loop or its stream ends;
  a WebSocket connection has none in its cleanup, and what is closed and still has one is
  subscribed to nothing.
* `WhatWasConfirmedIsFiled`: with distinct ids, `[]ConfirmedIsFiled`, whatever fails. The
  invariant `Told` says that what a peer was told and not untold is among the channels
  its connection will clean up and that its calls have subscribed; with `KeptReceivers`,
  `MapAgrees` gives the entry and `ListenCovered` the LISTEN.
* `LineIsKept`: a task is in the lock's queue exactly while it wants the lock, and once
  (`InLine`); no subscriber's queue holds more than its capacity (`Bounded`). Each action
  that touches `waiting` is one of four moves of a line: to join, to be served, to be
  served and join again, and to step out of the middle when a call is dropped.
* `OnlyTheStallBlocks`: `[]OnlyStallBlocks`, which is freedom from deadlock as a state
  invariant: whoever waits for the lock waits for the head of the queue or for a reader,
  and each of them has a step to take, or is the handler at a full queue whose owner
  will read it or drop it, or is in the cycle that `Stalled` describes and `stall` shows. That the
  steps are then taken is fairness, and stays with `CallsReturnUnlessStalled`.
* `GrantedOnly`: `[]OnlyGranted`, for every row the function may return, from
  `VerdictGrants` (a verdict of "authenticated" is a yes) and `KeptBooks`: what a cleanup
  removes was filed, and so granted, before.
* `ListeningIsMinded`, `NothingIsIdle`: without faults and with distinct ids,
  `[]NoIdleListen`. What makes it inductive is to speak of the callers and not of the
  map: a channel that is listened on has a client whose calls put it there, or one
  that has just removed the last entry and has still to look again. From there, in
  the bridge, `MapAgrees` gives an open client its entry, and `KeptBooks` a closed one
  the unlisten it still owes.
* `ServersImplement`: `ServersSpec => BridgeSpec`; with it the theorems of the bridge hold
  under the servers. `ServersTypeCorrect`: `[]ServersTypeOK`. `ReturnIsDrained`:
  `[]DrainedReturn`, from the invariant that a request is served on a connection that
  is open, and that a server that does not accept has none.
* `MetricsImplement`, `GaugesAlwaysCover`: `MetricsSpec => ServersSpec` and `[]GaugesCover`,
  without a bound on the number of clients. The invariant `Gauged` is that only finitely
  many connections are live, that the WebSocket gauge is their number, failed cleanups
  included, and that the SSE gauge is at least the number of requests being served.
* `EveryKeyIsHeard`, `UnquotedArrives`: `[]HeardUnderItsKey` and `[]ArrivesUnlessQuoted` for
  every alphabet, every length limit and every text. Conversion is the identity on what
  it has converted (`LowerIsLower`), and PostgreSQL reads a key between quotes, its own
  quotes doubled, as the key (`ReadsBack`). Both are about recursive functions
  (`FlattenSeq`, the reader in `Identified`). That there are such functions is shown by
  `Iterates`, and what they compute by looking at the `Least` number for which it would
  be wrong: the library's induction theorems cannot be used.

The assumptions are `ListenerAssumption`, `BridgeAssumption`, `ServersAssumption` and, for
names, `NamesAssumption` (lower case stays what it is in lower case, the final sigma too;
quotes, commas and safe characters have no other), which TLC evaluates in the runs, and for some theorems
`DistinctIds` or `Faultless`, stated in them.

Every invariant that a passing run checks is a theorem. Only model-checked are `CallsReturn`,
`Delivered`, `CallsReturnUnlessStalled`, `CleanedUpUnlessStalled` and `Terminates`: liveness
under fairness needs ENABLED, which is out of the prover's reach. `OnlyTheStallBlocks` is
the part of the third and the fourth that is about states. A violation is shown by its run.

## Not modelled

* `lib.rs` and `main.rs`: plain data, builders and argument parsing. The list of initial
  channels that `main.rs` accepts goes to a parameter it does not use (`_channels`).
* Counters, histograms and the export of metrics: output only. The gauge of a channel's
  subscribers follows confirmed messages and not subscriptions: a repeated Subscribe
  raises it again, an Unsubscribe without one lowers it below zero, and the end of a
  WebSocket connection leaves it as it is. It bounds nothing, so there is no property.
* The connection and the query of the authenticator; its answer is a choice.
* Payloads, JSON, logging, HTTP headers, keep-alive events, Ping/Pong. A message or a
  request that does not parse is answered without any effect.
* The growth of the outer map, from which no channel is ever removed.
* Docker and CI files, the example script.

## What could follow

A bound on the number of connections and descriptors would give `WsAcceptFails` a cause.
