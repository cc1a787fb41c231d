----------------------- MODULE PostgresListenerProofs -----------------------
(***************************************************************************)
(* Theorems about PostgresListener, for every set of clients, ids and      *)
(* channels, every queue capacity and every fault.                         *)
(***************************************************************************)
EXTENDS PostgresListener, SequenceTheorems, TLAPS

-----------------------------------------------------------------------------
(* Sequences *)

\* What a dropped call leaves of the lock's queue is a queue.
LEMMA WithoutElement ==
  ASSUME NEW S, NEW s \in Seq(S), NEW i \in DOMAIN s
  PROVE  SubSeq(s, 1, i - 1) \o SubSeq(s, i + 1, Len(s)) \in Seq(S)
<1>1. i \in Int /\ Len(s) \in Nat /\ \A j \in 1 .. Len(s) : s[j] \in S
  BY LenProperties, ElementOfSeq
<1>2. SubSeq(s, 1, i - 1) \in Seq(S) /\ SubSeq(s, i + 1, Len(s)) \in Seq(S)
  <2>1. \A j \in 1 .. i - 1 : s[j] \in S
    BY <1>1, LenProperties
  <2>2. \A j \in i + 1 .. Len(s) : s[j] \in S
    BY <1>1, LenProperties
  <2> QED
    BY <1>1, <2>1, <2>2, SubSeqProperties
<1> QED
  BY <1>2, ConcatProperties

\* What gets through a broken connection is a sequence of the same things.
LEMMA PrefixInSeq ==
  ASSUME NEW S, NEW s \in Seq(S), NEW k \in 0 .. Len(s)
  PROVE  SubSeq(s, 1, k) \in Seq(S)
<1>1. \A j \in 1 .. k : s[j] \in S
  BY LenProperties, ElementOfSeq
<1> QED
  BY <1>1, LenProperties, SubSeqProperties

-----------------------------------------------------------------------------
(* Type correctness *)

\* The initial map, session, handler and queues have their types.
LEMMA InitTypeOK == Init => TypeOK
  BY DEF Init, TypeOK

\* Every step of a call keeps the types.
LEMMA ClientTypeOK ==
  ASSUME TypeOK, NEW c \in Client, ClientStep(c)
  PROVE  TypeOK'
<1> USE ListenerAssumption DEF TypeOK, Task
<1>1. ASSUME NEW chs \in SUBSET Channel, ListenMany(c, chs)
      PROVE  TypeOK'
  <2>1. waiting' \in Seq(Client \cup {Handler})
    BY <1>1, AppendProperties DEF ListenMany
  <2> QED
    BY <1>1, <2>1
    DEF ListenMany, mapVars, sessionVars, noteVars, handlerVars, queueVars
<1>2. ASSUME NEW chs \in SUBSET Channel, UnlistenMany(c, chs)
      PROVE  TypeOK'
  <2>1. waiting' \in Seq(Client \cup {Handler})
    BY <1>2, AppendProperties DEF UnlistenMany
  <2> QED
    BY <1>2, <2>1
    DEF UnlistenMany, mapVars, sessionVars, noteVars, handlerVars, queueVars
<1>3. CASE ListenLocked(c)
  <2>1. channels' \in [Channel -> [ClientId -> Client \cup {NoSender}]]
    BY <1>3 DEF ListenLocked, Filed
  <2>2. waiting' \in Seq(Client \cup {Handler})
    BY <1>3 DEF ListenLocked, CanWrite, CanRead
  <2> QED
    BY <1>3, <2>1, <2>2
    DEF ListenLocked, sessionVars, noteVars, handlerVars, queueVars
<1>4. ASSUME NEW ch \in Channel, ExecuteListen(c, ch)
      PROVE  TypeOK'
  BY <1>4 DEF ExecuteListen, mapVars, lockVars, noteVars, handlerVars, queueVars
<1>5. CASE ListenReturns(c)
  BY <1>5 DEF ListenReturns, mapVars, lockVars, sessionVars, noteVars,
              handlerVars, queueVars
<1>6. CASE ListenFails(c)
  BY <1>6 DEF ListenFails, mapVars, lockVars, noteVars, handlerVars, queueVars
<1>7. CASE DropListen(c)
  <2>1. waiting' \in Seq(Client \cup {Handler})
    <3>1. CASE UNCHANGED waiting
      BY <3>1
    <3>2. CASE \E i \in DOMAIN waiting :
                  waiting' = SubSeq(waiting, 1, i - 1)
                             \o SubSeq(waiting, i + 1, Len(waiting))
      <4>1. waiting \in Seq(Client \cup {Handler})
        OBVIOUS
      <4> HIDE DEF TypeOK
      <4> QED
        BY <3>2, <4>1, WithoutElement
    <3> QED
      BY <1>7, <3>1, <3>2 DEF DropListen
  <2>2. orphans' \subseteq Channel /\ lost' \subseteq Channel
    BY <1>7 DEF DropListen
  <2>3. /\ UNCHANGED <<channels, subscribed, checked, readers, connected,
                        listening, published, inbox, last>>
        /\ UNCHANGED <<stage, msg, targets, target, dead>>
    BY <1>7 DEF DropListen, mapVars, noteVars, handlerVars
  <2>4. /\ pc' = [pc EXCEPT ![c] = "err"]
        /\ todo' = [todo EXCEPT ![c] = {}]
        /\ open' = [open EXCEPT ![c] = FALSE]
        /\ buf' = [buf EXCEPT ![c] = <<>>]
    BY <1>7 DEF DropListen
  <2> QED
    BY <2>1, <2>2, <2>3, <2>4
<1>8. CASE UnlistenLocked(c)
  <2>1. channels' \in [Channel -> [ClientId -> Client \cup {NoSender}]]
    BY <1>8 DEF UnlistenLocked, Removed
  <2>2. waiting' \in Seq(Client \cup {Handler})
    BY <1>8 DEF UnlistenLocked, CanWrite, CanRead
  <2> QED
    BY <1>8, <2>1, <2>2
    DEF UnlistenLocked, sessionVars, noteVars, handlerVars, queueVars
<1>9. CASE RecheckLocked(c)
  <2>1. waiting' \in Seq(Client \cup {Handler})
    BY <1>9 DEF RecheckLocked, CanRead
  <2> QED
    BY <1>9, <2>1
    DEF RecheckLocked, mapVars, sessionVars, noteVars, handlerVars, queueVars
<1>10. ASSUME NEW ch \in Channel, Recheck(c, ch)
       PROVE  TypeOK'
  BY <1>10 DEF Recheck, mapVars, lockVars, sessionVars, noteVars, handlerVars,
               queueVars
<1>11. CASE ExecuteUnlisten(c)
  BY <1>11 DEF ExecuteUnlisten, mapVars, lockVars, noteVars, handlerVars,
               queueVars
<1>12. CASE UnlistenReturns(c)
  BY <1>12 DEF UnlistenReturns, mapVars, sessionVars, noteVars, handlerVars,
               queueVars
<1>13. CASE UnlistenFails(c)
  BY <1>13 DEF UnlistenFails, mapVars, sessionVars, noteVars, handlerVars,
               queueVars
<1>14. CASE Receive(c)
  <2>1. buf' \in [Client -> Seq(Nat)] /\ last' \in [Client -> Nat]
    BY <1>14 DEF Receive
  <2> QED
    BY <1>14, <2>1 DEF Receive, mapVars, callVars, lockVars, sessionVars,
                       noteVars, handlerVars
<1>15. CASE CloseReceiver(c)
  BY <1>15 DEF CloseReceiver, mapVars, callVars, lockVars, sessionVars,
               noteVars, handlerVars
<1> QED
  BY <1>1, <1>2, <1>3, <1>4, <1>5, <1>6, <1>7, <1>8, <1>9, <1>10, <1>11,
     <1>12, <1>13, <1>14, <1>15 DEF ClientStep, CallStep

\* Every step of the notification handler keeps the types.
LEMMA HandlerTypeOK ==
  ASSUME TypeOK, HandlerStep
  PROVE  TypeOK'
<1> USE ListenerAssumption DEF TypeOK, Task
<1>1. CASE HandlerReceive
  <2>1. msg' \in Nat /\ inbox' \in Seq(Nat)
    BY <1>1, HeadTailProperties DEF HandlerReceive
  <2>2. waiting' \in Seq(Client \cup {Handler})
    BY <1>1, AppendProperties DEF HandlerReceive
  <2>3. stage' = "distLock"
    BY <1>1 DEF HandlerReceive
  <2>4. UNCHANGED <<mapVars, callVars, readers, sessionVars, published, targets,
                    target, dead, queueVars>>
    BY <1>1 DEF HandlerReceive
  <2> QED
    BY <2>1, <2>2, <2>3, <2>4 DEF mapVars, callVars, sessionVars, queueVars
<1>2. CASE HandlerStops
  BY <1>2 DEF HandlerStops, mapVars, callVars, lockVars, sessionVars, noteVars,
              queueVars
<1>3. CASE HandlerLocked
  <2>1. waiting' \in Seq(Client \cup {Handler})
    BY <1>3 DEF HandlerLocked, CanRead
  <2>2. targets' \subseteq ClientId \X Client
    BY <1>3 DEF HandlerLocked, Entries
  <2>3. /\ stage' \in {"recv", "distribute"}
        /\ msg' \in {msg, 0}
        /\ readers' \in {readers, readers \cup {Handler}}
    BY <1>3 DEF HandlerLocked
  <2>4. UNCHANGED <<mapVars, callVars, sessionVars, noteVars, target, dead,
                    queueVars>>
    BY <1>3 DEF HandlerLocked
  <2> QED
    BY <2>1, <2>2, <2>3, <2>4
    DEF mapVars, callVars, sessionVars, noteVars, queueVars
<1>4. ASSUME NEW entry \in targets, SendNext(entry)
      PROVE  TypeOK'
  BY <1>4 DEF SendNext, mapVars, callVars, lockVars, sessionVars, noteVars,
              queueVars
<1>5. CASE SendDone
  <2>1. buf' \in [Client -> Seq(Nat)]
    <3>1. PICK entry \in target :
                  buf' = [buf EXCEPT ![entry[2]] = Append(@, msg)]
      BY <1>5 DEF SendDone
    <3> QED
      BY <3>1, AppendProperties
  <2> QED
    BY <1>5, <2>1 DEF SendDone, mapVars, callVars, lockVars, sessionVars,
                      noteVars
<1>6. CASE SendFails
  BY <1>6 DEF SendFails, mapVars, callVars, lockVars, sessionVars, noteVars,
              queueVars
<1>7. CASE Distributed
  <2>1. waiting' \in Seq(Client \cup {Handler})
    <3>1. waiting' = waiting \/ waiting' = Append(waiting, Handler)
      BY <1>7 DEF Distributed
    <3>2. waiting \in Seq(Client \cup {Handler})
      OBVIOUS
    <3>3. Append(waiting, Handler) \in Seq(Client \cup {Handler})
      BY <3>2
    <3> QED
      BY <3>1, <3>2, <3>3
  <2>2. /\ stage' \in {"recv", "reapLock"} /\ msg' \in Nat
        /\ readers' \subseteq Client \cup {Handler}
    BY <1>7 DEF Distributed
  <2> QED
    BY <1>7, <2>1, <2>2 DEF Distributed, mapVars, callVars, sessionVars,
                            noteVars, queueVars
<1>8. CASE Reap
  <2>1. waiting' \in Seq(Client \cup {Handler})
    BY <1>8 DEF Reap, CanWrite, CanRead
  <2>2. channels' \in [Channel -> [ClientId -> Client \cup {NoSender}]]
    <3>1. ASSUME NEW ch \in Channel
          PROVE  [id \in ClientId |-> IF id \in dead THEN NoSender
                                     ELSE channels[ch][id]]
                 \in [ClientId -> Client \cup {NoSender}]
      OBVIOUS
    <3>2. channels' = [channels EXCEPT ![Topic(msg)] =
                          [id \in ClientId |-> IF id \in dead THEN NoSender
                                               ELSE @[id]]]
      BY <1>8 DEF Reap
    <3>3. channels \in [Channel -> [ClientId -> Client \cup {NoSender}]]
      OBVIOUS
    <3> HIDE DEF TypeOK
    <3> QED
      BY <3>1, <3>2, <3>3
  <2> QED
    BY <1>8, <2>1, <2>2 DEF Reap, callVars, sessionVars, noteVars, queueVars
<1> QED
  BY <1>1, <1>2, <1>3, <1>4, <1>5, <1>6, <1>7, <1>8 DEF HandlerStep

\* Every step of the session keeps the types.
LEMMA SessionTypeOK ==
  ASSUME TypeOK, SessionStep
  PROVE  TypeOK'
<1> USE ListenerAssumption DEF TypeOK, Task
<1>1. CASE ConnectionLost
  <2>1. inbox' \in Seq(Nat)
    BY <1>1, PrefixInSeq DEF ConnectionLost
  <2> QED
    BY <1>1, <2>1 DEF ConnectionLost, mapVars, callVars, lockVars, handlerVars,
                      queueVars
<1>2. ASSUME NEW ch \in Channel, Notify(ch)
      PROVE  TypeOK'
  BY <1>2 DEF Notify, mapVars, callVars, lockVars, sessionVars, handlerVars,
              queueVars
<1>3. ASSUME NEW ch \in Channel, OrphanListen(ch)
      PROVE  TypeOK'
  BY <1>3 DEF OrphanListen, mapVars, callVars, lockVars, noteVars, handlerVars,
              queueVars
<1> QED
  BY <1>1, <1>2, <1>3 DEF SessionStep

\* A step that changes nothing keeps the types.
LEMMA StutterTypeOK == TypeOK /\ UNCHANGED vars => TypeOK'
  BY DEF TypeOK, vars, mapVars, callVars, lockVars, sessionVars, noteVars,
         handlerVars, queueVars

\* Type correctness: whatever the callers and the session do, the map holds
\* Senders or nothing under each id, and every queue, set and program counter
\* of postgres.rs stays within its type.
THEOREM TypeCorrect == Spec => []TypeOK
<1>1. TypeOK /\ [Next]_vars => TypeOK'
  BY ClientTypeOK, HandlerTypeOK, SessionTypeOK, StutterTypeOK DEF Next
<1> QED
  BY InitTypeOK, <1>1, PTL DEF Spec

-----------------------------------------------------------------------------
(* The lock, and what it protects *)

\* A task is a reader exactly while it is in one of the two read sections that
\* await something.
LockHeld ==
    /\ \A c \in Client : c \in readers <=> pc[c] = "unlisten"
    /\ Handler \in readers <=> stage \in {"distribute", "sending"}

\* A channel whose UNLISTEN is in flight stays without subscribers: the reader
\* that found it empty keeps every writer out.
UnlistenSafe ==
    \A c \in Client : checked[c] # {} =>
        pc[c] = "unlisten" /\ \A ch \in checked[c] : Subscribers(ch) = {}

\* Nobody holds the lock at the start.
LEMMA InitLock == Init => LockHeld /\ UnlistenSafe
  BY ListenerAssumption DEF Init, LockHeld, UnlistenSafe

\* Filing a Sender empties no channel, and removing an id fills none.
LEMMA SubscribersOfFiled ==
  ASSUME TypeOK, NEW c \in Client, NEW chs, channels' = Filed(c, chs),
         NEW ch \in Channel
  PROVE  Subscribers(ch)' = IF ch \in chs THEN Subscribers(ch) \cup {IdOf[c]}
                                          ELSE Subscribers(ch)
  BY ListenerAssumption DEF TypeOK, Filed, Subscribers

\* Removing an id takes exactly that id from the channels named.
LEMMA SubscribersOfRemoved ==
  ASSUME TypeOK, NEW id \in ClientId, NEW chs, channels' = Removed(id, chs),
         NEW ch \in Channel
  PROVE  Subscribers(ch)' = IF ch \in chs THEN Subscribers(ch) \ {id}
                                          ELSE Subscribers(ch)
  BY DEF TypeOK, Removed, Subscribers

\* Reaping only takes subscribers away.
LEMMA SubscribersOfReaped ==
  ASSUME TypeOK, Reap, NEW ch \in Channel
  PROVE  Subscribers(ch)' \subseteq Subscribers(ch)
  BY DEF TypeOK, Reap, Subscribers

\* The lock discipline is kept by every step of a call.
LEMMA ClientLock ==
  ASSUME TypeOK, LockHeld, UnlistenSafe, NEW c \in Client, ClientStep(c)
  PROVE  LockHeld' /\ UnlistenSafe'
<1> USE ListenerAssumption DEF TypeOK, LockHeld, UnlistenSafe
<1>1. ASSUME NEW chs \in SUBSET Channel, ListenMany(c, chs)
      PROVE  LockHeld' /\ UnlistenSafe'
  BY <1>1 DEF ListenMany, Idle, Subscribers, mapVars, handlerVars
<1>2. ASSUME NEW chs \in SUBSET Channel, UnlistenMany(c, chs)
      PROVE  LockHeld' /\ UnlistenSafe'
  BY <1>2 DEF UnlistenMany, Idle, Subscribers, mapVars, handlerVars
<1>3. CASE ListenLocked(c)
  BY <1>3 DEF ListenLocked, CanWrite, handlerVars
<1>4. ASSUME NEW ch \in Channel, ExecuteListen(c, ch)
      PROVE  LockHeld' /\ UnlistenSafe'
  BY <1>4 DEF ExecuteListen, Subscribers, mapVars, lockVars, handlerVars
<1>5. CASE ListenReturns(c)
  BY <1>5 DEF ListenReturns, Subscribers, mapVars, lockVars, handlerVars
<1>6. CASE ListenFails(c)
  BY <1>6 DEF ListenFails, Subscribers, mapVars, lockVars, handlerVars
<1>7. CASE DropListen(c)
  BY <1>7 DEF DropListen, Subscribers, mapVars, handlerVars
<1>8. CASE UnlistenLocked(c)
  BY <1>8 DEF UnlistenLocked, CanWrite, handlerVars
<1>9. CASE RecheckLocked(c)
  BY <1>9 DEF RecheckLocked, Subscribers, mapVars, handlerVars
<1>10. ASSUME NEW ch \in Channel, Recheck(c, ch)
       PROVE  LockHeld' /\ UnlistenSafe'
  BY <1>10 DEF Recheck, Subscribers, mapVars, lockVars, handlerVars
<1>11. CASE ExecuteUnlisten(c)
  BY <1>11 DEF ExecuteUnlisten, Subscribers, mapVars, lockVars, handlerVars
<1>12. CASE UnlistenReturns(c)
  BY <1>12 DEF UnlistenReturns, Subscribers, mapVars, handlerVars
<1>13. CASE UnlistenFails(c)
  BY <1>13 DEF UnlistenFails, Subscribers, mapVars, handlerVars
<1>14. CASE Receive(c)
  BY <1>14 DEF Receive, Subscribers, mapVars, callVars, lockVars, handlerVars
<1>15. CASE CloseReceiver(c)
  BY <1>15 DEF CloseReceiver, Subscribers, mapVars, callVars, lockVars,
               handlerVars
<1> QED
  BY <1>1, <1>2, <1>3, <1>4, <1>5, <1>6, <1>7, <1>8, <1>9, <1>10, <1>11,
     <1>12, <1>13, <1>14, <1>15 DEF ClientStep, CallStep

\* ... by every step of the handler ...
LEMMA HandlerLock ==
  ASSUME TypeOK, LockHeld, UnlistenSafe, HandlerStep
  PROVE  LockHeld' /\ UnlistenSafe'
<1> USE ListenerAssumption DEF TypeOK, LockHeld, UnlistenSafe
<1>1. CASE HandlerReceive
  BY <1>1 DEF HandlerReceive, Subscribers, mapVars, callVars
<1>2. CASE HandlerStops
  BY <1>2 DEF HandlerStops, Subscribers, mapVars, callVars, lockVars
<1>3. CASE HandlerLocked
  BY <1>3 DEF HandlerLocked, Subscribers, mapVars, callVars
<1>4. ASSUME NEW entry \in targets, SendNext(entry)
      PROVE  LockHeld' /\ UnlistenSafe'
  BY <1>4 DEF SendNext, Subscribers, mapVars, callVars, lockVars
<1>5. CASE SendDone
  BY <1>5 DEF SendDone, Subscribers, mapVars, callVars, lockVars
<1>6. CASE SendFails
  BY <1>6 DEF SendFails, Subscribers, mapVars, callVars, lockVars
<1>7. CASE Distributed
  BY <1>7 DEF Distributed, Subscribers, mapVars, callVars
<1>8. CASE Reap
  BY <1>8 DEF Reap, CanWrite, callVars
<1> QED
  BY <1>1, <1>2, <1>3, <1>4, <1>5, <1>6, <1>7, <1>8 DEF HandlerStep

\* ... and by everything else, which leaves the lock and the map alone.
LEMMA OtherLock ==
  ASSUME LockHeld, UnlistenSafe, SessionStep \/ UNCHANGED vars
  PROVE  LockHeld' /\ UnlistenSafe'
  BY DEF SessionStep, ConnectionLost, Notify, OrphanListen, LockHeld,
         UnlistenSafe, Subscribers, vars, mapVars, callVars, lockVars,
         handlerVars

\* The lock discipline of postgres.rs.
THEOREM LockDiscipline == Spec => [](LockHeld /\ UnlistenSafe)
<1>1. TypeOK /\ LockHeld /\ UnlistenSafe /\ [Next]_vars
      => LockHeld' /\ UnlistenSafe'
  BY ClientLock, HandlerLock, OtherLock DEF Next
<1> QED
  BY InitLock, <1>1, TypeCorrect, PTL DEF Spec

-----------------------------------------------------------------------------
(* Every channel with a subscriber is listened on, or about to be *)

\* What may excuse a channel that has subscribers from being listened on.
Excused == orphans \cup lost \cup Pending

\* Nothing is filed at the start.
LEMMA InitCovered == Init => ListenCovered
  BY DEF Init, ListenCovered, Subscribers

\* A step after which the session is up, no channel has gained its first
\* subscriber, and no channel with subscribers has lost what covers it, keeps
\* the invariant.
LEMMA StillCovered ==
  ASSUME ListenCovered, connected' => connected,
         \A ch \in Channel :
            connected' /\ Subscribers(ch)' # {} =>
               \/ Subscribers(ch) # {} /\ (ch \in listening \cup Excused
                                          => ch \in (listening \cup Excused)')
               \/ ch \in (listening \cup Excused)'
  PROVE  ListenCovered'
  BY DEF ListenCovered, Excused

\* Every step of a call keeps the invariant.  The write section of listen_many
\* leaves each channel it found empty in todo, and UNLISTEN executes only for
\* channels that are empty.
LEMMA ClientCovered ==
  ASSUME TypeOK, LockHeld, UnlistenSafe, ListenCovered,
         NEW c \in Client, ClientStep(c)
  PROVE  ListenCovered'
<1> USE ListenerAssumption DEF TypeOK, Excused, Pending
<1>1. ASSUME NEW chs \in SUBSET Channel, ListenMany(c, chs)
      PROVE  ListenCovered'
  BY <1>1, StillCovered DEF ListenMany, Idle, Subscribers, mapVars, sessionVars
<1>2. ASSUME NEW chs \in SUBSET Channel, UnlistenMany(c, chs)
      PROVE  ListenCovered'
  BY <1>2, StillCovered
  DEF UnlistenMany, Idle, Subscribers, mapVars, sessionVars
<1>3. CASE ListenLocked(c)
  <2> SUFFICES ASSUME NEW ch \in Channel, Subscribers(ch)' # {}, connected
               PROVE  ch \in (listening \cup Excused)'
    BY <1>3 DEF ListenLocked, ListenCovered, sessionVars
  <2>1. channels' = Filed(c, todo[c])
    BY <1>3 DEF ListenLocked
  <2>2. CASE ch \in todo[c] /\ Subscribers(ch) = {}
    <3>1. todo'[c] = {x \in todo[c] : Subscribers(x) = {}}
      BY <1>3 DEF ListenLocked
    <3>2. ch \in todo'[c]
      BY <2>2, <3>1
    <3>3. pc'[c] = "listen"
      BY <1>3, <3>2 DEF ListenLocked
    <3> QED
      BY <3>2, <3>3
  <2>3. CASE ~(ch \in todo[c] /\ Subscribers(ch) = {})
    <3>1. Subscribers(ch) # {}
      <4>1. ch \notin todo[c] => channels'[ch] = channels[ch]
        BY <2>1 DEF Filed, TypeOK
      <4> QED
        BY <2>3, <4>1 DEF Subscribers
    <3>2. ch \in listening \cup orphans \cup lost \cup Pending
      BY <3>1 DEF ListenCovered
    <3>3. Pending \subseteq Pending'
      BY <1>3 DEF ListenLocked
    <3> QED
      BY <1>3, <3>2, <3>3 DEF ListenLocked, sessionVars
  <2> QED
    BY <2>2, <2>3
<1>4. ASSUME NEW ch \in Channel, ExecuteListen(c, ch)
      PROVE  ListenCovered'
  BY <1>4, StillCovered DEF ExecuteListen, Subscribers, mapVars
<1>5. CASE ListenReturns(c)
  BY <1>5, StillCovered DEF ListenReturns, Subscribers, mapVars, sessionVars
<1>6. CASE ListenFails(c)
  BY <1>6, StillCovered DEF ListenFails, Subscribers, mapVars
<1>7. CASE DropListen(c)
  BY <1>7, StillCovered DEF DropListen, Subscribers, mapVars
<1>8. CASE UnlistenLocked(c)
  <2>1. \A ch \in Channel : Subscribers(ch)' \subseteq Subscribers(ch)
    <3>1. IdOf[c] \in ClientId /\ channels' = Removed(IdOf[c], todo[c])
      BY <1>8 DEF UnlistenLocked
    <3>2. TAKE ch \in Channel
    <3>3. Subscribers(ch)' = IF ch \in todo[c] THEN Subscribers(ch) \ {IdOf[c]}
                                               ELSE Subscribers(ch)
      BY <3>1, SubscribersOfRemoved
    <3> QED
      BY <3>3
  <2>2. Pending' = Pending
    BY <1>8 DEF UnlistenLocked
  <2> QED
    BY <1>8, <2>1, <2>2, StillCovered DEF UnlistenLocked, sessionVars
<1>9. CASE RecheckLocked(c)
  BY <1>9, StillCovered DEF RecheckLocked, Subscribers, mapVars, sessionVars
<1>10. ASSUME NEW ch \in Channel, Recheck(c, ch)
       PROVE  ListenCovered'
  BY <1>10, StillCovered DEF Recheck, Subscribers, mapVars, sessionVars
<1>11. CASE ExecuteUnlisten(c)
  <2>1. \A ch \in Channel : Subscribers(ch)' = Subscribers(ch)
    BY <1>11 DEF ExecuteUnlisten, Subscribers, mapVars
  <2>2. \A ch \in checked[c] : Subscribers(ch) = {}
    BY <1>11 DEF ExecuteUnlisten, UnlistenSafe
  <2> QED
    BY <1>11, <2>1, <2>2, StillCovered DEF ExecuteUnlisten
<1>12. CASE UnlistenReturns(c)
  BY <1>12, StillCovered DEF UnlistenReturns, Subscribers, mapVars, sessionVars
<1>13. CASE UnlistenFails(c)
  BY <1>13, StillCovered DEF UnlistenFails, Subscribers, mapVars, sessionVars
<1>14. CASE Receive(c)
  BY <1>14, StillCovered
  DEF Receive, Subscribers, mapVars, callVars, sessionVars
<1>15. CASE CloseReceiver(c)
  BY <1>15, StillCovered
  DEF CloseReceiver, Subscribers, mapVars, callVars, sessionVars
<1> QED
  BY <1>1, <1>2, <1>3, <1>4, <1>5, <1>6, <1>7, <1>8, <1>9, <1>10, <1>11,
     <1>12, <1>13, <1>14, <1>15 DEF ClientStep, CallStep

\* The handler touches the map only to remove entries, and never the session.
LEMMA HandlerCovered ==
  ASSUME TypeOK, ListenCovered, HandlerStep
  PROVE  ListenCovered'
<1>1. UNCHANGED <<pc, todo, connected, listening, orphans, lost>>
  BY DEF HandlerStep, HandlerReceive, HandlerStops, HandlerLocked, SendNext,
         SendDone, SendFails, Distributed, Reap, callVars, sessionVars
<1>2. UNCHANGED channels \/ Reap
  BY DEF HandlerStep, HandlerReceive, HandlerStops, HandlerLocked, SendNext,
         SendDone, SendFails, Distributed, mapVars
<1>3. \A ch \in Channel : Subscribers(ch)' \subseteq Subscribers(ch)
  BY <1>2, SubscribersOfReaped DEF Subscribers
<1> QED
  BY <1>1, <1>3, StillCovered DEF Excused, Pending

\* The session executes a LISTEN left behind, or goes down.
LEMMA OtherCovered ==
  ASSUME ListenCovered, SessionStep \/ UNCHANGED vars
  PROVE  ListenCovered'
  BY StillCovered
  DEF SessionStep, ConnectionLost, Notify, OrphanListen, Excused, Pending,
      Subscribers, vars, mapVars, callVars, sessionVars

\* The promise behind "Dynamically LISTEN/UNLISTEN based on client
\* subscriptions": however listen_many, unlisten_many, drops and failures of
\* any number of clients interleave, a channel with an entry in the map is
\* listened on, will be, or had its LISTEN given up in a way the caller of
\* listen_many was told of or died of.
THEOREM AlwaysCovered == Spec => []ListenCovered
<1>1. TypeOK /\ LockHeld /\ UnlistenSafe /\ ListenCovered /\ [Next]_vars
      => ListenCovered'
  BY ClientCovered, HandlerCovered, OtherCovered DEF Next
<1> QED
  BY InitCovered, <1>1, TypeCorrect, LockDiscipline, PTL DEF Spec

-----------------------------------------------------------------------------
(* The map and its owners *)

\* What is on its way to the handler, or in its hands, was published.
InHand == stage \in {"distLock", "distribute", "sending", "reapLock"}

Numbered ==
    /\ \A i \in DOMAIN inbox : inbox[i] \in DOMAIN published
    /\ InHand => msg \in DOMAIN published

\* Steps keep the notification in hand, and those on their way, numbered.
LEMMA NumberedStep ==
  ASSUME TypeOK, Numbered, [Next]_vars
  PROVE  Numbered'
<1> USE DEF TypeOK, Numbered, InHand
<1>1. ASSUME NEW ch \in Channel, Notify(ch)
      PROVE  Numbered'
  <2>1. DOMAIN published = 1 .. Len(published)
        /\ DOMAIN published' = 1 .. Len(published) + 1
        /\ DOMAIN inbox = 1 .. Len(inbox)
    BY <1>1, AppendProperties, LenProperties DEF Notify
  <2>2. \A i \in DOMAIN inbox' : inbox'[i] \in DOMAIN published'
    <3>1. CASE inbox' = inbox
      BY <2>1, <3>1, LenProperties
    <3>2. CASE inbox' = Append(inbox, Len(published) + 1)
      BY <2>1, <3>2, AppendProperties, LenProperties
    <3> QED
      BY <1>1, <3>1, <3>2 DEF Notify
  <2>3. UNCHANGED <<stage, msg>>
    BY <1>1 DEF Notify, handlerVars
  <2> QED
    BY <2>1, <2>2, <2>3, LenProperties
<1>2. CASE ConnectionLost
  <2>1. \A i \in DOMAIN inbox' : inbox'[i] \in DOMAIN published
    <3>1. PICK k \in 0 .. Len(inbox) : inbox' = SubSeq(inbox, 1, k)
      BY <1>2 DEF ConnectionLost
    <3>2. \A i \in 1 .. k : inbox[i] \in Nat
      BY ElementOfSeq, LenProperties
    <3>3. Len(inbox') = k /\ \A i \in 1 .. k : inbox'[i] = inbox[i]
      BY <3>1, <3>2, SubSeqProperties, LenProperties
    <3>4. DOMAIN inbox' = 1 .. k
      BY <3>1, <3>2, <3>3, SubSeqProperties, LenProperties
    <3> QED
      BY <3>3, <3>4, LenProperties
  <2> QED
    BY <1>2, <2>1 DEF ConnectionLost, handlerVars
<1>3. CASE HandlerReceive
  <2>1. Head(inbox) = inbox[1] /\ 1 \in DOMAIN inbox
    BY <1>3, LenProperties, EmptySeq DEF HandlerReceive
  <2>2. \A i \in DOMAIN Tail(inbox) : i + 1 \in DOMAIN inbox
                                      /\ Tail(inbox)[i] = inbox[i + 1]
    BY <1>3, HeadTailProperties, LenProperties DEF HandlerReceive
  <2> QED
    BY <1>3, <2>1, <2>2 DEF HandlerReceive
<1>4. CASE HandlerStep /\ ~HandlerReceive
  BY <1>4 DEF HandlerStep, HandlerStops, HandlerLocked, SendNext, SendDone,
              SendFails, Distributed, Reap, noteVars
<1>5. ASSUME NEW c \in Client, ClientStep(c)
      PROVE  UNCHANGED <<inbox, published, stage, msg>>
  BY <1>5 DEF ClientStep, CallStep, ListenMany, UnlistenMany, ListenLocked,
     ExecuteListen, ListenReturns, ListenFails, DropListen, UnlistenLocked,
     RecheckLocked, Recheck, ExecuteUnlisten, UnlistenReturns, UnlistenFails,
     Receive, CloseReceiver, noteVars, handlerVars
<1>6. ASSUME NEW ch \in Channel, OrphanListen(ch)
      PROVE  UNCHANGED <<inbox, published, stage, msg>>
  BY <1>6 DEF OrphanListen, noteVars, handlerVars
<1> QED
  BY <1>1, <1>2, <1>3, <1>4, <1>5, <1>6
  DEF Next, SessionStep, vars, noteVars, handlerVars

\* What the handler is iterating over does not change under its hands: every
\* entry it has still to serve is filed under the notification's channel.
TargetsFiled ==
    /\ stage \in {"distribute", "sending"} =>
          \A e \in targets \cup target : channels[Topic(msg)][e[1]] = e[2]
    /\ stage # "sending" => target = {}
    /\ stage \notin {"distribute", "sending"} => targets = {}
    /\ \A e, f \in target : e = f
    /\ target \cap targets = {}

\* While the handler is sending, its targets stay filed: every writer waits.
LEMMA TargetsFiledStep ==
  ASSUME TypeOK, LockHeld, Numbered, TargetsFiled, [Next]_vars
  PROVE  TargetsFiled'
<1> USE ListenerAssumption DEF TypeOK, TargetsFiled, Topic
<1>1. ASSUME NEW c \in Client, ClientStep(c)
      PROVE  TargetsFiled'
  <2>1. UNCHANGED <<stage, msg, targets, target, published>>
    BY <1>1 DEF ClientStep, CallStep, ListenMany, UnlistenMany, ListenLocked,
       ExecuteListen, ListenReturns, ListenFails, DropListen, UnlistenLocked,
       RecheckLocked, Recheck, ExecuteUnlisten, UnlistenReturns, UnlistenFails,
       Receive, CloseReceiver, noteVars, handlerVars
  <2>2. UNCHANGED channels \/ readers = {}
    BY <1>1 DEF ClientStep, CallStep, ListenMany, UnlistenMany, ListenLocked,
       ExecuteListen, ListenReturns, ListenFails, DropListen, UnlistenLocked,
       RecheckLocked, Recheck, ExecuteUnlisten, UnlistenReturns, UnlistenFails,
       Receive, CloseReceiver, CanWrite, mapVars
  <2> QED
    BY <2>1, <2>2 DEF LockHeld
<1>2. CASE HandlerLocked
  <2>1. \A e \in targets' : channels[published[msg]][e[1]] = e[2]
    BY <1>2 DEF HandlerLocked, Entries, Topic
  <2>2. target = {} /\ target' = target
    BY <1>2 DEF HandlerLocked
  <2> QED
    BY <1>2, <2>1 DEF HandlerLocked, mapVars, noteVars
<1>3. ASSUME NEW entry \in targets, SendNext(entry)
      PROVE  TargetsFiled'
  BY <1>3 DEF SendNext, mapVars, noteVars
<1>4. CASE SendDone \/ SendFails
  BY <1>4 DEF SendDone, SendFails, mapVars, noteVars
<1>5. CASE HandlerReceive \/ HandlerStops \/ Distributed \/ Reap
  BY <1>5 DEF HandlerReceive, HandlerStops, Distributed, Reap
<1>6. CASE SessionStep \/ UNCHANGED vars
  <2>1. UNCHANGED <<stage, msg, targets, target, channels>>
    BY <1>6 DEF SessionStep, ConnectionLost, Notify, OrphanListen, vars,
                mapVars, handlerVars
  <2>2. \/ published' = published
        \/ \E ch \in Channel : published' = Append(published, ch)
    BY <1>6 DEF SessionStep, ConnectionLost, Notify, OrphanListen, vars,
                noteVars
  <2>3. InHand => published'[msg] = published[msg]
    <3>1. InHand => msg \in 1 .. Len(published)
      BY LenProperties DEF Numbered
    <3>2. ASSUME NEW ch \in Channel, published' = Append(published, ch)
          PROVE  \A i \in 1 .. Len(published) : published'[i] = published[i]
      BY <3>2, AppendProperties
    <3> QED
      BY <2>2, <3>1, <3>2
  <2> QED
    BY <2>1, <2>3 DEF InHand
<1> QED
  BY <1>1, <1>2, <1>3, <1>4, <1>5, <1>6 DEF Next, HandlerStep

\* The handler has nothing in hand at the start.
LEMMA InitTargets == Init => Numbered /\ TargetsFiled
  BY DEF Init, Numbered, InHand, TargetsFiled

\* The entries handle_notification iterates over stay in the map until its sends
\* are done, although it awaits between them.
THEOREM TargetsStay == Spec => [](Numbered /\ TargetsFiled)
<1>1. TypeOK /\ LockHeld /\ Numbered /\ TargetsFiled /\ [Next]_vars
      => Numbered' /\ TargetsFiled'
  BY NumberedStep, TargetsFiledStep
<1> QED
  BY InitTargets, <1>1, TypeCorrect, LockDiscipline, PTL DEF Spec

\* Only three steps write the map.
LEMMA MapWriters ==
  ASSUME [Next]_vars
  PROVE  \/ UNCHANGED mapVars
         \/ Reap
         \/ \E c \in Client : ListenLocked(c) \/ UnlistenLocked(c)
<1>1. ASSUME NEW c \in Client, ClientStep(c)
      PROVE  UNCHANGED mapVars \/ ListenLocked(c) \/ UnlistenLocked(c)
  BY <1>1
  DEF ClientStep, CallStep, ListenMany, UnlistenMany, ExecuteListen,
      ListenReturns, ListenFails, DropListen, RecheckLocked, Recheck,
      ExecuteUnlisten, UnlistenReturns, UnlistenFails, Receive, CloseReceiver
<1>2. CASE HandlerStep
  BY <1>2 DEF HandlerStep, HandlerReceive, HandlerStops, HandlerLocked,
              SendNext, SendDone, SendFails, Distributed
<1>3. CASE SessionStep \/ UNCHANGED vars
  BY <1>3 DEF SessionStep, ConnectionLost, Notify, OrphanListen, vars
<1> QED
  BY <1>1, <1>2, <1>3 DEF Next

\* No step files or leaves an entry its owner did not ask for.
LEMMA EntriesOwnedStep ==
  ASSUME TypeOK, EntriesOwned, [Next]_vars
  PROVE  EntriesOwned'
<1> SUFFICES ASSUME NEW ch \in Channel, NEW id \in ClientId, NEW d \in Client,
                    channels'[ch][id] = d
             PROVE  id = IdOf[d] /\ ch \in subscribed'[d]
  BY DEF EntriesOwned
<1>0. channels[ch][id] = d => id = IdOf[d] /\ ch \in subscribed[d]
  BY DEF EntriesOwned
<1>1. ASSUME NEW c \in Client, ListenLocked(c)
      PROVE  id = IdOf[d] /\ ch \in subscribed'[d]
  <2>1. CASE ch \in todo[c] /\ id = IdOf[c]
    BY <1>1, <2>1, ListenerAssumption DEF ListenLocked, Filed, TypeOK
  <2>2. CASE ~(ch \in todo[c] /\ id = IdOf[c])
    BY <1>0, <1>1, <2>2, ListenerAssumption DEF ListenLocked, Filed, TypeOK
  <2> QED
    BY <2>1, <2>2
<1>2. ASSUME NEW c \in Client, UnlistenLocked(c)
      PROVE  id = IdOf[d] /\ ch \in subscribed'[d]
  <2>1. CASE ch \in todo[c] /\ id = IdOf[c]
    BY <1>2, <2>1, ListenerAssumption DEF UnlistenLocked, Removed, TypeOK
  <2>2. CASE ~(ch \in todo[c] /\ id = IdOf[c])
    BY <1>0, <1>2, <2>2, ListenerAssumption DEF UnlistenLocked, Removed, TypeOK
  <2> QED
    BY <2>1, <2>2
<1>3. CASE Reap
  <2>1. channels'[ch][id] = channels[ch][id] \/ channels'[ch][id] = NoSender
    BY <1>3 DEF Reap, TypeOK
  <2> QED
    BY <1>0, <1>3, <2>1, ListenerAssumption DEF Reap
<1>4. CASE UNCHANGED mapVars
  BY <1>0, <1>4 DEF mapVars
<1> QED
  BY <1>1, <1>2, <1>3, <1>4, MapWriters

\* An entry of the map is always one its owner's own calls put there.
THEOREM EntriesAreOwned == Spec => []EntriesOwned
<1>1. Init => EntriesOwned
  BY ListenerAssumption DEF Init, EntriesOwned
<1> QED
  BY <1>1, EntriesOwnedStep, TypeCorrect, PTL DEF Spec

\* unlisten_many is a barrier: the read lock held over the whole delivery of a
\* notification keeps the entries being served in the map, so whoever is sent
\* the notification is subscribed to its channel at that very moment.
THEOREM NothingAfterUnlisten == Spec => NoDeliveryAfterUnlisten
<1> USE DEF TypeOK
<1>1. ASSUME TypeOK, Numbered, TargetsFiled, EntriesOwned, [Next]_vars,
             NEW c \in Client, Len(buf'[c]) > Len(buf[c])
      PROVE  Topic(msg) \in subscribed[c]
  <2>1. CASE SendDone
    <3>1. PICK entry \in target :
                  buf' = [buf EXCEPT ![entry[2]] = Append(@, msg)]
      BY <2>1 DEF SendDone
    <3>2. entry[2] = c
      BY <1>1, <3>1
    <3>3. Topic(msg) \in Channel
      BY <1>1, <2>1, ElementOfSeq, LenProperties
      DEF SendDone, Numbered, InHand, Topic
    <3>4. entry[1] \in ClientId /\ channels[Topic(msg)][entry[1]] = c
      BY <1>1, <2>1, <3>1, <3>2 DEF SendDone, TargetsFiled
    <3> QED
      BY <1>1, <3>3, <3>4 DEF EntriesOwned
  <2>2. ASSUME NEW d \in Client, Receive(d)
        PROVE  FALSE
    <3>1. buf[d] \in Seq(Nat) /\ buf[d] # <<>>
      BY <1>1, <2>2 DEF Receive
    <3>2. Len(Tail(buf[d])) < Len(buf[d])
      BY <3>1, HeadTailProperties, LenProperties
    <3> QED
      BY <1>1, <2>2, <3>2, LenProperties DEF Receive
  <2>3. ASSUME NEW d \in Client, DropListen(d) \/ CloseReceiver(d)
        PROVE  FALSE
    <3>1. Len(buf[c]) \in Nat /\ Len(<<>>) = 0
      BY <1>1, LenProperties, EmptySeq
    <3>2. buf' = [buf EXCEPT ![d] = <<>>]
      BY <2>3 DEF DropListen, CloseReceiver
    <3>3. buf'[c] = buf[c] \/ buf'[c] = <<>>
      BY <1>1, <3>2
    <3> QED
      BY <1>1, <3>1, <3>3
  <2>4. CASE UNCHANGED buf
    BY <1>1, <2>4, LenProperties
  <2> QED
    BY <1>1, <2>1, <2>2, <2>3, <2>4
    DEF Next, ClientStep, CallStep, HandlerStep, SessionStep, ListenMany,
        UnlistenMany, ListenLocked, ExecuteListen, ListenReturns, ListenFails,
        UnlistenLocked, RecheckLocked, Recheck, ExecuteUnlisten,
        UnlistenReturns, UnlistenFails, HandlerReceive, HandlerStops,
        HandlerLocked, SendNext, SendFails, Distributed, Reap, ConnectionLost,
        Notify, OrphanListen, vars, queueVars
<1>2. TypeOK /\ Numbered /\ TargetsFiled /\ EntriesOwned /\ [Next]_vars
      => [\A c \in Client :
             Len(buf'[c]) > Len(buf[c]) => Topic(msg) \in subscribed[c]]_vars
  BY <1>1
<1> QED
  BY <1>2, TypeCorrect, TargetsStay, EntriesAreOwned, PTL
  DEF Spec, NoDeliveryAfterUnlisten

\* The ids noted as dead belong to closed receivers, and stay so until they are
\* reaped, since ids are not handed out twice.
DeadStayDead == \A id \in dead : \A c \in Client : IdOf[c] = id => ~open[c]

\* A receiver is never opened again.
LEMMA ClosedForGood ==
  ASSUME TypeOK, [Next]_vars, NEW c \in Client, open'[c]
  PROVE  open[c]
<1>1. ASSUME NEW d \in Client, DropListen(d) \/ CloseReceiver(d)
      PROVE  open[c]
  BY <1>1 DEF DropListen, CloseReceiver, TypeOK
<1>2. ASSUME NEW d \in Client, ClientStep(d), ~(DropListen(d) \/ CloseReceiver(d))
      PROVE  UNCHANGED open
  BY <1>2
  DEF ClientStep, CallStep, ListenMany, UnlistenMany, ListenLocked,
      ExecuteListen, ListenReturns, ListenFails, UnlistenLocked, RecheckLocked,
      Recheck, ExecuteUnlisten, UnlistenReturns, UnlistenFails, Receive,
      queueVars
<1>3. CASE HandlerStep
  BY <1>3 DEF HandlerStep, HandlerReceive, HandlerStops, HandlerLocked,
              SendNext, SendDone, SendFails, Distributed, Reap, queueVars
<1>4. CASE SessionStep \/ UNCHANGED vars
  BY <1>4 DEF SessionStep, ConnectionLost, Notify, OrphanListen, vars,
              queueVars
<1> QED
  BY <1>1, <1>2, <1>3, <1>4 DEF Next

\* An id that was found dead stays so until it is reaped.
LEMMA DeadStayDeadStep ==
  ASSUME DistinctIds, TypeOK, EntriesOwned, Numbered, TargetsFiled,
         DeadStayDead, [Next]_vars
  PROVE  DeadStayDead'
<1> SUFFICES ASSUME NEW id \in dead', NEW c \in Client, IdOf[c] = id
             PROVE  ~open'[c]
  BY DEF DeadStayDead
<1>1. CASE id \in dead
  BY <1>1, ClosedForGood DEF DeadStayDead
<1>2. CASE id \notin dead
  <2>1. SendFails
    <3>1. ASSUME NEW d \in Client, ClientStep(d)
          PROVE  UNCHANGED dead
      BY <3>1
      DEF ClientStep, CallStep, ListenMany, UnlistenMany, ListenLocked,
          ExecuteListen, ListenReturns, ListenFails, DropListen,
          UnlistenLocked, RecheckLocked, Recheck, ExecuteUnlisten,
          UnlistenReturns, UnlistenFails, Receive, CloseReceiver, handlerVars
    <3> QED
      BY <1>2, <3>1
      DEF Next, HandlerStep, SessionStep, HandlerReceive, HandlerStops,
          HandlerLocked, SendNext, SendDone, Distributed, Reap, ConnectionLost,
          Notify, OrphanListen, vars, handlerVars
  <2>2. PICK entry \in target : id = entry[1] /\ ~open[entry[2]]
    BY <1>2, <2>1 DEF SendFails
  <2>3. PICK d \in Client : d = entry[2] /\ channels[Topic(msg)][id] = d
    BY <2>1, <2>2 DEF SendFails, TargetsFiled, TypeOK
  <2>4. Topic(msg) \in Channel
    BY <2>1, ElementOfSeq, LenProperties
    DEF SendFails, Numbered, InHand, Topic, TypeOK
  <2>5. d = c
    <3>1. id \in ClientId
      BY <2>2 DEF TypeOK
    <3>2. id = IdOf[d]
      BY <2>3, <2>4, <3>1 DEF EntriesOwned
    <3> QED
      BY <3>2 DEF DistinctIds
  <2>6. ~open[c]
    BY <2>2, <2>3, <2>5
  <2> QED
    BY <2>6, ClosedForGood
<1> QED
  BY <1>1, <1>2

\* No step removes or replaces the entry of an open client but its own call.
LEMMA EntriesKeptStep ==
  ASSUME DistinctIds, TypeOK, DeadStayDead, EntriesKept, [Next]_vars
  PROVE  EntriesKept'
<1> SUFFICES ASSUME NEW c \in Client, open'[c], NEW ch \in subscribed'[c]
             PROVE  channels'[ch][IdOf[c]] = c
  BY DEF EntriesKept
<1>0. open[c] /\ (ch \in subscribed[c] => channels[ch][IdOf[c]] = c)
  BY ClosedForGood DEF EntriesKept
<1>1. ASSUME NEW d \in Client, ListenLocked(d)
      PROVE  channels'[ch][IdOf[c]] = c
  <2>1. CASE d = c /\ ch \in todo[d]
    BY <1>1, <2>1, ListenerAssumption DEF ListenLocked, Filed, TypeOK
  <2>2. CASE ~(d = c /\ ch \in todo[d])
    <3>1. ch \in subscribed[c]
      BY <1>1, <2>2 DEF ListenLocked, TypeOK
    <3> QED
      BY <1>0, <1>1, <2>2, <3>1, ListenerAssumption
      DEF ListenLocked, Filed, TypeOK, DistinctIds
  <2> QED
    BY <2>1, <2>2
<1>2. ASSUME NEW d \in Client, UnlistenLocked(d)
      PROVE  channels'[ch][IdOf[c]] = c
  <2>1. ch \in subscribed[c] /\ ~(d = c /\ ch \in todo[d])
    BY <1>2 DEF UnlistenLocked, TypeOK
  <2> QED
    BY <1>0, <1>2, <2>1, ListenerAssumption
    DEF UnlistenLocked, Removed, TypeOK, DistinctIds
<1>3. CASE Reap
  <2>1. IdOf[c] \notin dead /\ IdOf[c] \in ClientId
    BY <1>0, ListenerAssumption DEF DeadStayDead
  <2>2. ch \in subscribed[c] /\ ch \in Channel
    BY <1>3 DEF Reap, TypeOK
  <2> QED
    BY <1>0, <1>3, <2>1, <2>2 DEF Reap, TypeOK
<1>4. CASE UNCHANGED mapVars
  BY <1>0, <1>4 DEF mapVars
<1> QED
  BY <1>1, <1>2, <1>3, <1>4, MapWriters

\* With distinct ids nobody but its owner disturbs the entry of an open client:
\* a stale list of dead ids reaps only entries that are still dead.
THEOREM MapAlwaysAgrees ==
  ASSUME DistinctIds
  PROVE  Spec => []MapAgrees
<1>1. Init => DeadStayDead /\ EntriesKept
  BY DEF Init, DeadStayDead, EntriesKept
<1>2. TypeOK /\ EntriesOwned /\ Numbered /\ TargetsFiled /\ DeadStayDead
      /\ EntriesKept /\ [Next]_vars
      => DeadStayDead' /\ EntriesKept'
  BY DeadStayDeadStep, EntriesKeptStep
<1>3. MapAgrees <=> EntriesOwned /\ EntriesKept
  BY DEF MapAgrees
<1> QED
  BY <1>1, <1>2, <1>3, TypeCorrect, TargetsStay, EntriesAreOwned, PTL DEF Spec

=============================================================================
