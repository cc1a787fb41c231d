-------------------------- MODULE PubSubRefinement --------------------------
(***************************************************************************)
(* PostgresListener implements PubSub, for every value of the constants.   *)
(***************************************************************************)
EXTENDS PostgresListenerProofs

-----------------------------------------------------------------------------
(* Sequences *)

\* The first element of a concatenation and what follows it.
LEMMA HeadTailOfConcat ==
  ASSUME NEW S, NEW s \in Seq(S), NEW t \in Seq(S), s # <<>>
  PROVE  /\ s \o t # <<>>
         /\ Head(s \o t) = Head(s)
         /\ Tail(s \o t) = Tail(s) \o t
<1>1. Len(s) \in Nat \ {0} /\ Len(t) \in Nat
  BY LenProperties, EmptySeq
<1>2. s \o t \in Seq(S) /\ Len(s \o t) = Len(s) + Len(t)
      /\ \A i \in 1 .. Len(s) + Len(t) :
            (s \o t)[i] = IF i <= Len(s) THEN s[i] ELSE t[i - Len(s)]
  BY ConcatProperties
<1>3. s \o t # <<>>
  BY <1>1, <1>2, EmptySeq
<1>4. Head(s \o t) = Head(s)
  BY <1>1, <1>2
<1>5. Tail(s) \in Seq(S) /\ Len(Tail(s)) = Len(s) - 1
      /\ \A i \in 1 .. Len(s) - 1 : Tail(s)[i] = s[i + 1]
  BY HeadTailProperties
<1>6. Tail(s \o t) \in Seq(S) /\ Len(Tail(s \o t)) = Len(s) + Len(t) - 1
      /\ \A i \in 1 .. Len(s) + Len(t) - 1 : Tail(s \o t)[i] = (s \o t)[i + 1]
  BY <1>2, <1>3, HeadTailProperties
<1>7. Tail(s) \o t \in Seq(S) /\ Len(Tail(s) \o t) = Len(s) - 1 + Len(t)
      /\ \A i \in 1 .. Len(s) - 1 + Len(t) :
            (Tail(s) \o t)[i] = IF i <= Len(s) - 1 THEN Tail(s)[i]
                                                  ELSE t[i - (Len(s) - 1)]
  BY <1>5, ConcatProperties
<1>8. \A i \in 1 .. Len(s) + Len(t) - 1 : Tail(s \o t)[i] = (Tail(s) \o t)[i]
  BY <1>1, <1>2, <1>5, <1>6, <1>7
<1>9. Tail(s \o t) = Tail(s) \o t
  BY <1>1, <1>6, <1>7, <1>8, SeqEqual
<1> QED
  BY <1>3, <1>4, <1>9

\* Appending to a concatenation is appending to its second part.
LEMMA ConcatAppend ==
  ASSUME NEW S, NEW s \in Seq(S), NEW t \in Seq(S), NEW e \in S
  PROVE  s \o Append(t, e) = Append(s \o t, e)
<1>1. <<e>> \in Seq(S) /\ s \o t \in Seq(S)
  BY ConcatProperties
<1>2. (s \o t) \o <<e>> = s \o (t \o <<e>>)
  BY <1>1, ConcatAssociative
<1>3. Append(t, e) = t \o <<e>> /\ Append(s \o t, e) = (s \o t) \o <<e>>
  BY <1>1, AppendIsConcat
<1> QED
  BY <1>2, <1>3

\* A prefix of the second part extends the first to a prefix of the whole.
LEMMA PrefixOfConcat ==
  ASSUME NEW S, NEW s \in Seq(S), NEW t \in Seq(S), NEW k \in 0 .. Len(t)
  PROVE  /\ Len(s) + k \in 0 .. Len(s \o t)
         /\ s \o SubSeq(t, 1, k) = SubSeq(s \o t, 1, Len(s) + k)
<1>1. Len(s) \in Nat /\ Len(t) \in Nat /\ k \in Nat /\ k <= Len(t)
  BY LenProperties
<1>2. s \o t \in Seq(S) /\ Len(s \o t) = Len(s) + Len(t)
      /\ \A i \in 1 .. Len(s) + Len(t) :
            (s \o t)[i] = IF i <= Len(s) THEN s[i] ELSE t[i - Len(s)]
  BY ConcatProperties
<1>3. SubSeq(t, 1, k) \in Seq(S) /\ Len(SubSeq(t, 1, k)) = k
      /\ \A i \in 1 .. k : SubSeq(t, 1, k)[i] = t[i]
  <2>1. \A i \in 1 .. k : t[i] \in S
    BY <1>1, ElementOfSeq
  <2> QED
    BY <1>1, <2>1, SubSeqProperties
<1>4. LET u == SubSeq(s \o t, 1, Len(s) + k)
      IN  u \in Seq(S) /\ Len(u) = Len(s) + k
          /\ \A i \in 1 .. Len(s) + k : u[i] = (s \o t)[i]
  <2>1. \A i \in 1 .. Len(s) + k : (s \o t)[i] \in S
    BY <1>1, <1>2, ElementOfSeq
  <2> QED
    BY <1>1, <2>1, SubSeqProperties
<1>5. LET u == s \o SubSeq(t, 1, k)
      IN  u \in Seq(S) /\ Len(u) = Len(s) + k
          /\ \A i \in 1 .. Len(s) + k :
                u[i] = IF i <= Len(s) THEN s[i] ELSE SubSeq(t, 1, k)[i - Len(s)]
  BY <1>3, ConcatProperties
<1>6. \A i \in 1 .. Len(s) + k :
         SubSeq(s \o t, 1, Len(s) + k)[i] = (s \o SubSeq(t, 1, k))[i]
  BY <1>1, <1>2, <1>3, <1>4, <1>5
<1>7. s \o SubSeq(t, 1, k) = SubSeq(s \o t, 1, Len(s) + k)
  BY <1>1, <1>4, <1>5, <1>6, SeqEqual
<1> QED
  BY <1>1, <1>2, <1>7

-----------------------------------------------------------------------------
(* The mapping *)

\* The images of the abstract member, stream and queue.
Member == [c \in Client |-> IF open[c] THEN subscribed[c] ELSE {}]
First == IF stage = "distLock" THEN <<msg>> ELSE <<>>
Rest(c) == IF Serving(c) THEN <<msg>> ELSE <<>>
Queue == [c \in Client |-> IF ~open[c] THEN <<>> ELSE buf[c] \o Rest(c)]

\* What the simulation needs to know of a reachable state.
Inv == /\ TypeOK /\ LockHeld /\ UnlistenSafe
       /\ Numbered /\ TargetsFiled /\ MapAgrees

\* The mapped variables have the types of PubSub.
LEMMA MappingTypes ==
  ASSUME TypeOK
  PROVE  /\ First \in Seq(Nat) /\ inbox \in Seq(Nat)
         /\ \A c \in Client : Rest(c) \in Seq(Nat) /\ buf[c] \in Seq(Nat)
  BY DEF TypeOK, First, Rest

\* Initial states map to initial states.
LEMMA InitRefines == Init => PS!Init
<1> SUFFICES ASSUME Init PROVE PS!Init
  OBVIOUS
<1>1. \A c \in Client : ~Serving(c)
  BY DEF Init, Serving
<1>2. <<>> \o <<>> = <<>>
  BY ConcatEmptySeq, EmptySeq
<1> QED
  BY <1>1, <1>2 DEF Init, PS!Init

\* Steps between the moments that matter leave the image alone.
LEMMA QuietSteps ==
  ASSUME NEW c \in Client,
         \/ \E chs \in SUBSET Channel : ListenMany(c, chs) \/ UnlistenMany(c, chs)
         \/ \E ch \in Channel : Recheck(c, ch)
         \/ ListenReturns(c) \/ ListenFails(c) \/ RecheckLocked(c)
         \/ UnlistenReturns(c) \/ UnlistenFails(c)
  PROVE  UNCHANGED PS!vars
<1>1. UNCHANGED <<subscribed, connected, listening, published, inbox, stage,
                  msg, targets, target, buf, open, last>>
  BY DEF ListenMany, UnlistenMany, Recheck, ListenReturns, ListenFails,
         RecheckLocked, UnlistenReturns, UnlistenFails, mapVars, sessionVars,
         noteVars, handlerVars, queueVars
<1> QED
  BY <1>1 DEF PS!vars, Serving

\* The write section of listen_many is a Join.
LEMMA JoinStep ==
  ASSUME TypeOK, NEW c \in Client, ListenLocked(c)
  PROVE  PS!Join(c, todo[c]) \/ UNCHANGED PS!vars
<1>1. UNCHANGED <<connected, listening, published, inbox, stage, msg, targets,
                  target, buf, open, last>>
  BY DEF ListenLocked, sessionVars, noteVars, handlerVars, queueVars
<1>2. subscribed' = [subscribed EXCEPT ![c] = @ \cup todo[c]]
  BY DEF ListenLocked
<1>3. CASE open[c]
  <2>1. Member' = [Member EXCEPT ![c] = @ \cup todo[c]]
    BY <1>1, <1>2, <1>3 DEF Member, TypeOK
  <2> QED
    BY <1>1, <1>3, <2>1 DEF PS!Join, Serving, Member
<1>4. CASE ~open[c]
  <2>1. Member' = Member
    BY <1>1, <1>2, <1>4 DEF Member, TypeOK
  <2> QED
    BY <1>1, <2>1 DEF PS!vars, Serving, Member
<1> QED
  BY <1>3, <1>4

\* The write section of unlisten_many is a Leave.
LEMMA LeaveStep ==
  ASSUME TypeOK, NEW c \in Client, UnlistenLocked(c)
  PROVE  PS!Leave(c, todo[c])
<1>1. UNCHANGED <<connected, listening, published, inbox, stage, msg, targets,
                  target, buf, open, last>>
  BY DEF UnlistenLocked, sessionVars, noteVars, handlerVars, queueVars
<1>2. subscribed' = [subscribed EXCEPT ![c] = @ \ todo[c]]
  BY DEF UnlistenLocked
<1>3. Member' = [Member EXCEPT ![c] = @ \ todo[c]]
  BY <1>1, <1>2 DEF Member, TypeOK
<1> QED
  BY <1>1, <1>3 DEF PS!Leave, Serving, Member

\* A LISTEN that the server executes is a Hear.
LEMMA HearStep ==
  ASSUME NEW ch \in Channel,
         OrphanListen(ch) \/ \E c \in Client : ExecuteListen(c, ch)
  PROVE  PS!Hear(ch)
<1>1. UNCHANGED <<subscribed, connected, published, inbox, stage, msg, targets,
                  target, buf, open, last>>
  BY DEF OrphanListen, ExecuteListen, mapVars, noteVars, handlerVars, queueVars
<1>2. connected /\ listening' = listening \cup {ch}
  BY DEF OrphanListen, ExecuteListen
<1> QED
  BY <1>1, <1>2 DEF PS!Hear, Serving

\* The one place where the invariant on the map and the lock is needed for the
\* session: the channel being given up has no member.
LEMMA GiveUpStep ==
  ASSUME Inv, NEW c \in Client, ExecuteUnlisten(c)
  PROVE  PS!GiveUp(checked[c])
<1>1. UNCHANGED <<subscribed, connected, published, inbox, stage, msg, targets,
                  target, buf, open, last>>
  BY DEF ExecuteUnlisten, mapVars, noteVars, handlerVars, queueVars
<1>2. listening' = listening \ checked[c]
  BY DEF ExecuteUnlisten
<1>3. \A d \in Client : Member[d] \cap checked[c] = {}
  <2> SUFFICES ASSUME NEW d \in Client, open[d],
                      NEW ch \in checked[c], ch \in subscribed[d]
               PROVE  FALSE
    BY DEF Member
  <2>1. ch \in Channel /\ IdOf[d] \in ClientId /\ d # NoSender
    BY ListenerAssumption DEF Inv, TypeOK
  <2>2. channels[ch][IdOf[d]] = d
    BY DEF Inv, MapAgrees, EntriesKept
  <2>3. Subscribers(ch) = {}
    BY DEF Inv, UnlistenSafe
  <2> QED
    BY <2>1, <2>2, <2>3 DEF Subscribers
<1> QED
  BY <1>1, <1>2, <1>3 DEF PS!GiveUp, Serving, Member

\* A receiver that is dropped is a Die.
LEMMA DieStep ==
  ASSUME TypeOK, NEW c \in Client, DropListen(c) \/ CloseReceiver(c)
  PROVE  PS!Die(c) \/ UNCHANGED PS!vars
<1>1. UNCHANGED <<subscribed, connected, listening, published, inbox, stage,
                  msg, targets, target, last>>
  BY DEF DropListen, CloseReceiver, mapVars, sessionVars, noteVars, handlerVars
<1>2. open' = [open EXCEPT ![c] = FALSE] /\ buf' = [buf EXCEPT ![c] = <<>>]
  BY DEF DropListen, CloseReceiver
<1>3. Member' = [Member EXCEPT ![c] = {}] /\ Queue' = [Queue EXCEPT ![c] = <<>>]
  BY <1>1, <1>2 DEF Member, Queue, Rest, Serving, TypeOK
<1>4. CASE open[c]
  BY <1>1, <1>2, <1>3, <1>4 DEF PS!Die, Member, Queue, Rest
<1>5. CASE ~open[c]
  <2>1. open' = open
    BY <1>2, <1>5 DEF TypeOK
  <2>2. Member' = Member
    <3>1. Member[c] = {} /\ Member = [d \in Client |-> Member[d]]
      BY <1>5 DEF Member
    <3> QED
      BY <1>3, <3>1
  <2>3. Queue' = Queue
    <3>1. Queue[c] = <<>> /\ Queue = [d \in Client |-> Queue[d]]
      BY <1>5 DEF Queue
    <3> QED
      BY <1>3, <3>1
  <2> QED
    BY <1>1, <2>1, <2>2, <2>3 DEF PS!vars, Member, Queue, Rest
<1> QED
  BY <1>4, <1>5

\* Taking a notification from the queue is a Consume.
LEMMA ConsumeStep ==
  ASSUME TypeOK, NEW c \in Client, Receive(c)
  PROVE  PS!Consume(c)
<1>1. UNCHANGED <<subscribed, connected, listening, published, inbox, stage,
                  msg, targets, target, open>>
  BY DEF Receive, mapVars, sessionVars, noteVars, handlerVars
<1>2. /\ open[c] /\ buf[c] # <<>>
      /\ last' = [last EXCEPT ![c] = Head(buf[c])]
      /\ buf' = [buf EXCEPT ![c] = Tail(buf[c])]
  BY DEF Receive
<1>3. /\ Queue[c] # <<>>
      /\ Head(Queue[c]) = Head(buf[c])
      /\ Tail(Queue[c]) = Tail(buf[c]) \o Rest(c)
  BY <1>2, MappingTypes, HeadTailOfConcat DEF Queue
<1>4. Queue' = [Queue EXCEPT ![c] = Tail(Queue[c])]
  BY <1>1, <1>2, <1>3 DEF Queue, Rest, Serving, TypeOK
<1>5. last' = [last EXCEPT ![c] = Head(Queue[c])]
  BY <1>2, <1>3
<1> QED
  BY <1>1, <1>3, <1>4, <1>5 DEF PS!Consume, Queue, Rest

\* A NOTIFY is a Publish.
LEMMA PublishStep ==
  ASSUME TypeOK, NEW ch \in Channel, Notify(ch)
  PROVE  PS!Publish(ch)
<1>1. UNCHANGED <<subscribed, connected, listening, stage, msg, targets,
                  target, buf, open, last>>
  BY DEF Notify, mapVars, sessionVars, handlerVars, queueVars
<1>2. /\ connected /\ Len(published) < MaxNotify
      /\ published' = Append(published, ch)
      /\ inbox' = IF ch \in listening THEN Append(inbox, Len(published) + 1)
                                      ELSE inbox
  BY DEF Notify
<1>3. Len(published) + 1 \in Nat
  BY LenProperties DEF TypeOK
<1>4. First \o inbox' = IF ch \in listening
                        THEN Append(First \o inbox, Len(published) + 1)
                        ELSE First \o inbox
  <2>1. First \o Append(inbox, Len(published) + 1)
        = Append(First \o inbox, Len(published) + 1)
    <3>1. First \in Seq(Nat) /\ inbox \in Seq(Nat)
      BY MappingTypes
    <3>2. ASSUME NEW n \in Nat
          PROVE  First \o Append(inbox, n) = Append(First \o inbox, n)
      BY <3>1, ConcatAppend
    <3> QED
      BY <1>3, <3>2, Zenon
  <2> QED
    BY <1>2, <2>1
<1>5. First' = First
  BY <1>1 DEF First
<1> QED
  BY <1>1, <1>2, <1>4, <1>5 DEF PS!Publish, First, Serving

\* The loss of the session is a Break.
LEMMA BreakStep ==
  ASSUME TypeOK, ConnectionLost
  PROVE  PS!Break
<1>1. UNCHANGED <<subscribed, published, stage, msg, targets, target, buf,
                  open, last>>
  BY DEF ConnectionLost, mapVars, noteVars, handlerVars, queueVars
<1>2. connected /\ connected' = FALSE /\ listening' = {}
  BY DEF ConnectionLost
<1>3. PICK k \in 0 .. Len(inbox) : inbox' = SubSeq(inbox, 1, k)
  BY DEF ConnectionLost
<1>4. Len(First) + k \in 0 .. Len(First \o inbox)
      /\ First \o inbox' = SubSeq(First \o inbox, 1, Len(First) + k)
  BY <1>3, MappingTypes, PrefixOfConcat
<1>5. First' = First
  BY <1>1 DEF First
<1> QED
  BY <1>1, <1>2, <1>4, <1>5 DEF PS!Break, First, Serving

\* The message taken from the inbox is the head of the abstract stream until the
\* read section begins.
LEMMA TakeStep ==
  ASSUME TypeOK, TargetsFiled, HandlerReceive
  PROVE  UNCHANGED PS!vars
<1>1. UNCHANGED <<subscribed, connected, listening, published, targets, target,
                  buf, open, last>>
  BY DEF HandlerReceive, mapVars, sessionVars, queueVars
<1>2. /\ stage = "recv" /\ stage' = "distLock" /\ inbox # <<>>
      /\ msg' = Head(inbox) /\ inbox' = Tail(inbox)
  BY DEF HandlerReceive
<1>3. <<Head(inbox)>> \o Tail(inbox) = inbox
  <2>1. inbox \in Seq(Nat) /\ Len(inbox) \in Nat \ {0}
    BY <1>2, LenProperties, EmptySeq DEF TypeOK
  <2>2. Head(inbox) = inbox[1] /\ Tail(inbox) = SubSeq(inbox, 2, Len(inbox))
    BY <1>2, <2>1, TailIsSubSeq
  <2>3. 1 \in 1 .. Len(inbox) /\ Len(inbox) \in 1 .. Len(inbox)
    BY <2>1
  <2>4. SubSeq(inbox, 1, Len(inbox))
        = <<inbox[1]>> \o SubSeq(inbox, 1 + 1, Len(inbox))
    BY <2>1, <2>3, SubSeqRecursiveFirst
  <2> QED
    BY <2>1, <2>2, <2>4, SubSeqFull
<1>4. First' \o inbox' = First \o inbox
  BY <1>2, <1>3, ConcatEmptySeq DEF First, TypeOK
<1>5. targets = {} /\ target = {}
  BY <1>2 DEF TargetsFiled
<1>6. \A c \in Client : ~Serving(c) /\ ~Serving(c)'
  BY <1>1, <1>5 DEF Serving
<1>7. Queue' = Queue
  BY <1>1, <1>6 DEF Queue, Rest
<1> QED
  BY <1>1, <1>4, <1>7 DEF PS!vars, First, Queue, Rest

\* The read section begins: everybody filed under the channel is served at once
\* as far as PubSub can see.
LEMMA DispatchStep ==
  ASSUME Inv, HandlerLocked
  PROVE  PS!Dispatch
<1> DEFINE n == Head(First \o inbox)
<1> USE DEF Inv
<1>1. UNCHANGED <<channels, subscribed, connected, listening, published, inbox,
                  target, buf, open, last>>
  BY DEF HandlerLocked, mapVars, sessionVars, noteVars, queueVars
<1>2. /\ stage = "distLock" /\ stage' \in {"recv", "distribute"}
      /\ targets' = Entries(Topic(msg))
      /\ targets' # {} => msg' = msg
  BY DEF HandlerLocked
<1>3. target = {} /\ targets = {}
  BY <1>2 DEF TargetsFiled
<1>4. msg \in Nat /\ First = <<msg>> /\ <<msg>> \in Seq(Nat) /\ <<msg>> # <<>>
  BY <1>2 DEF TypeOK, First
<1>5. /\ First \o inbox # <<>>
      /\ n = msg
      /\ Tail(First \o inbox) = inbox
  <2>1. First \o inbox # <<>> /\ Head(First \o inbox) = Head(<<msg>>)
        /\ Tail(First \o inbox) = Tail(<<msg>>) \o inbox
    BY <1>4, MappingTypes, HeadTailOfConcat
  <2>2. Head(<<msg>>) = msg /\ Tail(<<msg>>) = <<>>
    BY <1>4
  <2> QED
    BY <2>1, <2>2, MappingTypes, ConcatEmptySeq
<1>6. First' \o inbox' = inbox
  BY <1>1, <1>2, MappingTypes, ConcatEmptySeq DEF First
<1>7. ASSUME NEW c \in Client
      PROVE  Queue'[c] = IF open[c] /\ published[n] \in Member[c]
                         THEN Append(Queue[c], n) ELSE Queue[c]
  <2>1. Topic(msg) \in Channel
    BY <1>2, ElementOfSeq, LenProperties DEF Numbered, InHand, Topic, TypeOK
  <2>2. CASE ~open[c]
    BY <1>1, <2>2 DEF Queue
  <2>3. CASE open[c]
    <3>1. Queue[c] = buf[c] /\ buf[c] \in Seq(Nat)
      BY <1>3, <2>3, MappingTypes, ConcatEmptySeq DEF Queue, Rest, Serving
    <3>2. Serving(c)' <=> Topic(msg) \in subscribed[c]
      <4>1. Serving(c)' <=> \E e \in Entries(Topic(msg)) : e[2] = c
        BY <1>1, <1>2, <1>3 DEF Serving
      <4>2. ASSUME NEW e \in Entries(Topic(msg)), e[2] = c
            PROVE  Topic(msg) \in subscribed[c]
        BY <2>1, <4>2 DEF Entries, MapAgrees, EntriesOwned
      <4>3. ASSUME Topic(msg) \in subscribed[c]
            PROVE  <<IdOf[c], c>> \in Entries(Topic(msg))
        BY <2>1, <2>3, <4>3, ListenerAssumption
        DEF Entries, MapAgrees, EntriesKept
      <4> QED
        BY <4>1, <4>2, <4>3
    <3>3. Serving(c)' => msg' = msg
      BY <1>1, <1>2, <1>3 DEF Serving
    <3>4. buf[c] \o <<msg>> = Append(buf[c], msg)
      BY <1>4, <3>1, AppendIsConcat
    <3>5. Queue'[c] = IF Topic(msg) \in subscribed[c] THEN Append(buf[c], msg)
                                                      ELSE buf[c]
      BY <1>1, <2>3, <3>1, <3>2, <3>3, <3>4, ConcatEmptySeq DEF Queue, Rest
    <3> QED
      BY <1>5, <2>3, <3>1, <3>5 DEF Member, Topic
  <2> QED
    BY <2>2, <2>3
<1>8. Queue' = [c \in Client |->
                   IF open[c] /\ published[n] \in Member[c]
                   THEN Append(Queue[c], n) ELSE Queue[c]]
  BY <1>7 DEF Queue
<1> QED
  BY <1>1, <1>5, <1>6, <1>8 DEF PS!Dispatch, First, Queue, Rest, Member

\* Sending is invisible: the notification moves from the handler's hands to the
\* client's queue, or to a receiver that is gone.
LEMMA SendSteps ==
  ASSUME Inv,
         \/ SendDone \/ SendFails
         \/ \E entry \in targets : SendNext(entry)
  PROVE  UNCHANGED PS!vars
<1> USE DEF Inv
<1>1. UNCHANGED <<subscribed, connected, listening, published, inbox, msg,
                  open, last>>
  BY DEF SendDone, SendFails, SendNext, mapVars, sessionVars, noteVars,
         queueVars
<1>2. stage # "distLock" /\ stage' # "distLock"
  BY DEF SendDone, SendFails, SendNext
<1>3. First' \o inbox' = First \o inbox
  BY <1>1, <1>2 DEF First
<1>4. Queue' = Queue
  <2>1. ASSUME NEW entry \in targets, SendNext(entry)
        PROVE  Queue' = Queue
    <3>1. target = {} /\ UNCHANGED buf
      BY <2>1 DEF SendNext, TargetsFiled, queueVars
    <3>2. targets' \cup target' = targets \cup target
      BY <2>1, <3>1 DEF SendNext
    <3> QED
      BY <1>1, <3>1, <3>2 DEF Queue, Rest, Serving
  <2>2. CASE SendFails
    <3>1. PICK entry \in target : ~open[entry[2]]
      BY <2>2 DEF SendFails
    <3>2. target = {entry}
      BY <3>1 DEF TargetsFiled
    <3>3. target' = {} /\ targets' = targets /\ UNCHANGED buf
      BY <2>2 DEF SendFails, queueVars
    <3>4. \A c \in Client : open[c] => (Serving(c)' <=> Serving(c))
      BY <3>1, <3>2, <3>3 DEF Serving
    <3> QED
      BY <1>1, <3>3, <3>4 DEF Queue, Rest
  <2>3. CASE SendDone
    <3>1. PICK entry \in target :
                  open[entry[2]] /\ buf' = [buf EXCEPT ![entry[2]] = Append(@, msg)]
      BY <2>3 DEF SendDone
    <3>2. target = {entry} /\ entry \in ClientId \X Client
      BY <3>1 DEF TargetsFiled, TypeOK
    <3>3. target' = {} /\ targets' = targets
      BY <2>3 DEF SendDone
    <3>4. ASSUME NEW c \in Client, c # entry[2]
          PROVE  buf'[c] = buf[c] /\ (Serving(c)' <=> Serving(c))
      BY <3>1, <3>2, <3>3, <3>4 DEF Serving, TypeOK
    <3>5. Serving(entry[2]) /\ ~Serving(entry[2])'
      <4>1. Serving(entry[2])
        BY <3>2 DEF Serving
      <4>2. ASSUME NEW e \in targets, e[2] = entry[2]
            PROVE  FALSE
        <5>1. Topic(msg) \in Channel /\ e \in ClientId \X Client
          BY <2>3, ElementOfSeq, LenProperties
          DEF SendDone, Numbered, InHand, Topic, TypeOK
        <5>2. /\ channels[Topic(msg)][e[1]] = entry[2]
              /\ channels[Topic(msg)][entry[1]] = entry[2]
          BY <2>3, <3>2, <4>2 DEF SendDone, TargetsFiled
        <5>3. e[1] = IdOf[entry[2]] /\ entry[1] = IdOf[entry[2]]
          BY <3>2, <5>1, <5>2 DEF MapAgrees, EntriesOwned
        <5>4. e = entry
          BY <3>2, <4>2, <5>1, <5>3
        <5> QED
          BY <3>2, <5>4 DEF TargetsFiled
      <4> QED
        BY <3>3, <4>1, <4>2 DEF Serving
    <3>6. Queue'[entry[2]] = Queue[entry[2]]
      <4>1. buf[entry[2]] \in Seq(Nat) /\ msg \in Nat
        BY <3>2 DEF TypeOK
      <4>2. buf'[entry[2]] = Append(buf[entry[2]], msg)
        BY <3>1, <3>2 DEF TypeOK
      <4>3. Append(buf[entry[2]], msg) \in Seq(Nat)
            /\ Append(buf[entry[2]], msg) = buf[entry[2]] \o <<msg>>
        BY <4>1, AppendIsConcat, AppendProperties
      <4>4. Append(buf[entry[2]], msg) \o <<>> = Append(buf[entry[2]], msg)
        BY <4>3, ConcatEmptySeq
      <4> QED
        BY <1>1, <3>1, <3>2, <3>5, <4>2, <4>3, <4>4 DEF Queue, Rest
    <3> QED
      BY <1>1, <3>4, <3>6 DEF Queue, Rest
  <2> QED
    BY <2>1, <2>2, <2>3
<1> QED
  BY <1>1, <1>3, <1>4 DEF PS!vars, First, Queue, Rest

\* What the handler does before and after a delivery shows nowhere.
LEMMA HandlerRests ==
  ASSUME Inv, HandlerStops \/ Distributed \/ Reap
  PROVE  UNCHANGED PS!vars
<1> USE DEF Inv
<1>1. UNCHANGED <<subscribed, connected, listening, published, inbox, targets,
                  target, buf, open, last>>
  BY DEF HandlerStops, Distributed, Reap, mapVars, sessionVars, noteVars,
         queueVars
<1>2. stage # "distLock" /\ stage' # "distLock" /\ targets = {} /\ target = {}
  BY DEF HandlerStops, Distributed, Reap, TargetsFiled
<1>3. First' = First /\ Queue' = Queue
  BY <1>1, <1>2 DEF First, Queue, Rest, Serving
<1> QED
  BY <1>1, <1>3 DEF PS!vars, First, Queue, Rest

\* Every step of postgres.rs is a step of PubSub or changes nothing there.
LEMMA StepRefines ==
  ASSUME Inv, [Next]_vars
  PROVE  [PS!Next]_(PS!vars)
<1> USE DEF Inv
<1>1. ASSUME NEW c \in Client, ListenLocked(c) \/ UnlistenLocked(c)
      PROVE  [PS!Next]_(PS!vars)
  <2>1. todo[c] \in SUBSET Channel
    BY DEF TypeOK
  <2>2. PS!Join(c, todo[c]) \/ PS!Leave(c, todo[c]) \/ UNCHANGED PS!vars
    BY <1>1, JoinStep, LeaveStep
  <2>3. CASE PS!Join(c, todo[c]) \/ PS!Leave(c, todo[c])
    <3>1. \E chs \in SUBSET Channel : PS!Join(c, chs) \/ PS!Leave(c, chs)
      BY <2>1, <2>3 DEF PS!Join, PS!Leave
    <3> QED
      BY <3>1 DEF PS!Next
  <2> QED
    BY <2>2, <2>3
<1>2. ASSUME NEW c \in Client, ExecuteUnlisten(c)
      PROVE  [PS!Next]_(PS!vars)
  <2>1. checked[c] \in SUBSET Channel
    BY DEF TypeOK
  <2> QED
    BY <1>2, <2>1, GiveUpStep DEF PS!Next
<1>3. ASSUME NEW c \in Client,
             DropListen(c) \/ CloseReceiver(c) \/ Receive(c)
      PROVE  [PS!Next]_(PS!vars)
  BY <1>3, DieStep, ConsumeStep DEF PS!Next
<1>4. ASSUME NEW ch \in Channel,
             \/ OrphanListen(ch) \/ Notify(ch)
             \/ \E c \in Client : ExecuteListen(c, ch)
      PROVE  [PS!Next]_(PS!vars)
  BY <1>4, HearStep, PublishStep DEF PS!Next
<1>5. CASE ConnectionLost
  BY <1>5, BreakStep DEF PS!Next
<1>6. CASE HandlerLocked
  BY <1>6, DispatchStep DEF PS!Next
<1>7. CASE HandlerStep /\ ~HandlerLocked
  <2>1. CASE HandlerReceive
    BY <2>1, TakeStep
  <2>2. CASE SendDone \/ SendFails \/ \E entry \in targets : SendNext(entry)
    BY <2>2, SendSteps
  <2>3. CASE HandlerStops \/ Distributed \/ Reap
    BY <2>3, HandlerRests
  <2> QED
    BY <1>7, <2>1, <2>2, <2>3 DEF HandlerStep
<1>8. ASSUME NEW c \in Client,
             \/ \E chs \in SUBSET Channel :
                   ListenMany(c, chs) \/ UnlistenMany(c, chs)
             \/ \E ch \in Channel : Recheck(c, ch)
             \/ ListenReturns(c) \/ ListenFails(c) \/ RecheckLocked(c)
             \/ UnlistenReturns(c) \/ UnlistenFails(c)
      PROVE  [PS!Next]_(PS!vars)
  <2>1. UNCHANGED PS!vars
    BY <1>8, QuietSteps
  <2> QED
    BY <2>1
<1>9. CASE UNCHANGED vars
  BY <1>9 DEF vars, mapVars, callVars, lockVars, sessionVars, noteVars,
              handlerVars, queueVars, PS!vars, Serving
<1> QED
  BY <1>1, <1>2, <1>3, <1>4, <1>5, <1>6, <1>7, <1>8, <1>9
  DEF Next, ClientStep, CallStep, SessionStep

\* Delivery is atomic and coverage is never given up: with distinct ids, the
\* listener of postgres.rs, with its lock, its bounded queues and its statements
\* in flight, implements the registry and stream of PubSub.
THEOREM Refinement ==
  ASSUME DistinctIds
  PROVE  Spec => ImplementsPubSub
<1>1. Inv <=> TypeOK /\ LockHeld /\ UnlistenSafe /\ Numbered /\ TargetsFiled
              /\ MapAgrees
  BY DEF Inv
<1>2. Init => PS!Init
  BY InitRefines
<1>3. Inv /\ [Next]_vars => [PS!Next]_(PS!vars)
  BY StepRefines
<1> QED
  BY <1>1, <1>2, <1>3, TypeCorrect, LockDiscipline, TargetsStay,
     MapAlwaysAgrees, PTL
  DEF Spec, ImplementsPubSub, PS!Spec

=============================================================================
