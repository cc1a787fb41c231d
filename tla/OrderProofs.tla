----------------------------- MODULE OrderProofs -----------------------------
(***************************************************************************)
(* Notifications reach every client in the order they were committed, and  *)
(* none twice.                                                             *)
(***************************************************************************)
EXTENDS PostgresListenerProofs

-----------------------------------------------------------------------------
(* Rising sequences of numbers *)

Rising(s) == \A i, j \in DOMAIN s : i < j => s[i] < s[j]
Apart(s, t) == \A i \in DOMAIN s, j \in DOMAIN t : s[i] < t[j]
Under(s, n) == \A i \in DOMAIN s : s[i] < n
Above(n, s) == \A i \in DOMAIN s : n < s[i]

\* The head of a rising sequence lies below the rest, which is rising.
LEMMA RisingTail ==
  ASSUME NEW s \in Seq(Nat), s # <<>>
  PROVE  /\ Head(s) = s[1] /\ 1 \in DOMAIN s
         /\ \A i \in DOMAIN Tail(s) : i + 1 \in DOMAIN s /\ Tail(s)[i] = s[i + 1]
         /\ Rising(s) => Rising(Tail(s)) /\ Above(Head(s), Tail(s))
<1>1. Len(s) \in Nat \ {0} /\ DOMAIN s = 1 .. Len(s)
  BY LenProperties, EmptySeq
<1>2. Head(s) = s[1] /\ 1 \in DOMAIN s
  BY <1>1
<1>3. \A i \in DOMAIN Tail(s) : i + 1 \in DOMAIN s /\ Tail(s)[i] = s[i + 1]
  BY <1>1, HeadTailProperties, LenProperties
<1>4. DOMAIN Tail(s) = 1 .. Len(s) - 1
  BY <1>1, HeadTailProperties, LenProperties
<1>5. ASSUME Rising(s)
      PROVE  Rising(Tail(s)) /\ Above(Head(s), Tail(s))
  <2>1. ASSUME NEW i \in DOMAIN Tail(s), NEW j \in DOMAIN Tail(s), i < j
        PROVE  Tail(s)[i] < Tail(s)[j]
    <3>1. i + 1 < j + 1 /\ i + 1 \in DOMAIN s /\ j + 1 \in DOMAIN s
      BY <1>1, <1>3, <1>4, <2>1
    <3>2. s[i + 1] < s[j + 1]
      BY <1>5, <3>1 DEF Rising
    <3> QED
      BY <1>3, <3>2
  <2>2. ASSUME NEW i \in DOMAIN Tail(s)
        PROVE  Head(s) < Tail(s)[i]
    <3>1. 1 < i + 1 /\ i + 1 \in DOMAIN s
      BY <1>1, <1>3, <1>4
    <3>2. s[1] < s[i + 1]
      BY <1>2, <1>5, <3>1 DEF Rising
    <3> QED
      BY <1>2, <1>3, <3>2
  <2> QED
    BY <2>1, <2>2 DEF Rising, Above
<1> QED
  BY <1>2, <1>3, <1>5

\* What Append adds.
LEMMA AppendElements ==
  ASSUME NEW s \in Seq(Nat), NEW n \in Nat
  PROVE  /\ \A i \in DOMAIN Append(s, n) :
               (i \in DOMAIN s /\ Append(s, n)[i] = s[i]) \/ Append(s, n)[i] = n
         /\ Rising(s) /\ Under(s, n) => Rising(Append(s, n))
<1>1. Len(s) \in Nat /\ DOMAIN s = 1 .. Len(s)
  BY LenProperties
<1>2. /\ DOMAIN Append(s, n) = 1 .. Len(s) + 1
      /\ \A i \in 1 .. Len(s) : Append(s, n)[i] = s[i]
      /\ Append(s, n)[Len(s) + 1] = n
  BY AppendProperties, LenProperties
<1>3. \A i \in 1 .. Len(s) + 1 : i \in 1 .. Len(s) \/ i = Len(s) + 1
  BY <1>1
<1>4. ASSUME Rising(s), Under(s, n),
             NEW i \in 1 .. Len(s) + 1, NEW j \in 1 .. Len(s) + 1, i < j
      PROVE  Append(s, n)[i] < Append(s, n)[j]
  <2>1. i \in 1 .. Len(s) /\ (j \in 1 .. Len(s) \/ j = Len(s) + 1)
    BY <1>1, <1>4
  <2>2. i \in DOMAIN s /\ (j \in DOMAIN s \/ j = Len(s) + 1)
    BY <1>1, <2>1
  <2> QED
    BY <1>2, <1>4, <2>1, <2>2 DEF Rising, Under
<1>5. Rising(s) /\ Under(s, n) => Rising(Append(s, n))
  BY <1>2, <1>4 DEF Rising
<1> QED
  BY <1>1, <1>2, <1>3, <1>5

\* A prefix of a rising sequence is rising.
LEMMA PrefixElements ==
  ASSUME NEW s \in Seq(Nat), NEW k \in 0 .. Len(s)
  PROVE  /\ \A i \in DOMAIN SubSeq(s, 1, k) :
               i \in DOMAIN s /\ SubSeq(s, 1, k)[i] = s[i]
         /\ Rising(s) => Rising(SubSeq(s, 1, k))
<1>1. Len(s) \in Nat /\ DOMAIN s = 1 .. Len(s) /\ \A i \in 1 .. k : s[i] \in Nat
  BY LenProperties, ElementOfSeq
<1>2. /\ DOMAIN SubSeq(s, 1, k) = 1 .. k
      /\ \A i \in 1 .. k : SubSeq(s, 1, k)[i] = s[i]
  BY <1>1, SubSeqProperties, LenProperties
<1>3. \A i \in 1 .. k : i \in DOMAIN s
  BY <1>1
<1>4. ASSUME Rising(s), NEW i \in 1 .. k, NEW j \in 1 .. k, i < j
      PROVE  SubSeq(s, 1, k)[i] < SubSeq(s, 1, k)[j]
  <2>1. s[i] < s[j]
    BY <1>3, <1>4 DEF Rising
  <2> QED
    BY <1>2, <2>1
<1>5. Rising(s) => Rising(SubSeq(s, 1, k))
  BY <1>2, <1>4 DEF Rising
<1> QED
  BY <1>2, <1>3, <1>5

\* Rising sequences, one above the other, make a rising sequence.
LEMMA ConcatRising ==
  ASSUME NEW s \in Seq(Nat), NEW t \in Seq(Nat)
  PROVE  /\ s \o t \in Seq(Nat)
         /\ \A i \in DOMAIN (s \o t) :
               \/ \E j \in DOMAIN s : (s \o t)[i] = s[j]
               \/ \E j \in DOMAIN t : (s \o t)[i] = t[j]
         /\ Rising(s) /\ Rising(t) /\ Apart(s, t) => Rising(s \o t)
<1>1. /\ Len(s) \in Nat /\ DOMAIN s = 1 .. Len(s)
      /\ Len(t) \in Nat /\ DOMAIN t = 1 .. Len(t)
  BY LenProperties
<1>2. /\ s \o t \in Seq(Nat)
      /\ DOMAIN (s \o t) = 1 .. Len(s) + Len(t)
      /\ \A i \in 1 .. Len(s) + Len(t) :
            (s \o t)[i] = IF i <= Len(s) THEN s[i] ELSE t[i - Len(s)]
  BY ConcatProperties, LenProperties
<1>3. ASSUME Rising(s), Rising(t), Apart(s, t),
             NEW i \in 1 .. Len(s) + Len(t), NEW j \in 1 .. Len(s) + Len(t), i < j
      PROVE  (s \o t)[i] < (s \o t)[j]
  <2>1. i \in Int /\ j \in Int /\ 1 <= i /\ 1 <= j /\ j <= Len(s) + Len(t)
    BY <1>1
  <2>2. /\ (s \o t)[i] = IF i <= Len(s) THEN s[i] ELSE t[i - Len(s)]
        /\ (s \o t)[j] = IF j <= Len(s) THEN s[j] ELSE t[j - Len(s)]
    BY <1>2
  <2>3. CASE j <= Len(s)
    <3>1. i \in DOMAIN s /\ j \in DOMAIN s /\ i <= Len(s)
      BY <1>1, <1>3, <2>1, <2>3
    <3> QED
      BY <1>3, <2>2, <2>3, <3>1 DEF Rising
  <2>4. CASE i <= Len(s) /\ j > Len(s)
    <3>1. i \in DOMAIN s /\ j - Len(s) \in DOMAIN t /\ ~(j <= Len(s))
      BY <1>1, <2>1, <2>4
    <3> QED
      BY <1>3, <2>2, <2>4, <3>1 DEF Apart
  <2>5. CASE i > Len(s)
    <3>1. /\ i - Len(s) \in DOMAIN t /\ j - Len(s) \in DOMAIN t
          /\ i - Len(s) < j - Len(s) /\ ~(i <= Len(s)) /\ ~(j <= Len(s))
      BY <1>1, <1>3, <2>1, <2>5
    <3> QED
      BY <1>3, <2>2, <3>1 DEF Rising
  <2>6. j <= Len(s) \/ (i <= Len(s) /\ j > Len(s)) \/ i > Len(s)
    BY <1>1, <2>1
  <2> QED
    BY <2>3, <2>4, <2>5, <2>6
<1>4. \A i \in DOMAIN (s \o t) :
         \/ \E j \in DOMAIN s : (s \o t)[i] = s[j]
         \/ \E j \in DOMAIN t : (s \o t)[i] = t[j]
  <2> SUFFICES ASSUME NEW i \in 1 .. Len(s) + Len(t)
               PROVE  \/ \E j \in DOMAIN s : (s \o t)[i] = s[j]
                      \/ \E j \in DOMAIN t : (s \o t)[i] = t[j]
    BY <1>2
  <2>1. CASE i <= Len(s)
    BY <1>1, <1>2, <2>1
  <2>2. CASE i > Len(s)
    <3>1. i - Len(s) \in DOMAIN t /\ (s \o t)[i] = t[i - Len(s)]
      BY <1>1, <1>2, <2>2
    <3> QED
      BY <3>1
  <2> QED
    BY <1>1, <2>1, <2>2
<1>5. Rising(s) /\ Rising(t) /\ Apart(s, t) => Rising(s \o t)
  <2> SUFFICES ASSUME Rising(s), Rising(t), Apart(s, t)
               PROVE  \A i, j \in 1 .. Len(s) + Len(t) :
                         i < j => (s \o t)[i] < (s \o t)[j]
    BY <1>2 DEF Rising
  <2> QED
    BY <1>3
<1> QED
  BY <1>2, <1>4, <1>5

-----------------------------------------------------------------------------
(* The order of what is consumed, queued, in hand and on its way *)

Sorted ==
    /\ Rising(inbox)
    /\ InHand => Above(msg, inbox)
    /\ \A c \in Client :
          /\ Rising(buf[c])
          /\ Above(last[c], buf[c]) /\ Above(last[c], inbox)
          /\ Apart(buf[c], inbox)
          /\ last[c] <= Len(published) /\ Under(buf[c], Len(published) + 1)
          /\ InHandFor(c) => last[c] < msg /\ Under(buf[c], msg)

\* A client's own steps: it consumes the head of its queue, or drops it.
LEMMA ClientSorted ==
  ASSUME TypeOK, Sorted, NEW c \in Client, ClientStep(c)
  PROVE  Sorted'
<1> USE DEF TypeOK
<1>1. CASE Receive(c)
  <2>1. /\ buf[c] \in Seq(Nat) /\ buf[c] # <<>>
        /\ last' = [last EXCEPT ![c] = Head(buf[c])]
        /\ buf' = [buf EXCEPT ![c] = Tail(buf[c])]
        /\ UNCHANGED <<inbox, published, stage, msg, targets, target>>
    BY <1>1 DEF Receive, noteVars, handlerVars
  <2>2. /\ Head(buf[c]) = buf[c][1] /\ 1 \in DOMAIN buf[c]
        /\ \A i \in DOMAIN Tail(buf[c]) :
              i + 1 \in DOMAIN buf[c] /\ Tail(buf[c])[i] = buf[c][i + 1]
        /\ Rising(Tail(buf[c])) /\ Above(Head(buf[c]), Tail(buf[c]))
    BY <2>1, RisingTail DEF Sorted
  <2>3. /\ Above(Head(buf[c]), inbox) /\ Apart(Tail(buf[c]), inbox)
        /\ Head(buf[c]) <= Len(published)
        /\ Under(Tail(buf[c]), Len(published) + 1)
        /\ InHandFor(c) => Head(buf[c]) < msg /\ Under(Tail(buf[c]), msg)
    <3>1. Len(published) \in Nat /\ Head(buf[c]) \in Nat
      BY <2>1, LenProperties, HeadTailProperties
    <3> QED
      BY <2>2, <3>1 DEF Sorted, Above, Apart, Under
  <2>4. \A d \in Client : InHandFor(d)' <=> InHandFor(d)
    BY <2>1 DEF InHandFor, Serving
  <2> QED
    BY <2>1, <2>2, <2>3, <2>4 DEF Sorted, InHand
<1>2. CASE DropListen(c) \/ CloseReceiver(c)
  <2>1. /\ buf' = [buf EXCEPT ![c] = <<>>]
        /\ UNCHANGED <<inbox, published, last, stage, msg, targets, target>>
    BY <1>2 DEF DropListen, CloseReceiver, noteVars, handlerVars
  <2>2. \A d \in Client : InHandFor(d)' <=> InHandFor(d)
    BY <2>1 DEF InHandFor, Serving
  <2>3. DOMAIN <<>> = {}
    OBVIOUS
  <2> QED
    BY <2>1, <2>2, <2>3 DEF Sorted, InHand, Rising, Above, Apart, Under
<1>3. CASE ~(Receive(c) \/ DropListen(c) \/ CloseReceiver(c))
  <2>1. UNCHANGED <<inbox, published, buf, last, stage, msg, targets, target>>
    BY <1>3 DEF ClientStep, CallStep, ListenMany, UnlistenMany, ListenLocked,
       ExecuteListen, ListenReturns, ListenFails, UnlistenLocked, RecheckLocked,
       Recheck, ExecuteUnlisten, UnlistenReturns, UnlistenFails, noteVars,
       handlerVars, queueVars
  <2> QED
    BY <2>1 DEF Sorted, InHand, InHandFor, Serving
<1> QED
  BY <1>1, <1>2, <1>3

\* The session adds a notification with the highest number, or loses the latest.
LEMMA SessionSorted ==
  ASSUME TypeOK, Numbered, Sorted, SessionStep
  PROVE  Sorted'
<1> USE DEF TypeOK
<1>1. UNCHANGED <<buf, last, stage, msg, targets, target>>
  BY DEF SessionStep, ConnectionLost, Notify, OrphanListen, handlerVars, queueVars
<1>2. \A d \in Client : InHandFor(d)' <=> InHandFor(d)
  BY <1>1 DEF InHandFor, Serving
<1>3. Len(published) \in Nat /\ DOMAIN published = 1 .. Len(published)
  BY LenProperties
<1>4. ASSUME NEW ch \in Channel, Notify(ch)
      PROVE  Sorted'
  <2> DEFINE n == Len(published) + 1
  <2>1. Len(published') = n /\ n \in Nat
    BY <1>3, <1>4, AppendProperties DEF Notify
  <2>2. Under(inbox, n) /\ (InHand => msg < n)
    BY <1>3 DEF Numbered, Under
  <2>3. \A c \in Client : /\ last[c] < n /\ last[c] <= n
                          /\ Under(buf[c], n) /\ Under(buf[c], n + 1)
    <3> SUFFICES ASSUME NEW c \in Client
                 PROVE  last[c] < n /\ last[c] <= n /\ Under(buf[c], n + 1)
      BY DEF Sorted
    <3>1. \A i \in DOMAIN buf[c] : buf[c][i] \in Nat
      BY LenProperties, ElementOfSeq
    <3> QED
      BY <1>3, <3>1 DEF Sorted, Under
  <2>4. CASE inbox' = inbox
    BY <1>1, <1>2, <2>1, <2>3, <2>4 DEF Sorted, InHand
  <2>5. CASE inbox' = Append(inbox, n)
    <3>1. /\ \A i \in DOMAIN inbox' :
                (i \in DOMAIN inbox /\ inbox'[i] = inbox[i]) \/ inbox'[i] = n
          /\ Rising(inbox')
      BY <2>1, <2>2, <2>5, AppendElements DEF Sorted
    <3>2. InHand => Above(msg, inbox')
      BY <2>2, <3>1 DEF Sorted, Above
    <3>3. \A c \in Client : Above(last[c], inbox') /\ Apart(buf[c], inbox')
      BY <2>3, <3>1 DEF Sorted, Above, Apart, Under
    <3> QED
      BY <1>1, <1>2, <2>1, <2>3, <3>1, <3>2, <3>3 DEF Sorted, InHand
  <2> QED
    BY <1>4, <2>4, <2>5 DEF Notify
<1>5. CASE ConnectionLost
  <2>1. PICK k \in 0 .. Len(inbox) : inbox' = SubSeq(inbox, 1, k)
    BY <1>5 DEF ConnectionLost
  <2>2. /\ \A i \in DOMAIN inbox' : i \in DOMAIN inbox /\ inbox'[i] = inbox[i]
        /\ Rising(inbox')
    BY <2>1, PrefixElements DEF Sorted
  <2>3. InHand => Above(msg, inbox')
    BY <2>2 DEF Sorted, Above
  <2>4. \A c \in Client : Above(last[c], inbox') /\ Apart(buf[c], inbox')
    BY <2>2 DEF Sorted, Above, Apart
  <2>5. published' = published
    BY <1>5 DEF ConnectionLost
  <2> QED
    BY <1>1, <1>2, <2>2, <2>3, <2>4, <2>5 DEF Sorted, InHand
<1>6. ASSUME NEW ch \in Channel, OrphanListen(ch)
      PROVE  Sorted'
  BY <1>1, <1>2, <1>6 DEF OrphanListen, noteVars, Sorted, InHand
<1> QED
  BY <1>4, <1>5, <1>6 DEF SessionStep

\* The handler takes the first notification, and queues it at most once for each
\* client: a client has one entry in a channel.
LEMMA HandlerSorted ==
  ASSUME TypeOK, EntriesOwned, Numbered, TargetsFiled, Sorted, HandlerStep
  PROVE  Sorted'
<1> USE DEF TypeOK
<1>1. CASE HandlerReceive
  <2>1. /\ inbox # <<>> /\ msg' = Head(inbox) /\ inbox' = Tail(inbox)
        /\ UNCHANGED <<published, buf, last>>
    BY <1>1 DEF HandlerReceive, queueVars
  <2>2. /\ Head(inbox) = inbox[1] /\ 1 \in DOMAIN inbox
        /\ \A i \in DOMAIN inbox' : i + 1 \in DOMAIN inbox /\ inbox'[i] = inbox[i + 1]
        /\ Rising(inbox') /\ Above(msg', inbox')
    BY <2>1, RisingTail DEF Sorted
  <2>3. \A c \in Client : /\ Above(last[c], inbox') /\ Apart(buf[c], inbox')
                          /\ last[c] < msg' /\ Under(buf[c], msg')
    BY <2>1, <2>2 DEF Sorted, Above, Apart, Under
  <2> QED
    BY <2>1, <2>2, <2>3 DEF Sorted
<1>2. ASSUME UNCHANGED <<inbox, published, buf, last>>, InHand' => InHand /\ msg' = msg,
             \A c \in Client : InHandFor(c)' => InHandFor(c) /\ msg' = msg
      PROVE  Sorted'
  BY <1>2 DEF Sorted
<1>3. CASE HandlerLocked
  <2>1. \/ stage' = "recv" /\ targets' = {} /\ target' = target
        \/ stage' = "distribute" /\ msg' = msg
    BY <1>3 DEF HandlerLocked
  <2>2. target = {} /\ stage = "distLock" /\ UNCHANGED <<inbox, published, buf, last>>
    BY <1>3 DEF HandlerLocked, TargetsFiled, noteVars, queueVars
  <2> QED
    BY <1>2, <2>1, <2>2 DEF InHand, InHandFor, Serving
<1>4. ASSUME NEW entry \in targets, SendNext(entry)
      PROVE  Sorted'
  BY <1>2, <1>4 DEF SendNext, noteVars, queueVars, InHand, InHandFor, Serving
<1>5. CASE SendFails
  BY <1>2, <1>5 DEF SendFails, noteVars, queueVars, InHand, InHandFor, Serving
<1>6. CASE Distributed \/ Reap \/ HandlerStops
  <2>1. /\ targets = {} /\ target = {} /\ UNCHANGED <<targets, target>>
        /\ UNCHANGED <<inbox, published, buf, last>> /\ stage' # "distLock"
        /\ InHand' => InHand /\ msg' = msg
    BY <1>6 DEF Distributed, Reap, HandlerStops, TargetsFiled, noteVars, queueVars,
                InHand
  <2> QED
    BY <1>2, <2>1 DEF InHandFor, Serving
<1>7. CASE SendDone
  <2>1. PICK entry \in target : buf' = [buf EXCEPT ![entry[2]] = Append(@, msg)]
    BY <1>7 DEF SendDone
  <2> DEFINE c == entry[2]
  <2>2. /\ c \in Client /\ stage = "sending" /\ stage' = "distribute" /\ target' = {}
        /\ UNCHANGED <<inbox, published, last, msg, targets>>
    BY <1>7, <2>1 DEF SendDone, noteVars
  <2>3. InHandFor(c) /\ InHand
    BY <2>1, <2>2 DEF InHandFor, Serving, InHand
  <2>4. /\ \A i \in DOMAIN buf'[c] :
              (i \in DOMAIN buf[c] /\ buf'[c][i] = buf[c][i]) \/ buf'[c][i] = msg
        /\ Rising(buf'[c])
    BY <2>1, <2>2, <2>3, AppendElements DEF Sorted
  <2>5. Above(last[c], buf'[c]) /\ Apart(buf'[c], inbox)
    BY <2>3, <2>4 DEF Sorted, Above, Apart
  <2>6. Under(buf'[c], Len(published) + 1)
    <3>1. msg < Len(published) + 1
      BY <2>3, LenProperties DEF Numbered
    <3> QED
      BY <2>4, <3>1 DEF Sorted, Under
  <2>7. ~InHandFor(c)'
    <3>1. Topic(msg) \in Channel
      BY <2>3, ElementOfSeq, LenProperties DEF Numbered, Topic
    <3>2. ASSUME NEW e \in targets \cup target, e[2] = c
          PROVE  e[1] = IdOf[c] /\ e = <<e[1], e[2]>>
      <4>1. e \in ClientId \X Client /\ channels[Topic(msg)][e[1]] = c
        BY <2>2, <3>2 DEF TargetsFiled
      <4> QED
        BY <2>2, <3>1, <4>1 DEF EntriesOwned
    <3>3. ASSUME NEW e \in targets, e[2] = c
          PROVE  e = entry
      <4>1. e[1] = entry[1] /\ e = <<e[1], c>> /\ entry = <<entry[1], c>>
        BY <2>1, <3>2, <3>3
      <4> QED
        BY <4>1
    <3> QED
      BY <2>1, <2>2, <3>3 DEF InHandFor, Serving, TargetsFiled
  <2>8. \A d \in Client : d # c => /\ buf'[d] = buf[d]
                                   /\ InHandFor(d)' => InHandFor(d)
    BY <2>1, <2>2 DEF InHandFor, Serving
  <2> HIDE DEF c
  <2> QED
    BY <2>2, <2>3, <2>4, <2>5, <2>6, <2>7, <2>8 DEF Sorted
<1> QED
  BY <1>1, <1>3, <1>4, <1>5, <1>6, <1>7 DEF HandlerStep

\* What is sorted is in order when it is put together.
LEMMA SortedInOrder ==
  ASSUME TypeOK, TargetsFiled, Sorted
  PROVE  InOrder
<1> USE DEF TypeOK
<1> SUFFICES ASSUME NEW c \in Client
             PROVE  StrictlyIncreasing(<<last[c]>> \o buf[c]
                       \o (IF InHandFor(c) THEN <<msg>> ELSE <<>>) \o inbox)
  BY DEF InOrder
<1> DEFINE hand == IF InHandFor(c) THEN <<msg>> ELSE <<>>
           one == <<last[c]>>
           two == one \o buf[c]
           three == two \o hand
           four == three \o inbox
<1>1. one \in Seq(Nat) /\ hand \in Seq(Nat) /\ buf[c] \in Seq(Nat)
      /\ inbox \in Seq(Nat)
  OBVIOUS
<1>2. Rising(one) /\ \A i \in DOMAIN one : one[i] = last[c]
  BY DEF Rising
<1>3. Rising(hand) /\ \A i \in DOMAIN hand : InHandFor(c) /\ hand[i] = msg
  BY DEF Rising
<1> HIDE DEF TypeOK, one, hand
<1>4. two \in Seq(Nat) /\ Rising(two)
      /\ \A i \in DOMAIN two : two[i] = last[c] \/ \E j \in DOMAIN buf[c] : two[i] = buf[c][j]
  <2>1. Rising(buf[c]) /\ Apart(one, buf[c])
    BY <1>2 DEF Sorted, Above, Apart
  <2>2. /\ two \in Seq(Nat) /\ Rising(two)
        /\ \A i \in DOMAIN two : \/ \E j \in DOMAIN one : two[i] = one[j]
                                 \/ \E j \in DOMAIN buf[c] : two[i] = buf[c][j]
    BY <1>1, <1>2, <2>1, ConcatRising
  <2> HIDE DEF two
  <2> QED
    BY <1>2, <2>2
<1> HIDE DEF two
<1>5. three \in Seq(Nat) /\ Rising(three)
      /\ \A i \in DOMAIN three : \/ \E j \in DOMAIN two : three[i] = two[j]
                                 \/ InHandFor(c) /\ three[i] = msg
  <2>1. Apart(two, hand)
    BY <1>3, <1>4 DEF Sorted, Under, Apart
  <2>2. /\ three \in Seq(Nat) /\ Rising(three)
        /\ \A i \in DOMAIN three : \/ \E j \in DOMAIN two : three[i] = two[j]
                                   \/ \E j \in DOMAIN hand : three[i] = hand[j]
    BY <1>1, <1>3, <1>4, <2>1, ConcatRising
  <2> HIDE DEF three
  <2> QED
    BY <1>3, <2>2
<1> HIDE DEF three
<1>6. four \in Seq(Nat) /\ Rising(four)
  <2>1. InHandFor(c) => InHand
    BY DEF InHandFor, InHand, Serving, TargetsFiled
  <2>2. Apart(three, inbox)
    <3>1. Apart(two, inbox)
      BY <1>4 DEF Sorted, Above, Apart
    <3>2. InHandFor(c) => Above(msg, inbox)
      BY <2>1 DEF Sorted
    <3> QED
      BY <1>5, <3>1, <3>2 DEF Above, Apart
  <2>3. Rising(inbox)
    BY DEF Sorted
  <2> QED
    BY <1>1, <1>5, <2>2, <2>3, ConcatRising
<1> HIDE DEF four
<1>7. StrictlyIncreasing(four)
  BY <1>6, LenProperties DEF Rising, StrictlyIncreasing
<1> QED
  BY <1>7 DEF four, three, two, one, hand

\* Every client consumes notifications in the order they were committed, and none
\* twice, whatever is subscribed, dropped, lost or reaped meanwhile, and even if
\* two clients share an id.
THEOREM AlwaysInOrder == Spec => []InOrder
<1>1. Init => Sorted
  BY DEF Init, Sorted, Rising, Above, Apart, Under, InHand, InHandFor, Serving
<1>2. TypeOK /\ EntriesOwned /\ Numbered /\ TargetsFiled /\ Sorted /\ [Next]_vars
      => Sorted'
  <2>1. UNCHANGED vars /\ Sorted => Sorted'
    BY DEF vars, noteVars, handlerVars, queueVars, Sorted, InHand, InHandFor, Serving
  <2> QED
    BY <2>1, ClientSorted, HandlerSorted, SessionSorted DEF Next
<1>3. TypeOK /\ TargetsFiled /\ Sorted => InOrder
  BY SortedInOrder
<1> QED
  BY <1>1, <1>2, <1>3, TypeCorrect, EntriesAreOwned, TargetsStay, PTL DEF Spec

=============================================================================
