---------------------------- MODULE ProgressProofs ----------------------------
(***************************************************************************)
(* Who waits for whom: no task of the bridge waits for ever, unless in the *)
(* one cycle of lock and queue that Stalled describes, or for PostgreSQL   *)
(* or a peer.                                                              *)
(***************************************************************************)
EXTENDS BridgeProofs

-----------------------------------------------------------------------------
(* The lock's queue *)

\* t has asked for the lock and has not got it yet.
WantsLock(t) ==
    IF t = Handler THEN stage \in {"distLock", "reapLock"}
    ELSE pc[t] \in {"listenLock", "unlistenLock", "recheckLock"}

\* The tasks queued for the lock are those that want it, each once.
InLine ==
    /\ \A t \in Task : Queued(t) <=> WantsLock(t)
    /\ \A i, j \in DOMAIN waiting : waiting[i] = waiting[j] => i = j

\* What only one task's step does to the others' wants: nothing.
OnlyOf(t) == \A u \in Task \ {t} : WantsLock(u)' <=> WantsLock(u)

\* What is left of a sequence without its k-th element.
LEMMA WithoutAt ==
  ASSUME NEW S, NEW w \in Seq(S), NEW k \in 1 .. Len(w), NEW u,
         u = SubSeq(w, 1, k - 1) \o SubSeq(w, k + 1, Len(w))
  PROVE  /\ DOMAIN u = 1 .. Len(w) - 1
         /\ \A i \in 1 .. k - 1 : u[i] = w[i]
         /\ \A i \in k .. Len(w) - 1 : u[i] = w[i + 1]
<1> DEFINE n == Len(w)
           s == SubSeq(w, 1, k - 1)
           r == SubSeq(w, k + 1, n)
<1>1. n \in Nat /\ k \in 1 .. n /\ \A i \in 1 .. n : w[i] \in S
  BY LenProperties, ElementOfSeq
<1> HIDE DEF n
<1>2. /\ s \in Seq(S) /\ Len(s) = k - 1
      /\ \A i \in 1 .. k - 1 : s[i] = w[i]
  <2>1. 1 \in Int /\ k - 1 \in Int /\ \A i \in 1 .. k - 1 : w[i] \in S
    BY <1>1
  <2>2. /\ s \in Seq(S) /\ Len(s) = IF 1 <= k - 1 THEN k - 1 - 1 + 1 ELSE 0
        /\ \A i \in 1 .. k - 1 - 1 + 1 : s[i] = w[1 + i - 1]
    BY <2>1, SubSeqProperties
  <2> QED
    BY <1>1, <2>2
<1>3. /\ r \in Seq(S) /\ Len(r) = n - k
      /\ \A i \in 1 .. n - k : r[i] = w[k + i]
  <2>1. k + 1 \in Int /\ n \in Int /\ \A i \in k + 1 .. n : w[i] \in S
    BY <1>1
  <2>2. /\ r \in Seq(S) /\ Len(r) = IF k + 1 <= n THEN n - (k + 1) + 1 ELSE 0
        /\ \A i \in 1 .. n - (k + 1) + 1 : r[i] = w[k + 1 + i - 1]
    BY <2>1, SubSeqProperties
  <2> HIDE DEF r
  <2>3. ASSUME NEW i \in 1 .. n - k
        PROVE  r[i] = w[k + i]
    <3>1. i \in 1 .. n - (k + 1) + 1 /\ k + 1 + i - 1 = k + i
      BY <1>1
    <3> QED
      BY <2>2, <3>1
  <2> QED
    BY <1>1, <2>2, <2>3
<1>4. u = s \o r
  BY DEF n
<1> HIDE DEF s, r
<1>5. /\ u \in Seq(S) /\ Len(u) = Len(s) + Len(r)
      /\ \A i \in 1 .. Len(s) + Len(r) : u[i] = IF i <= Len(s) THEN s[i]
                                                 ELSE r[i - Len(s)]
  <2>1. s \in Seq(S) /\ r \in Seq(S)
    BY <1>2, <1>3
  <2>2. /\ s \o r \in Seq(S)
        /\ Len(s \o r) = Len(s) + Len(r)
        /\ \A i \in 1 .. Len(s) + Len(r) : (s \o r)[i] = IF i <= Len(s) THEN s[i]
                                                         ELSE r[i - Len(s)]
    BY <2>1, ConcatProperties
  <2> QED
    BY <1>4, <2>2
<1>6. DOMAIN u = 1 .. n - 1
  <2>1. Len(u) = n - 1
    <3>1. n \in Int /\ k \in Int
      BY <1>1
    <3>2. (k - 1) + (n - k) = n - 1
      BY <3>1
    <3>3. Len(u) = Len(s) + Len(r) /\ Len(s) = k - 1 /\ Len(r) = n - k
      BY <1>2, <1>3, <1>5
    <3> QED
      BY <3>2, <3>3
  <2>2. DOMAIN u = 1 .. Len(u)
    BY <1>5, LenProperties, Zenon
  <2> QED
    BY <2>1, <2>2, Zenon
<1>7. ASSUME NEW i \in 1 .. k - 1
      PROVE  u[i] = w[i]
  <2>1. i \in 1 .. Len(s) + Len(r) /\ i <= Len(s)
    BY <1>1, <1>2, <1>3
  <2> QED
    BY <1>2, <1>5, <2>1
<1>8. ASSUME NEW i \in k .. n - 1
      PROVE  u[i] = w[i + 1]
  <2>1. /\ i \in 1 .. Len(s) + Len(r) /\ ~(i <= Len(s))
        /\ i - Len(s) \in 1 .. n - k /\ k + (i - Len(s)) = i + 1
    BY <1>1, <1>2, <1>3
  <2>2. u[i] = r[i - Len(s)]
    BY <1>5, <2>1
  <2>3. r[i - Len(s)] = w[k + (i - Len(s))]
    BY <1>3, <2>1
  <2> QED
    BY <2>1, <2>2, <2>3
<1> QED
  BY <1>6, <1>7, <1>8 DEF n

\* The queue is a finite sequence of tasks.
LEMMA Line ==
  ASSUME TypeOK
  PROVE  /\ Len(waiting) \in Nat
         /\ DOMAIN waiting = 1 .. Len(waiting)
         /\ \A i \in 1 .. Len(waiting) : waiting[i] \in Task
  BY LenProperties, ElementOfSeq DEF TypeOK

\* A task asks for the lock.
LEMMA JoinsLine ==
  ASSUME TypeOK, InLine, NEW t \in Task, ~WantsLock(t), WantsLock(t)', OnlyOf(t),
         waiting' = Append(waiting, t)
  PROVE  InLine'
<1> DEFINE n == Len(waiting)
<1>1. n \in Nat /\ DOMAIN waiting = 1 .. n
  BY Line
<1>2. /\ DOMAIN waiting' = 1 .. n + 1
      /\ \A i \in 1 .. n : waiting'[i] = waiting[i]
      /\ waiting'[n + 1] = t
  BY <1>1, AppendProperties, LenProperties DEF TypeOK
<1>3. \A i \in 1 .. n : waiting[i] # t
  BY <1>1 DEF InLine, Queued
<1> HIDE DEF n
<1>4. \A u \in Task : Queued(u)' <=> Queued(u) \/ u = t
  BY <1>1, <1>2 DEF Queued
<1>5. \A i, j \in DOMAIN waiting' : waiting'[i] = waiting'[j] => i = j
  BY <1>1, <1>2, <1>3 DEF InLine
<1> QED
  BY <1>4, <1>5 DEF InLine, OnlyOf

\* The head of the queue gets the lock.
LEMMA LeavesLine ==
  ASSUME TypeOK, InLine, NEW t \in Task, CanRead(t), ~WantsLock(t)', OnlyOf(t),
         waiting' = Tail(waiting)
  PROVE  InLine'
<1> DEFINE n == Len(waiting)
<1>1. n \in Nat /\ DOMAIN waiting = 1 .. n
  BY Line
<1>2. /\ waiting[1] = t /\ n >= 1
      /\ DOMAIN waiting' = 1 .. n - 1
      /\ \A i \in 1 .. n - 1 : waiting'[i] = waiting[i + 1]
  BY <1>1, HeadTailProperties, LenProperties, EmptySeq DEF TypeOK, CanRead
<1> HIDE DEF n
<1>3. \A i \in 2 .. n : waiting[i] # t
  BY <1>1, <1>2 DEF InLine
<1>4. \A u \in Task : Queued(u)' <=> Queued(u) /\ u # t
  <2>1. ASSUME NEW u \in Task, Queued(u)'
        PROVE  Queued(u) /\ u # t
    <3>1. PICK i \in 1 .. n - 1 : waiting[i + 1] = u
      BY <1>2, <2>1 DEF Queued
    <3>2. i + 1 \in 2 .. n
      BY <1>1, <3>1
    <3> QED
      BY <1>1, <1>3, <3>1, <3>2 DEF Queued
  <2>2. ASSUME NEW u \in Task, Queued(u), u # t
        PROVE  Queued(u)'
    <3>1. PICK i \in 1 .. n : waiting[i] = u
      BY <1>1, <2>2 DEF Queued
    <3>2. i - 1 \in 1 .. n - 1 /\ (i - 1) + 1 = i
      BY <1>1, <1>2, <2>2, <3>1
    <3> QED
      BY <1>2, <3>1, <3>2 DEF Queued
  <2> QED
    BY <2>1, <2>2
<1>5. \A i, j \in DOMAIN waiting' : waiting'[i] = waiting'[j] => i = j
  <2> SUFFICES ASSUME NEW i \in 1 .. n - 1, NEW j \in 1 .. n - 1,
                      waiting'[i] = waiting'[j]
               PROVE  i = j
    BY <1>2
  <2>0. waiting[i + 1] = waiting[j + 1]
    BY <1>2
  <2>1. i + 1 \in 1 .. n /\ j + 1 \in 1 .. n
    BY <1>1
  <2>2. i + 1 = j + 1
    BY <1>1, <2>0, <2>1 DEF InLine
  <2> QED
    BY <2>2
<1> QED
  BY <1>4, <1>5 DEF InLine, OnlyOf

\* The head of the queue gets the lock, is done with it and asks again.
LEMMA RejoinsLine ==
  ASSUME TypeOK, InLine, NEW t \in Task, CanRead(t), WantsLock(t), WantsLock(t)',
         OnlyOf(t), waiting' = Append(Tail(waiting), t)
  PROVE  InLine'
<1> DEFINE n == Len(waiting)
<1>1. n \in Nat /\ DOMAIN waiting = 1 .. n
  BY Line
<1>2. /\ waiting[1] = t /\ n >= 1
      /\ Tail(waiting) \in Seq(Task) /\ Len(Tail(waiting)) = n - 1
      /\ \A i \in 1 .. n - 1 : Tail(waiting)[i] = waiting[i + 1]
  BY <1>1, HeadTailProperties, LenProperties, EmptySeq DEF TypeOK, CanRead
<1>3. /\ DOMAIN waiting' = 1 .. n
      /\ \A i \in 1 .. n - 1 : waiting'[i] = waiting[i + 1]
      /\ waiting'[n] = t
  BY <1>1, <1>2, AppendProperties, LenProperties
<1> HIDE DEF n
<1>4. \A i \in 2 .. n : waiting[i] # t
  BY <1>1, <1>2 DEF InLine
<1>5. \A u \in Task : Queued(u)' <=> Queued(u)
  <2>1. ASSUME NEW u \in Task, Queued(u)'
        PROVE  Queued(u)
    <3>1. PICK i \in 1 .. n : waiting'[i] = u
      BY <1>3, <2>1 DEF Queued
    <3>2. CASE i = n
      BY <1>1, <1>2, <1>3, <3>1, <3>2 DEF Queued
    <3>3. CASE i # n
      <4>1. i \in 1 .. n - 1 /\ i + 1 \in 1 .. n
        BY <1>1, <3>3
      <4> QED
        BY <1>1, <1>3, <3>1, <4>1 DEF Queued
    <3> QED
      BY <3>2, <3>3
  <2>2. ASSUME NEW u \in Task, Queued(u)
        PROVE  Queued(u)'
    <3>1. PICK i \in 1 .. n : waiting[i] = u
      BY <1>1, <2>2 DEF Queued
    <3>2. CASE i = 1
      BY <1>1, <1>2, <1>3, <3>1, <3>2 DEF Queued
    <3>3. CASE i # 1
      <4>1. i - 1 \in 1 .. n - 1 /\ i - 1 \in 1 .. n /\ (i - 1) + 1 = i
        BY <1>1, <3>3
      <4> QED
        BY <1>3, <3>1, <4>1 DEF Queued
    <3> QED
      BY <3>2, <3>3
  <2> QED
    BY <2>1, <2>2
<1>6. \A i, j \in DOMAIN waiting' : waiting'[i] = waiting'[j] => i = j
  <2> SUFFICES ASSUME NEW i \in 1 .. n, NEW j \in 1 .. n, waiting'[i] = waiting'[j]
               PROVE  i = j
    BY <1>3
  <2>1. ASSUME NEW k \in 1 .. n, k # n
        PROVE  /\ k \in 1 .. n - 1 /\ k + 1 \in 2 .. n /\ k + 1 \in 1 .. n
               /\ waiting'[k] = waiting[k + 1]
    BY <1>1, <1>3, <2>1
  <2>2. CASE i # n /\ j # n
    BY <1>1, <2>1, <2>2 DEF InLine
  <2>3. CASE i = n \/ j = n
    BY <1>3, <1>4, <2>1, <2>3
  <2> QED
    BY <2>2, <2>3
<1> QED
  BY <1>5, <1>6 DEF InLine, OnlyOf

\* A task that is dropped leaves the queue wherever it stands.
LEMMA StepsOut ==
  ASSUME TypeOK, InLine, NEW t \in Task, ~WantsLock(t)', OnlyOf(t),
         NEW k \in DOMAIN waiting, waiting[k] = t,
         waiting' = SubSeq(waiting, 1, k - 1) \o SubSeq(waiting, k + 1, Len(waiting))
  PROVE  InLine'
<1> DEFINE n == Len(waiting)
<1>1. n \in Nat /\ DOMAIN waiting = 1 .. n /\ k \in 1 .. n
  BY Line
<1>2. /\ DOMAIN waiting' = 1 .. n - 1
      /\ \A i \in 1 .. k - 1 : waiting'[i] = waiting[i]
      /\ \A i \in k .. n - 1 : waiting'[i] = waiting[i + 1]
  <2>1. waiting \in Seq(Task) /\ k \in 1 .. Len(waiting)
    BY <1>1 DEF TypeOK
  <2> QED
    BY <2>1, WithoutAt
<1> HIDE DEF n
<1>3. \A i \in 1 .. n : i # k => waiting[i] # t
  BY <1>1 DEF InLine
<1>4. \A u \in Task : Queued(u)' <=> Queued(u) /\ u # t
  <2>1. ASSUME NEW u \in Task, Queued(u)'
        PROVE  Queued(u) /\ u # t
    <3>1. PICK i \in 1 .. n - 1 : waiting'[i] = u
      BY <1>2, <2>1 DEF Queued
    <3>2. CASE i < k
      <4>1. n \in Nat /\ k \in 1 .. n
        BY <1>1
      <4>2. i \in 1 .. k - 1
        BY <3>2, <4>1
      <4>3. i \in 1 .. n /\ i # k
        BY <3>2, <4>1
      <4>4. waiting[i] = u
        BY <1>2, <3>1, <4>2
      <4>5. Queued(u)
        BY <1>1, <4>3, <4>4, Zenon DEF Queued
      <4>6. u # t
        BY <1>3, <4>3, <4>4, Zenon
      <4> QED
        BY <4>5, <4>6
    <3>3. CASE ~(i < k)
      <4>1. i \in k .. n - 1 /\ i + 1 \in 1 .. n /\ i + 1 # k
        BY <1>1, <3>3
      <4> QED
        BY <1>1, <1>2, <1>3, <3>1, <4>1 DEF Queued
    <3> QED
      BY <3>2, <3>3
  <2>2. ASSUME NEW u \in Task, Queued(u), u # t
        PROVE  Queued(u)'
    <3>1. PICK i \in 1 .. n : waiting[i] = u
      BY <1>1, <2>2 DEF Queued
    <3>2. CASE i < k
      <4>1. i \in 1 .. k - 1 /\ i \in 1 .. n - 1
        BY <1>1, <3>2
      <4> QED
        BY <1>2, <3>1, <4>1 DEF Queued
    <3>3. CASE ~(i < k)
      <4>1. i # k
        BY <2>2, <3>1
      <4>2. i - 1 \in k .. n - 1 /\ i - 1 \in 1 .. n - 1 /\ (i - 1) + 1 = i
        BY <1>1, <3>3, <4>1
      <4> QED
        BY <1>2, <3>1, <4>2 DEF Queued
    <3> QED
      BY <3>2, <3>3
  <2> QED
    BY <2>1, <2>2
<1>5. ASSUME NEW i \in 1 .. n - 1, NEW j \in 1 .. n - 1, waiting'[i] = waiting'[j]
      PROVE  i = j
  <2>1. ASSUME NEW m \in 1 .. n - 1
        PROVE  \E a \in 1 .. n : /\ waiting'[m] = waiting[a]
                                 /\ ((m < k /\ a = m) \/ (m >= k /\ a = m + 1))
    <3>1. CASE m < k
      <4>1. m \in 1 .. k - 1 /\ m \in 1 .. n
        BY <1>1, <3>1
      <4> QED
        BY <1>2, <3>1, <4>1
    <3>2. CASE ~(m < k)
      <4> DEFINE a == m + 1
      <4>1. m \in k .. n - 1 /\ a \in 1 .. n /\ m >= k /\ a = m + 1
        BY <1>1, <3>2
      <4>2. waiting'[m] = waiting[a]
        BY <1>2, <4>1
      <4> QED
        BY <4>1, <4>2
    <3> QED
      BY <3>1, <3>2
  <2>2. PICK a \in 1 .. n : /\ waiting'[i] = waiting[a]
                            /\ ((i < k /\ a = i) \/ (i >= k /\ a = i + 1))
    BY <2>1
  <2>3. PICK b \in 1 .. n : /\ waiting'[j] = waiting[b]
                            /\ ((j < k /\ b = j) \/ (j >= k /\ b = j + 1))
    BY <2>1
  <2>4. a = b
    BY <1>1, <1>5, <2>2, <2>3 DEF InLine
  <2> QED
    BY <1>1, <2>2, <2>3, <2>4
<1> QED
  BY <1>2, <1>4, <1>5 DEF InLine, OnlyOf

\* A step that is not about the lock.
LEMMA StaysInLine ==
  ASSUME InLine, UNCHANGED waiting, \A u \in Task : WantsLock(u)' <=> WantsLock(u)
  PROVE  InLine'
BY DEF InLine, Queued

\* The steps of a call keep the queue in line with who wants the lock.
LEMMA ClientInLine ==
  ASSUME TypeOK, InLine, NEW c \in Client, ClientStep(c)
  PROVE  InLine'
<1> c \in Task /\ c # Handler /\ \A u \in Task : u = Handler \/ u \in Client
  BY ListenerAssumption DEF Task
<1> USE DEF WantsLock, OnlyOf
<1>1. ASSUME NEW chs \in SUBSET Channel, ListenMany(c, chs) \/ UnlistenMany(c, chs)
      PROVE  InLine'
  <2>1. /\ waiting' = Append(waiting, c) /\ Idle(c)
        /\ pc' = [pc EXCEPT ![c] = "listenLock"] \/ pc' = [pc EXCEPT ![c] = "unlistenLock"]
        /\ stage' = stage
    BY <1>1 DEF ListenMany, UnlistenMany, handlerVars
  <2>2. ~WantsLock(c) /\ WantsLock(c)' /\ OnlyOf(c)
    BY <2>1 DEF Idle, TypeOK
  <2> HIDE DEF WantsLock, OnlyOf
  <2> QED
    BY <2>1, <2>2, JoinsLine
<1>2. CASE ListenLocked(c) \/ RecheckLocked(c)
  <2>1. /\ waiting' = Tail(waiting) /\ CanRead(c)
        /\ \E p \in {"ok", "listen", "unlisten"} : pc' = [pc EXCEPT ![c] = p]
        /\ stage' = stage
    BY <1>2 DEF ListenLocked, RecheckLocked, CanWrite, handlerVars
  <2>2. ~WantsLock(c)' /\ OnlyOf(c)
    BY <2>1 DEF TypeOK
  <2> HIDE DEF WantsLock, OnlyOf
  <2> QED
    BY <2>1, <2>2, LeavesLine
<1>3. CASE UnlistenLocked(c)
  <2>1. /\ waiting' = Append(Tail(waiting), c) /\ CanRead(c)
        /\ pc[c] = "unlistenLock" /\ pc' = [pc EXCEPT ![c] = "recheckLock"]
        /\ stage' = stage
    BY <1>3 DEF UnlistenLocked, CanWrite, handlerVars
  <2>2. WantsLock(c) /\ WantsLock(c)' /\ OnlyOf(c)
    BY <2>1 DEF TypeOK
  <2> HIDE DEF WantsLock, OnlyOf
  <2> QED
    BY <2>1, <2>2, RejoinsLine
<1>4. CASE DropListen(c)
  <2>1. pc' = [pc EXCEPT ![c] = "err"] /\ stage' = stage
    BY <1>4 DEF DropListen, handlerVars
  <2>2. CASE pc[c] = "listenLock"
    <3>1. ~WantsLock(c)' /\ OnlyOf(c)
      BY <2>1 DEF TypeOK
    <3>2. PICK k \in DOMAIN waiting :
             /\ waiting[k] = c
             /\ waiting' = SubSeq(waiting, 1, k - 1)
                           \o SubSeq(waiting, k + 1, Len(waiting))
      BY <1>4, <2>2 DEF DropListen
    <3> HIDE DEF WantsLock, OnlyOf
    <3> QED
      BY <3>1, <3>2, StepsOut
  <2>3. CASE pc[c] = "listen"
    <3>1. /\ UNCHANGED waiting
          /\ \A u \in Task : WantsLock(u)' <=> WantsLock(u)
      BY <1>4, <2>1, <2>3 DEF DropListen, TypeOK
    <3> HIDE DEF WantsLock, OnlyOf
    <3> QED
      BY <3>1, StaysInLine
  <2> QED
    BY <1>4, <2>2, <2>3 DEF DropListen
<1>5. ASSUME \/ ListenReturns(c) \/ ListenFails(c) \/ ExecuteUnlisten(c)
             \/ UnlistenReturns(c) \/ UnlistenFails(c)
             \/ \E ch \in Channel : ExecuteListen(c, ch) \/ Recheck(c, ch)
             \/ Receive(c) \/ CloseReceiver(c)
      PROVE  InLine'
  <2>1. /\ UNCHANGED <<waiting, stage>>
        /\ \/ UNCHANGED pc
           \/ /\ pc[c] \in {"listen", "unlisten"}
              /\ pc' = [pc EXCEPT ![c] = "ok"] \/ pc' = [pc EXCEPT ![c] = "err"]
    BY <1>5 DEF ListenReturns, ListenFails, ExecuteUnlisten, UnlistenReturns,
                UnlistenFails, ExecuteListen, Recheck, Receive, CloseReceiver,
                lockVars, handlerVars, callVars
  <2>2. \A u \in Task : WantsLock(u)' <=> WantsLock(u)
    BY <2>1 DEF TypeOK
  <2> HIDE DEF WantsLock, OnlyOf
  <2> QED
    BY <2>1, <2>2, StaysInLine
<1> QED
  BY <1>1, <1>2, <1>3, <1>4, <1>5 DEF ClientStep, CallStep

\* So do the steps of the handler ...
LEMMA HandlerInLine ==
  ASSUME TypeOK, InLine, HandlerStep
  PROVE  InLine'
<1> DEFINE Waits == stage \in {"distLock", "reapLock"}
<1>1. Handler \in Task /\ UNCHANGED pc /\ OnlyOf(Handler) /\ (WantsLock(Handler) <=> Waits)
      /\ (WantsLock(Handler)' <=> Waits')
  <2>1. UNCHANGED pc
    BY OthersEffect DEF callVars
  <2> QED
    BY <2>1 DEF Task, OnlyOf, WantsLock
<1>2. CASE HandlerReceive
  BY <1>1, <1>2, JoinsLine DEF HandlerReceive
<1>3. CASE HandlerLocked
  BY <1>1, <1>3, LeavesLine DEF HandlerLocked
<1>4. CASE Reap
  BY <1>1, <1>4, LeavesLine DEF Reap, CanWrite
<1>5. CASE Distributed
  <2>1. CASE waiting' = waiting /\ stage' = "recv"
    <3>1. \A u \in Task : WantsLock(u)' <=> WantsLock(u)
      BY <1>1, <1>5, <2>1 DEF Distributed, OnlyOf
    <3> QED
      BY <2>1, <3>1, StaysInLine
  <2>2. CASE waiting' = Append(waiting, Handler) /\ stage' = "reapLock"
    BY <1>1, <1>5, <2>2, JoinsLine DEF Distributed
  <2> QED
    BY <1>5, <2>1, <2>2 DEF Distributed
<1>6. ASSUME HandlerStops \/ SendDone \/ SendFails \/ \E entry \in targets : SendNext(entry)
      PROVE  InLine'
  <2>1. UNCHANGED waiting /\ ~Waits /\ ~Waits'
    BY <1>6 DEF HandlerStops, SendDone, SendFails, SendNext, lockVars
  <2>2. \A u \in Task : WantsLock(u)' <=> WantsLock(u)
    BY <1>1, <2>1 DEF OnlyOf
  <2> QED
    BY <2>1, <2>2, StaysInLine
<1> QED
  BY <1>2, <1>3, <1>4, <1>5, <1>6 DEF HandlerStep

\* ... and the session, which knows no lock.
LEMMA OtherInLine ==
  ASSUME InLine, SessionStep \/ UNCHANGED vars
  PROVE  InLine'
<1>1. UNCHANGED <<waiting, stage, pc>>
  BY DEF SessionStep, ConnectionLost, Notify, OrphanListen, vars, callVars, lockVars,
         handlerVars
<1>2. \A u \in Task : WantsLock(u)' <=> WantsLock(u)
  BY <1>1 DEF WantsLock
<1> QED
  BY <1>1, <1>2, StaysInLine

\* A queue never holds more than its capacity, and the handler that is sending
\* sends to somebody.
Bounded ==
    /\ \A c \in Client : Len(buf[c]) <= Capacity
    /\ stage = "sending" => target # {}

\* The bound is kept: the handler waits for a free slot.
LEMMA BoundedStep ==
  ASSUME TypeOK, Bounded, [Next]_vars
  PROVE  Bounded'
<1> USE ListenerAssumption DEF TypeOK, Bounded
<1>1. ASSUME NEW c \in Client, ClientStep(c)
      PROVE  Bounded'
  <2>1. UNCHANGED <<stage, target>>
    BY <1>1 DEF ClientStep, CallStep, ListenMany, UnlistenMany, ListenLocked,
       ExecuteListen, ListenReturns, ListenFails, DropListen, UnlistenLocked,
       RecheckLocked, Recheck, ExecuteUnlisten, UnlistenReturns, UnlistenFails,
       Receive, CloseReceiver, handlerVars
  <2>2. CASE Receive(c)
    <3>1. buf[c] \in Seq(Nat) /\ buf[c] # <<>> /\ buf' = [buf EXCEPT ![c] = Tail(@)]
      BY <2>2 DEF Receive
    <3>2. Len(buf[c]) \in Nat /\ Len(Tail(buf[c])) = Len(buf[c]) - 1
      BY <3>1, HeadTailProperties, LenProperties
    <3> QED
      BY <2>1, <3>1, <3>2
  <2>3. CASE DropListen(c) \/ CloseReceiver(c)
    <3>1. buf' = [buf EXCEPT ![c] = <<>>] /\ Len(<<>>) = 0
      BY <2>3 DEF DropListen, CloseReceiver
    <3> QED
      BY <2>1, <3>1
  <2>4. CASE UNCHANGED buf
    BY <2>1, <2>4
  <2> QED
    BY <1>1, <2>2, <2>3, <2>4 DEF ClientStep, CallStep, ListenMany, UnlistenMany,
       ListenLocked, ExecuteListen, ListenReturns, ListenFails, UnlistenLocked,
       RecheckLocked, Recheck, ExecuteUnlisten, UnlistenReturns, UnlistenFails,
       queueVars
<1>2. CASE SendDone
  <2>1. PICK entry \in target : /\ Len(buf[entry[2]]) < Capacity
                                /\ buf' = [buf EXCEPT ![entry[2]] = Append(@, msg)]
    BY <1>2 DEF SendDone
  <2>2. entry[2] \in Client /\ buf[entry[2]] \in Seq(Nat) /\ msg \in Nat
    BY <2>1
  <2>3. Len(buf[entry[2]]) \in Nat
        /\ Len(Append(buf[entry[2]], msg)) = Len(buf[entry[2]]) + 1
    BY <2>2, AppendProperties, LenProperties
  <2> QED
    BY <1>2, <2>1, <2>2, <2>3 DEF SendDone
<1>3. ASSUME \/ HandlerReceive \/ HandlerStops \/ HandlerLocked \/ SendFails
             \/ Distributed \/ Reap \/ \E entry \in targets : SendNext(entry)
      PROVE  Bounded'
  <2>1. UNCHANGED buf /\ (stage' = "sending" => target' # {})
    BY <1>3 DEF HandlerReceive, HandlerStops, HandlerLocked, SendFails, Distributed,
                Reap, SendNext, queueVars
  <2> QED
    BY <2>1
<1>4. CASE SessionStep \/ UNCHANGED vars
  BY <1>4 DEF SessionStep, ConnectionLost, Notify, OrphanListen, vars, handlerVars,
              queueVars
<1> QED
  BY <1>1, <1>2, <1>3, <1>4 DEF Next, HandlerStep

\* Whatever callers do: a task stands in the lock's queue exactly while it wants
\* the lock, once, and no queue overflows.
THEOREM LineIsKept == Spec => [](InLine /\ Bounded)
<1>1. Init => InLine /\ Bounded
  <2>1. Init => Bounded
    BY ListenerAssumption DEF Init, Bounded
  <2>2. Init => InLine
    BY ListenerAssumption DEF Init, InLine, Queued, WantsLock, Task
  <2> QED
    BY <2>1, <2>2
<1>2. TypeOK /\ InLine /\ Bounded /\ [Next]_vars => InLine' /\ Bounded'
  BY ClientInLine, HandlerInLine, OtherInLine, BoundedStep DEF Next
<1> QED
  BY <1>1, <1>2, TypeCorrect, PTL DEF Spec

-----------------------------------------------------------------------------
(* The bridge: only the stall blocks *)

\* The head of the queue gets the lock as soon as there are no readers.
LEMMA HeadGoesOn ==
  ASSUME TypeOK, InLine, waiting # <<>>, readers = {}
  PROVE  GoesOn(Head(waiting))
<1> DEFINE t == Head(waiting)
<1>1. t \in Task /\ Queued(t)
  BY HeadTailProperties, LenProperties, EmptySeq DEF TypeOK, Queued
<1>2. WantsLock(t) /\ CanRead(t) /\ CanWrite(t)
  BY <1>1 DEF InLine, CanRead, CanWrite
<1> QED
  BY <1>1, <1>2 DEF WantsLock, GoesOn, HandlerGoesOn, CallGoesOn, Task

\* A handler that does not go on is sending to a connection whose queue is full.
\* That connection is filed under the channel, so that it is past the request and
\* not cleaned up yet; if it is an SSE response its queue is read in any case, or
\* after a LISTEN, or about to be dropped; if it is a WebSocket connection it is
\* read unless its call waits for the lock.
LEMMA ReaderOrStall ==
  ASSUME BridgeTypeOK, KeptBooks, KeptReceivers, EntriesOwned, Numbered, TargetsFiled,
         Bounded, stage = "sending", ~HandlerGoesOn
  PROVE  Stalled \/ \E entry \in target : WillEmpty(entry[2])
<1> USE DEF BridgeTypeOK, TypeOK
<1>1. PICK entry \in target : TRUE
  BY DEF Bounded
<1> DEFINE c == entry[2]
<1>2. entry[1] \in ClientId /\ c \in Client /\ channels[Topic(msg)][entry[1]] = c
  BY DEF TargetsFiled
<1>3. open[c] /\ Len(buf[c]) = Capacity
  <2>1. Len(buf[c]) \in Nat /\ Len(buf[c]) <= Capacity /\ Capacity \in Nat
    BY <1>2, LenProperties, ListenerAssumption DEF Bounded
  <2>2. open[c] /\ ~(Len(buf[c]) < Capacity)
    BY DEF HandlerGoesOn
  <2> QED
    BY <2>1, <2>2
<1>4. Topic(msg) \in subscribed[c]
  <2>1. Topic(msg) \in Channel
    BY ElementOfSeq, LenProperties DEF Numbered, InHand, Topic
  <2> QED
    BY <1>2, <2>1 DEF EntriesOwned
<1> HIDE DEF c
<1>5. Books(c) /\ Receiver(c)
  BY <1>2 DEF KeptBooks, KeptReceivers
<1>6. phase[c] \in {"loop", "streaming", "dropped", "cleaning",
                     "listening", "subscribing", "unsubscribing"}
  BY <1>2, <1>3, <1>4, <1>5 DEF Books, Receiver
<1>7. CASE phase[c] \in {"loop", "streaming", "dropped", "cleaning"}
  BY <1>1, <1>3, <1>7 DEF WillEmpty, c
<1>8. CASE phase[c] = "listening"
  <2>1. Idle(c) \/ CallGoesOn(c)
    BY <1>4, <1>5, <1>8 DEF Books, Listens, Idle, CallGoesOn
  <2> QED
    BY <1>1, <1>3, <1>8, <2>1 DEF WillEmpty, c
<1>9. CASE phase[c] \in {"subscribing", "unsubscribing"}
  <2>1. CASE Idle(c) \/ CallGoesOn(c)
    BY <1>1, <1>3, <1>9, <2>1 DEF WillEmpty, c
  <2>2. CASE ~Idle(c) /\ ~CallGoesOn(c)
    <3>1. c \in WsClient
      BY <1>5, <1>9 DEF Receiver
    <3> QED
      BY <1>1, <1>3, <2>2, <3>1 DEF Stalled, c
  <2> QED
    BY <2>1, <2>2
<1> QED
  BY <1>6, <1>7, <1>8, <1>9

\* No cycle of lock, queue and statement but the one of Stalled: every wait for
\* the lock is for a task that goes on, or for a handler whose queue will be emptied.
THEOREM OnlyTheStallBlocks == BridgeSpec => []OnlyStallBlocks
<1>1. ASSUME BridgeTypeOK, KeptBooks, KeptReceivers, EntriesOwned, Numbered,
             TargetsFiled, LockHeld, InLine, Bounded
      PROVE  OnlyStallBlocks
  <2>1. ASSUME NEW c \in Client
        PROVE  Idle(c) \/ CallGoesOn(c) \/ Queued(c)
    <3>1. c \in Task /\ c # Handler
      BY ListenerAssumption DEF Task
    <3>2. pc[c] \in {"ok", "err", "listenLock", "listen", "unlistenLock",
                     "recheckLock", "unlisten"}
      BY <1>1 DEF BridgeTypeOK, TypeOK
    <3> QED
      BY <1>1, <3>1, <3>2 DEF InLine, WantsLock, Idle, CallGoesOn
  <2>2. stage \in {"distLock", "reapLock"} => Queued(Handler)
    BY <1>1 DEF InLine, WantsLock, Task
  <2>3. waiting # <<>> => GoesOn(Head(waiting)) \/ readers # {}
    BY <1>1, HeadGoesOn DEF BridgeTypeOK
  <2>4. ASSUME NEW t \in readers
        PROVE  GoesOn(t) \/ (t = Handler /\ (Stalled \/
                                \E entry \in target : WillEmpty(entry[2])))
    <3>1. CASE t = Handler
      <4>1. stage \in {"distribute", "sending"}
        BY <1>1, <2>4, <3>1 DEF LockHeld
      <4>2. CASE stage = "distribute"
        BY <3>1, <4>2 DEF GoesOn, HandlerGoesOn
      <4>3. CASE stage = "sending"
        BY <1>1, <3>1, <4>3, ReaderOrStall DEF GoesOn
      <4> QED
        BY <4>1, <4>2, <4>3
    <3>2. CASE t # Handler
      <4>1. t \in Client
        BY <1>1, <3>2 DEF BridgeTypeOK, TypeOK, Task
      <4> QED
        BY <1>1, <3>2, <4>1 DEF LockHeld, GoesOn, CallGoesOn
    <3> QED
      BY <3>1, <3>2
  <2> QED
    BY <2>1, <2>2, <2>3, <2>4 DEF OnlyStallBlocks
<1> QED
  BY <1>1, BridgeImplements, BridgeTypeCorrect, ReceiversKept, EntriesAreOwned,
     TargetsStay, LockDiscipline, LineIsKept, PTL

=============================================================================
