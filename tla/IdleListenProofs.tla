-------------------------- MODULE IdleListenProofs --------------------------
(***************************************************************************)
(* "Automatically LISTEN/UNLISTEN on Postgres as clients subscribe": why   *)
(* the session never listens for nobody, as long as nothing fails.         *)
(***************************************************************************)
EXTENDS BridgeProofs

-----------------------------------------------------------------------------
(* The listener: some client minds every channel that is listened on *)

\* c is subscribed to ch, or about to find out whether anybody still is.
Minds(c, ch) ==
    \/ ch \in subscribed[c]
    \/ pc[c] \in {"recheckLock", "unlisten"} /\ ch \in todo[c] \cup checked[c]

\* Without faults no LISTEN outlives its call, what a call has still to LISTEN
\* is filed for its caller, and what is listened on is minded.
Minded ==
    /\ connected
    /\ orphans = {}
    /\ \A c \in Client : pc[c] = "listen" => todo[c] \subseteq subscribed[c]
    /\ \A ch \in listening : \E c \in Client : Minds(c, ch)

\* A channel that has an entry has a client that is subscribed to it.
LEMMA SubscriberMinds ==
  ASSUME TypeOK, EntriesOwned, NEW ch \in Channel, NEW id \in Subscribers(ch)
  PROVE  \E d \in Client : id = IdOf[d] /\ ch \in subscribed[d]
<1>1. id \in ClientId /\ channels[ch][id] # NoSender
  BY DEF Subscribers
<1>2. channels[ch] \in [ClientId -> Client \cup {NoSender}]
  BY DEF TypeOK
<1>3. channels[ch][id] \in Client
  BY <1>1, <1>2
<1> QED
  BY <1>1, <1>3 DEF EntriesOwned

\* A step of a call keeps everything minded.
LEMMA CallMinded ==
  ASSUME Faultless, TypeOK, EntriesOwned, Minded, NEW c \in Client, CallStep(c)
  PROVE  Minded'
<1> USE DEF TypeOK
<1>1. CASE ListenLocked(c)
  BY <1>1 DEF ListenLocked, sessionVars, Minded, Minds
<1>2. ASSUME NEW x \in Channel, ExecuteListen(c, x)
      PROVE  Minded'
  <2>1. x \in subscribed[c]
    BY <1>2 DEF ExecuteListen, Minded
  <2>2. UNCHANGED <<subscribed, checked, pc, connected, orphans>>
    BY <1>2 DEF ExecuteListen, mapVars
  <2>3. \A d \in Client, ch \in Channel : Minds(d, ch) => Minds(d, ch)'
    BY <1>2, <2>2 DEF ExecuteListen, Minds
  <2>4. Minds(c, x)'
    BY <2>1, <2>2 DEF Minds
  <2> QED
    BY <1>2, <2>2, <2>3, <2>4 DEF ExecuteListen, Minded
<1>3. CASE ListenReturns(c)
  BY <1>3 DEF ListenReturns, mapVars, sessionVars, Minded, Minds
<1>4. CASE UnlistenLocked(c)
  <2>1. \A d \in Client, ch \in Channel :
           ch \in subscribed[d] => \E e \in Client : Minds(e, ch)'
    <3> SUFFICES ASSUME NEW d \in Client, NEW ch \in Channel, ch \in subscribed[d]
                 PROVE  \E e \in Client : Minds(e, ch)'
      OBVIOUS
    <3>1. CASE d # c \/ ch \notin todo[c]
      BY <1>4, <3>1 DEF UnlistenLocked, Minds
    <3>2. CASE d = c /\ ch \in todo[c] /\ Subscribers(ch) \subseteq {IdOf[c]}
      BY <1>4, <3>2 DEF UnlistenLocked, Minds
    <3>3. ASSUME d = c, NEW id \in Subscribers(ch), id # IdOf[c]
          PROVE  \E e \in Client : Minds(e, ch)'
      BY <1>4, <3>3, SubscriberMinds DEF UnlistenLocked, Minds
    <3> QED
      BY <3>1, <3>2, <3>3
  <2>2. \A d \in Client, ch \in Channel :
           Minds(d, ch) => ch \in subscribed[d] \/ Minds(d, ch)'
    BY <1>4 DEF UnlistenLocked, Minds
  <2> QED
    BY <1>4, <2>1, <2>2 DEF UnlistenLocked, sessionVars, Minded
<1>5. CASE RecheckLocked(c)
  BY <1>5 DEF RecheckLocked, mapVars, sessionVars, Minded, Minds
<1>6. ASSUME NEW x \in Channel, Recheck(c, x)
      PROVE  Minded'
  <2>1. UNCHANGED <<subscribed, pc, listening, connected, orphans>>
    BY <1>6 DEF Recheck, mapVars, sessionVars
  <2>2. Minds(c, x)' \/ Subscribers(x) # {}
    BY <1>6 DEF Recheck, Minds
  <2>3. \A d \in Client, ch \in Channel :
           Minds(d, ch) => Minds(d, ch)' \/ (d = c /\ ch = x)
    <3>1. /\ checked[c] = {} /\ todo' = [todo EXCEPT ![c] = @ \ {x}]
          /\ \A d \in Client \ {c} : checked'[d] = checked[d]
      BY <1>6 DEF Recheck
    <3>2. ASSUME NEW d \in Client, NEW ch \in Channel, Minds(d, ch)
          PROVE  Minds(d, ch)' \/ (d = c /\ ch = x)
      <4>1. CASE d # c
        BY <2>1, <3>1, <3>2, <4>1 DEF Minds
      <4>2. CASE d = c
        BY <2>1, <3>1, <3>2, <4>2 DEF Minds
      <4> QED
        BY <4>1, <4>2
    <3> QED
      BY <3>2
  <2>4. Subscribers(x) # {} => \E d \in Client : Minds(d, x)'
    BY <2>1, SubscriberMinds DEF Minds
  <2>5. \A d \in Client : pc[d] = "listen" => todo'[d] = todo[d]
    BY <1>6 DEF Recheck
  <2> QED
    BY <2>1, <2>2, <2>3, <2>4, <2>5 DEF Minded
<1>7. CASE ExecuteUnlisten(c)
  <2>1. \A d \in Client, ch \in listening' : Minds(d, ch) => Minds(d, ch)'
    BY <1>7 DEF ExecuteUnlisten, mapVars, Minds
  <2> QED
    BY <1>7, <2>1 DEF ExecuteUnlisten, mapVars, Minded
<1>8. CASE UnlistenReturns(c)
  BY <1>8 DEF UnlistenReturns, mapVars, sessionVars, Minded, Minds
<1>9. ~ListenFails(c) /\ ~UnlistenFails(c)
  BY DEF ListenFails, UnlistenFails, Faultless, Minded
<1> QED
  BY <1>1, <1>2, <1>3, <1>4, <1>5, <1>6, <1>7, <1>8, <1>9 DEF CallStep

\* So does every other step.
LEMMA MindedStep ==
  ASSUME Faultless, TypeOK, EntriesOwned, Minded, [Next]_vars
  PROVE  Minded'
<1>1. ASSUME NEW c \in Client, ClientStep(c), ~CallStep(c)
      PROVE  Minded'
  <2>1. ~DropListen(c)
    BY DEF DropListen, Faultless
  <2>2. ASSUME NEW chs \in SUBSET Channel, ListenMany(c, chs) \/ UnlistenMany(c, chs)
        PROVE  Minded'
    BY <2>2 DEF ListenMany, UnlistenMany, Idle, TypeOK, mapVars, sessionVars,
                Minded, Minds
  <2>3. CASE Receive(c) \/ CloseReceiver(c)
    BY <2>3 DEF Receive, CloseReceiver, mapVars, callVars, sessionVars, Minded, Minds
  <2> QED
    BY <1>1, <2>1, <2>2, <2>3 DEF ClientStep
<1>2. ASSUME HandlerStep \/ SessionStep \/ UNCHANGED vars
      PROVE  Minded'
  <2>1. UNCHANGED <<subscribed, callVars>>
    BY <1>2, OthersEffect DEF vars, mapVars
  <2>2. UNCHANGED sessionVars
    BY <1>2 DEF HandlerStep, HandlerReceive, HandlerStops, HandlerLocked, SendDone,
                SendFails, Distributed, Reap, SendNext, SessionStep, ConnectionLost,
                Notify, OrphanListen, vars, Faultless, Minded
  <2> QED
    BY <2>1, <2>2 DEF callVars, sessionVars, Minded, Minds
<1> QED
  BY <1>1, <1>2, CallMinded DEF Next

\* Whatever its callers do: a channel that is listened on has a client that is
\* subscribed to it or is about to find out that nobody is.
THEOREM ListeningIsMinded ==
  ASSUME Faultless
  PROVE  Spec => []Minded
<1>1. Init => Minded
  BY DEF Init, Minded
<1>2. TypeOK /\ EntriesOwned /\ Minded /\ [Next]_vars => Minded'
  BY MindedStep
<1> QED
  BY <1>1, <1>2, TypeCorrect, EntriesAreOwned, PTL DEF Spec

-----------------------------------------------------------------------------
(* The bridge: whoever minds a channel has an entry, or will unlisten it *)

\* Without faults and with distinct ids, nothing is listened on for nobody: a
\* channel has a subscriber, or a connection that has still to unlisten it.
THEOREM NothingIsIdle ==
  ASSUME Faultless, DistinctIds
  PROVE  BridgeSpec => []NoIdleListen
<1>1. BridgeInit => Unharmed
  BY DEF BridgeInit, Init, Unharmed
<1>2. BridgeTypeOK /\ KeptBooks /\ Unharmed /\ [BridgeNext]_bridgeVars => Unharmed'
  BY UnharmedStep
<1>3. ASSUME BridgeTypeOK, KeptBooks, Unharmed, KeptReceivers, Minded, MapAgrees
      PROVE  NoIdleListen
  <2> SUFFICES ASSUME NEW ch \in listening, NEW c \in Client, Minds(c, ch)
               PROVE  Subscribers(ch) # {} \/ Owes(c, ch)
    BY <1>3 DEF NoIdleListen, Minded
  <2>1. CASE ch \notin subscribed[c]
    BY <2>1 DEF Minds, Owes
  <2>2. CASE ch \in subscribed[c] /\ open[c]
    <3>1. channels[ch][IdOf[c]] = c
      BY <1>3, <2>2 DEF MapAgrees, EntriesKept
    <3> QED
      BY <3>1, ListenerAssumption DEF Subscribers
  <2>3. CASE ch \in subscribed[c] /\ ~open[c]
    BY <1>3, <2>3 DEF KeptBooks, Books, Unharmed, KeptReceivers, Receiver, Owes,
                      Unlistens, Idle, BridgeTypeOK
  <2> QED
    BY <2>1, <2>2, <2>3
<1> QED
  BY <1>1, <1>2, <1>3, BridgeTypeCorrect, BridgeImplements, ReceiversKept,
     ListeningIsMinded, MapAlwaysAgrees, PTL DEF BridgeSpec

=============================================================================
