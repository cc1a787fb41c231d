------------------------------- MODULE PubSub -------------------------------
(***************************************************************************)
(* What src/src/postgres.rs promises its callers: a registry of members    *)
(* per channel, and one stream of notifications that is dispatched, one    *)
(* notification at a time, to whoever is a member at that moment.  No lock, *)
(* no ids, no bounded queue, no statement in flight.                       *)
(***************************************************************************)
EXTENDS Naturals, Sequences

CONSTANTS
    Client,
    Channel,
    MaxNotify    \* bound: notifications published in a behaviour

VARIABLES
    alive,       \* the client's receiver exists
    member,      \* the channels a living client is subscribed to
    up,          \* the session is up
    heard,       \* the channels it listens on
    log,         \* the channel of every notification so far
    stream,      \* notifications on their way, by number
    queue,       \* dispatched to the client, not consumed yet
    got          \* the last one consumed

vars == <<alive, member, up, heard, log, stream, queue, got>>

\* The types of the variables.
TypeOK ==
    /\ alive \in [Client -> BOOLEAN]
    /\ member \in [Client -> SUBSET Channel]
    /\ up \in BOOLEAN
    /\ heard \subseteq Channel
    /\ log \in Seq(Channel)
    /\ stream \in Seq(Nat)
    /\ queue \in [Client -> Seq(Nat)]
    /\ got \in [Client -> Nat]

Init ==
    /\ alive = [c \in Client |-> TRUE]
    /\ member = [c \in Client |-> {}]
    /\ up = TRUE
    /\ heard = {}
    /\ log = <<>>
    /\ stream = <<>>
    /\ queue = [c \in Client |-> <<>>]
    /\ got = [c \in Client |-> 0]

-----------------------------------------------------------------------------

Join(c, chs) ==
    /\ alive[c]
    /\ member' = [member EXCEPT ![c] = @ \cup chs]
    /\ UNCHANGED <<alive, up, heard, log, stream, queue, got>>

Leave(c, chs) ==
    /\ member' = [member EXCEPT ![c] = @ \ chs]
    /\ UNCHANGED <<alive, up, heard, log, stream, queue, got>>

Die(c) ==
    /\ alive[c]
    /\ alive' = [alive EXCEPT ![c] = FALSE]
    /\ member' = [member EXCEPT ![c] = {}]
    /\ queue' = [queue EXCEPT ![c] = <<>>]
    /\ UNCHANGED <<up, heard, log, stream, got>>

Hear(ch) ==
    /\ up
    /\ heard' = heard \cup {ch}
    /\ UNCHANGED <<alive, member, up, log, stream, queue, got>>

\* A channel is given up only while it has no member.
GiveUp(chs) ==
    /\ \A c \in Client : member[c] \cap chs = {}
    /\ heard' = heard \ chs
    /\ UNCHANGED <<alive, member, up, log, stream, queue, got>>

Publish(ch) ==
    /\ up /\ Len(log) < MaxNotify
    /\ log' = Append(log, ch)
    /\ stream' = IF ch \in heard THEN Append(stream, Len(log) + 1) ELSE stream
    /\ UNCHANGED <<alive, member, up, heard, queue, got>>

\* All members at once.
Dispatch ==
    /\ stream # <<>>
    /\ queue' = [c \in Client |->
                    IF alive[c] /\ log[Head(stream)] \in member[c]
                    THEN Append(queue[c], Head(stream)) ELSE queue[c]]
    /\ stream' = Tail(stream)
    /\ UNCHANGED <<alive, member, up, heard, log, got>>

Consume(c) ==
    /\ queue[c] # <<>>
    /\ got' = [got EXCEPT ![c] = Head(queue[c])]
    /\ queue' = [queue EXCEPT ![c] = Tail(@)]
    /\ UNCHANGED <<alive, member, up, heard, log, stream>>

Break ==
    /\ up
    /\ up' = FALSE
    /\ heard' = {}
    /\ \E k \in 0 .. Len(stream) : stream' = SubSeq(stream, 1, k)
    /\ UNCHANGED <<alive, member, log, queue, got>>

Next ==
    \/ \E c \in Client :
          \/ \E chs \in SUBSET Channel : Join(c, chs) \/ Leave(c, chs)
          \/ Die(c) \/ Consume(c)
    \/ \E ch \in Channel : Hear(ch) \/ Publish(ch)
    \/ \E chs \in SUBSET Channel : GiveUp(chs)
    \/ Dispatch \/ Break

Spec == Init /\ [][Next]_vars

=============================================================================
