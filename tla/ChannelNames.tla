---------------------------- MODULE ChannelNames ----------------------------
(***************************************************************************)
(* Channel names on their way through the bridge                           *)
(* (src/src/channel_name.rs): from what a client wrote to the key of the   *)
(* map, to the text of LISTEN and the argument of pg_notify, and from the  *)
(* name PostgreSQL reports back to the key.                                *)
(*                                                                         *)
(* A text is a sequence of characters, of which only what the code asks is *)
(* known: its lower case, its length in UTF-8, and whether it is safe, a   *)
(* double quote, a comma or a capital sigma, which has two lower cases.    *)
(* When calls and notifications happen is the    *)
(* matter of PostgresListener; here they happen one after the other.       *)
(***************************************************************************)
EXTENDS Naturals, SequencesExt

CONSTANTS
    Char,        \* characters
    Lower,       \* the lower case of each, which may be several characters
    Sigma,       \* capital sigma, whose lower case is another ...
    FinalSigma,  \* ... at the end of a word: this one
    Cased,       \* characters that a word is made of
    Ignorable,   \* characters that are passed over in looking for its end
    Bytes,       \* the length of each in UTF-8
    SafeStart,   \* a to z and the underscore
    Safe,        \* those, and the digits
    Quote,       \* the double quote
    Comma,       \* the comma
    MaxLen,      \* longest name in bytes (63 in the code, and in PostgreSQL)
    Texts        \* bound: what clients and other sessions may write

ASSUME NamesAssumption ==
    /\ Lower \in [Char -> Seq(Char) \ {<<>>}]
    /\ \A c \in Char : \A i \in DOMAIN Lower[c] : Lower[Lower[c][i]] = <<Lower[c][i]>>
    /\ Sigma \in Char /\ Lower[Sigma] # <<Sigma>>
    /\ FinalSigma \in Char /\ Lower[FinalSigma] = <<FinalSigma>>
    /\ Cased \subseteq Char /\ Ignorable \subseteq Char
    /\ Bytes \in [Char -> Nat \ {0}]
    /\ SafeStart \subseteq Safe /\ Safe \subseteq Char
    /\ Quote \in Char \ Safe /\ Comma \in Char \ Safe /\ Quote # Comma
    /\ \A c \in Safe \cup {Quote, Comma} : Lower[c] = <<c>>
    /\ MaxLen \in Nat \ {0}
    /\ Texts \subseteq Seq(Char)

\* No name has no characters: the empty text stands for a name that is refused.
Invalid == <<>>

\* The character at i has one before it, or after it, that is cased, with nothing
\* between the two that counts.
CasedNext(text, i, js) ==
    \E j \in js : /\ text[j] \in Cased \ Ignorable
                  /\ \A k \in (i + 1..j - 1) \cup (j + 1..i - 1) : text[k] \in Ignorable

EndsWord(text, i) ==
    CasedNext(text, i, 1..i - 1) /\ ~CasedNext(text, i, i + 1..Len(text))

\* The lower case of a text is that of its characters, but for the capital sigma.
ToLowercase(text) ==
    FlattenSeq([i \in DOMAIN text |->
                   IF text[i] = Sigma /\ EndsWord(text, i) THEN <<FinalSigma>>
                                                           ELSE Lower[text[i]]])

ByteLen(text) == FoldLeft(LAMBDA n, c : n + Bytes[c], 0, text)

\* Mutant: the name is measured before it is converted.
New_ValidatesFirst(text) ==
    IF ByteLen(text) <= MaxLen THEN ToLowercase(text) ELSE Invalid

\* ChannelName::new
New(text) ==
    IF ByteLen(ToLowercase(text)) <= MaxLen THEN ToLowercase(text) ELSE Invalid

IsSafe(name) ==
    name # <<>> /\ name[1] \in SafeStart /\ ToSet(name) \subseteq Safe

\* Every double quote twice.
Doubled(name) ==
    FlattenSeq([i \in DOMAIN name |->
                   IF name[i] = Quote THEN <<Quote, Quote>> ELSE <<name[i]>>])

\* Mutant: with the quotes, as its comment says.
QuoteIdentifier_Wraps(name) ==
    IF IsSafe(name) THEN name ELSE <<Quote>> \o Doubled(name) \o <<Quote>>

\* quote_identifier(), which does not put quotes around it.
QuoteIdentifier(name) == IF IsSafe(name) THEN name ELSE Doubled(name)

\* The identifier in execute_listen and execute_unlisten.
Listen(name) == <<Quote>> \o QuoteIdentifier(name) \o <<Quote>>

\* The names of an SSE request, none if one is not valid.
Requested(text) ==
    LET from == {i \in 1..Len(text) + 1 : i = 1 \/ text[i - 1] = Comma}
        to(i) == CHOOSE j \in i..Len(text) + 1 :
                     /\ j = Len(text) + 1 \/ text[j] = Comma
                     /\ \A k \in i..j - 1 : text[k] # Comma
        names == {New(SubSeq(text, i, to(i) - 1)) : i \in from}
    IN  IF Invalid \in names THEN {} ELSE names

-----------------------------------------------------------------------------
(* PostgreSQL *)

\* As much of a name as fits.
Truncated(name) ==
    CHOOSE s \in Prefixes(name) :
        /\ ByteLen(s) <= MaxLen
        /\ \A t \in Prefixes(name) : ByteLen(t) <= MaxLen => Len(t) <= Len(s)

\* The channel that a quoted identifier names: up to the quote that ends it, two
\* quotes being one.  More text after that is a syntax error.
Identified(text) ==
    LET read[i \in 2..Len(text) + 2] ==
            IF i > Len(text) THEN {}
            ELSE IF text[i] # Quote
                 THEN {<<text[i]>> \o rest : rest \in read[i + 1]}
            ELSE IF i = Len(text) THEN {<<>>}
            ELSE IF text[i + 1] = Quote
                 THEN {<<Quote>> \o rest : rest \in read[i + 2]}
            ELSE {}
    IN  {Truncated(name) : name \in read[2] \ {<<>>}}

\* The channels that pg_notify reaches: the one of that very name, unless the
\* name is too long.
PgNotify(name) == IF ByteLen(name) <= MaxLen THEN {name} ELSE {}

-----------------------------------------------------------------------------

VARIABLES
    filed,       \* the keys of the map
    listening,   \* the channels of the session, by PostgreSQL's names
    sent,        \* the channel that was last notified, by its sender's name
    got          \* the keys under which that notification was distributed

namesVars == <<filed, listening, sent, got>>

Init ==
    /\ filed = {} /\ listening = {}
    /\ sent = Invalid /\ got = {}

\* listen_many for the names of a request; what was notified before is past.
ListenMany(names) ==
    /\ names # {} /\ Invalid \notin names
    /\ filed' = names
    /\ listening' = UNION {Identified(Listen(name)) : name \in names}
    /\ sent' = Invalid /\ got' = {}

WsSubscribe(text) == ListenMany({New(text)})
SseRequest(text) == ListenMany(Requested(text))

\* What reaches the session is filed under the name that PostgreSQL reports.
Notified(name, reached) ==
    /\ sent' = name
    /\ got' = {New(ch) : ch \in reached \cap listening} \cap filed
    /\ UNCHANGED <<filed, listening>>

\* A Notify message, whose channel is converted as it is parsed.
WsNotify(text) ==
    /\ New(text) # Invalid
    /\ Notified(New(text), PgNotify(QuoteIdentifier(New(text))))

\* A POST: the handler converts again what was converted as the body was parsed.
HttpNotify(text) ==
    LET channel == New(New(text))
    IN  /\ New(text) # Invalid /\ channel # Invalid
        /\ Notified(New(text), PgNotify(QuoteIdentifier(channel)))

\* Another session's NOTIFY, under any name that it can have.
OtherNotify(name) ==
    /\ name # Invalid
    /\ Notified(name, PgNotify(name))

\* Bounds: a behaviour has one request, and one notification after it, as no
\* request and no notification depends on another one.
Next ==
    \/ filed = {} /\ \E text \in Texts : WsSubscribe(text) \/ SseRequest(text)
    \/ sent = Invalid /\ \E text \in Texts :
          WsNotify(text) \/ HttpNotify(text) \/ OtherNotify(text)

Spec == Init /\ [][Next]_namesVars

-----------------------------------------------------------------------------
(* Properties *)

\* For every key there is the one LISTEN that names it, and what PostgreSQL then
\* reports leads back to the key: no name is cut off (channel_name.rs:101), none
\* has its case or its quotes changed on the way there and back.
HeardUnderItsKey ==
    /\ listening = filed
    /\ \A ch \in listening : New(ch) = ch

\* A notification of a channel reaches the subscribers of that channel and nobody
\* else, however either of them was spelt and whichever way it came.  Names with
\* a double quote are the exception, see NotifyArrives.
ArrivesUnlessQuoted ==
    ~Contains(sent, Quote) => got = filed \cap {sent}

\* "Send a notification to a channel (NOTIFY)" (postgres.rs:248): to that one.
NotifyArrives == got = filed \cap {sent}

=============================================================================
