------------------------------- MODULE MCBridge -------------------------------
(* Bridge for TLC. *)
EXTENDS Bridge

\* Both servers number their clients from 0, each with a counter of its own.  In
\* WithinServer every connection is the first of its server, so that a
\* WebSocket connection and an SSE request have one id; in Apart no two
\* connections do, as when the counters happen to stand at different values.
WithinServer == [c \in Client |-> 0]
Apart == CHOOSE f \in [Client -> ClientId] :
             \A c, d \in Client : f[c] = f[d] => c = d

\* Answers of every shape a PostgreSQL function can give: none, no row, the two
\* documented ones, a NULL, columns missing or too many, rows that disagree.
AllAnswers ==
    {Failed, Returned(<<>>)} \cup
    {Returned(<<row>>) : row \in
        {<<>>, <<"true">>, <<"false">>, <<"null">>, <<"text">>,
         <<"text", "true">>, <<"text", "false">>, <<"null", "true">>,
         <<"true", "text">>, <<"text", "true", "text">>}} \cup
    {Returned(<< <<"text", "false">>, <<"text", "true">> >>)}

\* One answer, for runs without an authenticator, where it is not looked at.
NoAnswer == {Failed}

=============================================================================
