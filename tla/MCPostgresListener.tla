------------------------- MODULE MCPostgresListener -------------------------
(* PostgresListener for TLC. *)
EXTENDS PostgresListener

\* Every client has an id of its own: itself, where clients are interchangeable,
\* or a number, where an id must not be mistaken for a client.
OwnIds == [c \in Client |-> c]
NumberedIds == CHOOSE f \in [Client -> ClientId] :
                   \A c, d \in Client : f[c] = f[d] => c = d

=============================================================================
