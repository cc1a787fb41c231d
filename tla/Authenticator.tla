---------------------------- MODULE Authenticator ----------------------------
(***************************************************************************)
(* The decision of src/src/auth.rs: what the answer of the PostgreSQL      *)
(* function means for the token it was called with.                        *)
(*                                                                         *)
(* An answer is a record: `ok` is FALSE when the query failed, and `rows`  *)
(* are the rows it returned.  A row is the sequence of its columns, and a  *)
(* column is "true" or "false" (BOOLEAN), "text" or "null".                *)
(***************************************************************************)
EXTENDS Naturals, Sequences

Column == {"true", "false", "text", "null"}
Answer == [ok : BOOLEAN, rows : Seq(Seq(Column))]

Failed == [ok |-> FALSE, rows |-> <<>>]
Returned(rows) == [ok |-> TRUE, rows |-> rows]

BoolColumn(row, i) == row[i] \in {"true", "false"}

\* try_get fails on a NULL and on a column of another type.
Readable(row) ==
    \/ Len(row) = 1 /\ BoolColumn(row, 1)
    \/ Len(row) >= 2 /\ row[1] = "text" /\ BoolColumn(row, 2)

\* The column that decides: the second of (user_id, authenticated), or the only
\* one of a plain boolean.
Flag(row) == IF Len(row) >= 2 THEN row[2] ELSE row[1]

\* Mutant: any row at all is a yes.
Verdict_AnyRow(answer) ==
    IF ~answer.ok THEN "error"
    ELSE IF answer.rows = <<>> THEN "refused" ELSE "authenticated"

\* authenticate(): only the first row counts; no row, and a row without columns,
\* is a no.
Verdict(answer) ==
    IF ~answer.ok THEN "error"
    ELSE IF answer.rows = <<>> \/ Head(answer.rows) = <<>> THEN "refused"
    ELSE IF ~Readable(Head(answer.rows)) THEN "error"
    ELSE IF Flag(Head(answer.rows)) = "true" THEN "authenticated" ELSE "refused"

\* "The PG function should return a row with (user_id TEXT, authenticated
\* BOOLEAN) or just a BOOLEAN" (auth.rs:59-60): the rows that are a yes.  Columns
\* after the second are the function's own affair.
Grants(answer) ==
    /\ answer.ok /\ answer.rows # <<>>
    /\ \/ Head(answer.rows) = <<"true">>
       \/ /\ Len(Head(answer.rows)) >= 2
          /\ Head(answer.rows)[1] = "text" /\ Head(answer.rows)[2] = "true"

=============================================================================
