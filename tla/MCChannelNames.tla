--------------------------- MODULE MCChannelNames ---------------------------
(* ChannelNames for TLC, with one character of each kind. *)
EXTENDS ChannelNames

CONSTANTS
    low,      \* "i", a safe letter
    up,       \* "I", its capital
    dotted,   \* capital I with a dot: two bytes, in lower case low and mark
    mark,     \* the combining dot, two bytes
    digit,    \* safe, but not at the start
    sigma,    \* the small sigma inside a word; two bytes, like the other two
    MaxTyped  \* longest text in characters

MCLower ==
    (up :> <<low>>) @@ (dotted :> <<low, mark>>) @@ (Sigma :> <<sigma>>)
    @@ [c \in Char |-> <<c>>]
MCBytes ==
    [c \in Char |-> IF c \in {dotted, mark, Sigma, sigma, FinalSigma} THEN 2 ELSE 1]
MCTexts == BoundedSeq(Char, MaxTyped)

=============================================================================
