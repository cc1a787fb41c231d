SPECIFICATION Spec
CONSTANTS
    low = low
    up = up
    dotted = dotted
    mark = mark
    digit = digit
    sigma = sigma
    Sigma = Sigma
    FinalSigma = final
    Quote = quote
    Comma = comma
    Char = {low, up, dotted, mark, digit, quote, comma, sigma, Sigma, final}
    Lower <- MCLower
    Cased = {low, up, dotted, sigma, Sigma, final}
    Ignorable = {mark}
    Bytes <- MCBytes
    SafeStart = {low}
    Safe = {low, digit}
    MaxLen = 4
    MaxTyped = 3
    Texts <- MCTexts
INVARIANT NotifyArrives
CHECK_DEADLOCK FALSE
