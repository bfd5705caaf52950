CONSTANTS
    c1 = c1
    Caller = {c1}
    Loop = {p1}
    Health = health
    Handler = {h1}
    MayCall <- CountsOnDisconnect
    MaxTurns <- Turns

SPECIFICATION FairSpec


PROPERTIES CallsReturn

\* The turns are over.
CHECK_DEADLOCK FALSE
