\* Two connections; 15 s, 25 s and 30 s in ticks of 5 s.  The process ends, so
\* deadlock is not checked.
SPECIFICATION FairSpec
CONSTANTS
    Conns = {c1, c2}
    Settings <- Shipped
    RequestLimit = 3
    ApiGrace = 5
    BotGrace = 6
CHECK_DEADLOCK FALSE
INVARIANTS
    TypeOK
    InProgressAnswered
PROPERTY SignalEndsProcess
