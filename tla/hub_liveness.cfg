\* One user with two streams in all in each process; when all have ended,
\* nobody may be left to take a step, so deadlock is not checked.
SPECIFICATION FairSpec
CONSTANTS
    Users = {u1}
    Streams = {s1, s2}
    NotifyCap = 1
    None = None
    Settings = {}
CHECK_DEADLOCK FALSE
PROPERTIES
    ErrorEndsHandler
    DisconnectEndsHandler
    BotWaitsOnlyForEnded
