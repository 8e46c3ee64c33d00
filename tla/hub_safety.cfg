\* Two users with two streams in all in each process; when all have ended,
\* nobody may be left to take a step, so deadlock is not checked.
SPECIFICATION Spec
CONSTANTS
    Users = {u1, u2}
    Streams = {s1, s2}
    NotifyCap = 1
    None = None
    Settings = {TRUE, FALSE}
SYMMETRY HubSymmetry
CHECK_DEADLOCK FALSE
INVARIANTS
    TypeOK
    HandlerEndsForCause
    FlagMissesOnlyUnreached
PROPERTIES
    ImplementsSwitchboard
    ImplementsServer
