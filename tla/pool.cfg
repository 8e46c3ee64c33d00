\* Three goroutines, a limit below and above their number, or none; no symmetry,
\* for the liveness properties. The process stops after a panic, so deadlock is
\* not checked.
SPECIFICATION FairSpec
CONSTANTS
    Callers = {g1, g2, g3}
    NoCaller = NoCaller
    Limits <- SomeLimits
    MaxLeaked = 2
    MaxOrphans = 1
CHECK_DEADLOCK FALSE
INVARIANTS
    TypeOK
    SlotAccounting
    QueueOnlyWhenFull
    RequestNotLost
    QueueNeedsLosses
PROPERTIES
    AnswerTakenByWaiter
    ImplementsLimiter
    QueueMoves
    CloseReleasesWaiters
