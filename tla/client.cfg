\* One failure, which both goroutines may notice: four streams are as many as
\* can be opened.  The process may die, so deadlock is not checked.
SPECIFICATION FairSpec
CONSTANTS
    Streams = {s1, s2, s3, s4}
    MaxBreaks = 1
    None = None
CHECK_DEADLOCK FALSE
INVARIANTS
    TypeOK
    StreamsBounded
PROPERTIES
    ClientReconnects
    NotificationsLeave
