\* One failure, noticed by both goroutines.
SPECIFICATION FairSpec
CONSTANTS
    Streams = {s1, s2, s3, s4}
    MaxBreaks = 1
    None = None
CHECK_DEADLOCK FALSE
PROPERTY CommandsArrive
