\* The shipped client: a reading and a writing goroutine, a limit of four.
SPECIFICATION Spec
CONSTANTS
    Callers = {reader, writer}
    NoCaller = NoCaller
    Limits = {4}
    MaxLeaked = 0
    MaxOrphans = 4
CHECK_DEADLOCK FALSE
INVARIANT PlcLimit
