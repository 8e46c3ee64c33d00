\* One tag, one lamp, a pool of one slot that can be lost; one failure and two
\* streams, after which dials fail.  The process may die, so deadlock is not
\* checked.
SPECIFICATION FairSpec
CONSTANTS
    Registers = {"r1"}
    Bits = {0}
    Actions = {"switchon"}
    DeviceIDs = {"Lamp001"}
    Notifications <- OneTag
    Devices <- OneLamp
    MaxOpen = 1
    NoCommand = NoCommand
    Streams = {1, 2}
    MaxBreaks = 1
    None = None
CONSTRAINT InOrder
CHECK_DEADLOCK FALSE
PROPERTIES
    RisesReported
    CommandsTaken
