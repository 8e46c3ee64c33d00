\* Several devices of one name, a tag that is configured twice, every loss
\* of slots.
SPECIFICATION FairSpec
CONSTANTS
    Registers = {"r1"}
    Bits = {0, 1}
    ToLower <- LowerCase
    Actions <- Sent
    DeviceIDs = {"Lamp001", "Lamp002", "Lamp003"}
    Notifications <- Reported
    Devices <- Lamps
    MaxOpen = 2
    NoCommand = NoCommand
INVARIANT TypeOK
PROPERTIES
    ReportsAreRises
    EveryDeviceAttempted
    RisesReported
