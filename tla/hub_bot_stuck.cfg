\* One user, one stream.
SPECIFICATION FairSpec
CONSTANTS
    Users = {u1}
    Streams = {s1}
    NotifyCap = 1
    None = None
    Settings = {}
CHECK_DEADLOCK FALSE
PROPERTY BotServesUpdates
