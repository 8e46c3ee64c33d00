\* Two users in two chats, one of which sees the way through all the menus.
SPECIFICATION Spec
CONSTANTS
    Users = {u1, u2}
    Strangers = {}
    Chats = {"group", "other"}
    Lamps = {l1}
    MaxMessages <- Room
    ToLower <- LowerCase
    None = None
SYMMETRY UserSymmetry
INVARIANTS
    TypeOK
    ButtonsServed
    MessagesBounded
PROPERTIES
    OwnMessagesDeleted
