SPECIFICATION Spec
CONSTANTS
    Ids = {private_1}
    Sessions = {s1}
    Chats = {c1, c2}
    MaxTurns = 2
    MaxMessages = 3
    MaxCalls = 2
    None = None
SYMMETRY ChatSymmetry
CHECK_DEADLOCK FALSE
INVARIANTS
    NothingLost
