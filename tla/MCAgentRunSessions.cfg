SPECIFICATION FairSpec
CONSTANTS
    Ids = {private_1}
    Sessions = {s1, s2}
    Chats = {c1, c2}
    MaxTurns = 2
    MaxMessages = 2
    MaxCalls = 2
    None = None
CHECK_DEADLOCK FALSE
PROPERTIES
    LostAtLimitOrFreed
    MessagesStayHome
    EveryChatEnds
