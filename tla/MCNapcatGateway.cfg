SPECIFICATION FairSpec
CONSTANTS
    Conns = {c1, c2}
    MaxEvents = 2
    MaxActions = 2
    PromptLoop = FALSE
    None = None
CHECK_DEADLOCK FALSE
INVARIANTS
    TypeOK
    CurrentIsLatest
    NoForgottenAction
PROPERTIES
    LoopsKeepReading
