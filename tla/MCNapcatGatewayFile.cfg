SPECIFICATION Spec
CONSTANTS
    Conns = {c1, c2}
    MaxEvents = 2
    MaxActions = 2
    PromptLoop = TRUE
    None = None
CHECK_DEADLOCK FALSE
PROPERTIES
    AnswerBeatsTimeout
