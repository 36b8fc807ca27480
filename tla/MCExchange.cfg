\* One exchange from end to end; see MCExchange.tla for the inputs.
SPECIFICATION Spec
CONSTANTS
    NoId = NoId
    NoTarget = NoTarget
    NoMessageId = NoMessageId
    NotADict = NotADict
    Bot = Bot
    Ann = Ann
    Eve = Eve
    Crowd = Crowd
    Arrivals <- MCArrivals
    Rules <- MCRules
    FaceIds <- MCFaceIds
    MaxWindow = 2
    Answers <- MCAnswers
    Calls <- MCCalls
    Cursors <- MCCursors
    Log <- MCLog
    Unseen = 1
    MaxFrames = 16
    MaxTurns = 2
    MaxCalls = 2
INVARIANTS
    TypeOK
    EverySegmentTold
    OnlyAllowedSpeak
    PlanIsRendering
    ShownInOrder
    DeliveredUnlessFault
    NapcatSeesValidRequests
    PagesTile
    FramesSpread
    ContextsNest
PROPERTIES
    EveryExchangeEnds
