SPECIFICATION FairSpec
CONSTANTS
    Keys <- MCKeys
    KeyOf <- MCKeyOf
    MaxEvents = 4
    Loops = {l1, l2}
    Runners = {r1, r2, r3, r4}
    Tasks = {t1, t2, t3, t4}
    Shutdown = Shutdown
    DebounceTicks = 1
    None = None
PROPERTIES
    EveryEventSettles
    RunnersAreReleased
    ImplementsTurns
