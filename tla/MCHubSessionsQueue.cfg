SPECIFICATION Spec
CONSTANTS
    Keys <- MCKeys
    KeyOf <- MCKeyOf
    MaxEvents = 3
    Loops = {l1, l2}
    Runners = {r1, r2, r3}
    Tasks = {t1, t2, t3}
    Shutdown = Shutdown
    DebounceTicks = 1
    None = None
PROPERTIES
    QueuedForOpenChat
