SPECIFICATION FairSpec
CONSTANTS
    Digests = {d1, d2}
    Names = {n1, n2}
    Stores = {r1, r2}
    ExpireAfter = 1
    BatchSize = 1
    MaxTime = 3
    MaxStores = 3
    MaxStops = 1
    None = None
CHECK_DEADLOCK FALSE
INVARIANTS
    TypeOK
    NamedWhileKept
PROPERTIES
    CleanupSparesFresh
    OnlyCleanupDangles
    ExpiredIsForgotten
