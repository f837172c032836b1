SPECIFICATION FairSpec
CONSTANTS
    None = None
    Requests = {r1, r2}
    Users = {u1}
    Emails = {e1}
    SeedEmail = e1
    CacheTTL = 2
    AccessTTL = 1
    Latency = 1
    MaxWrites = 2
    MaxTokens = 1
    Queries <- SomeQueries
    Faults = {"failed", "lost"}
INVARIANTS
    TypeOK
    RolesGranted
    RoleLagBounded
    RefreshNeedsActive
    DeletedStaysDeleted
PROPERTIES
    PageNotShort
    CacheConverges
