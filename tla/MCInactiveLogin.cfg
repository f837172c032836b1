SPECIFICATION Spec
CONSTANTS
    None = None
    Requests = {r1, r2}
    Users = {u1}
    Emails = {e1}
    SeedEmail = e1
    CacheTTL = 1
    AccessTTL = 1
    Latency = 1
    MaxWrites = 1
    MaxTokens = 1
    Queries <- SomeQueries
    Faults = {}
SYMMETRY Symmetry
INVARIANTS
    TokensNeedActive
