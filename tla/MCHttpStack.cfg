SPECIFICATION HSSpec
CONSTANTS
    None = None
    Goroutines = {r1, r2}
    Tenants = {t1, t2}
    SlugOf <- SomeSlugs
    Hosts <- SomeHosts
    Digits = {"127"}
    Params = {None, t1}
    Statuses = {200, 500}
    MaxRequests = 2
    MaxQueries = 1
SYMMETRY Symmetry
INVARIANTS
    HSTypeOK
    Accounted
    TenantFromOwnRequest
CHECK_DEADLOCK FALSE
