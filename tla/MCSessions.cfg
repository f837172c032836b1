SPECIFICATION Spec
CONSTANTS
    None = None
    Requests = {r1, r2}
    Users = {u1}
    Ids = {i1, i2}
    AccessTTL = 2
    RefreshTTL = 2
    MaxClock = 2
    Routes = {"login", "refresh", "call", "logout"}
    Faults = {"lost", "failed"}
SYMMETRY Symmetry
INVARIANTS
    TypeOK
    SentTokenHonoured
    LogoutEndsSession
PROPERTIES
    RevokedTokenRefused
    ImplementsTokenLife
