SPECIFICATION FairSpec
CONSTANTS
    Requests = {r1, r2, r3}
    Emails = {known, unknown}
    Accounts = {known}
    Threshold = 3
    Window = 2
    MaxFaults = 2
INVARIANTS
    TypeOK
    GuessesBounded
    CounterExpires
PROPERTIES
    LockLifts
