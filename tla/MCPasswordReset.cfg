SPECIFICATION Spec
CONSTANTS
    None = None
    Requests = {r1, r2}
    Users = {u1, u2}
    Tokens = {t1, t2}
    ResetTTL = 1
    MaxClock = 2
    Faults = {"lost", "failed"}
SYMMETRY Symmetry
INVARIANTS
    TypeOK
    ConsumedBeforeUpdate
    MailedTokenUsable
    UsesBounded
