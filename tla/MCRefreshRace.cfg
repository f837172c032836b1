SPECIFICATION Spec
CONSTANTS
    None = None
    Requests = {r1, r2}
    Users = {u1}
    Ids = {i1, i2, i3}
    AccessTTL = 1
    RefreshTTL = 1
    MaxClock = 0
    Routes = {"login", "refresh"}
    Faults = {}
SYMMETRY Symmetry
INVARIANTS
    ExchangedOnce
