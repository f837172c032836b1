SPECIFICATION Spec
CONSTANTS
    None = None
    Tabs = {t1}
    Calls = {c1, c2}
    Ids = {i1, i2}
SYMMETRY Symmetry
INVARIANTS
    LogoutRevokesCookie
