SPECIFICATION Spec
CONSTANTS
    None = None
    Tabs = {t1, t2}
    Calls = {c1, c2}
    Ids = {i1, i2, i3}
SYMMETRY Symmetry
INVARIANTS
    TypeOK
    CookieLive
    UserMatchesToken
    LogoutSticks
