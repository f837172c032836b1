SPECIFICATION Spec
CONSTANTS
    None = None
    Commands = {c1, c2, c3}
    Urls = {u1, u2}
    Tokens = {t1, t2}
SYMMETRY Symmetry
INVARIANTS
    TypeOK
    TokenSentToIssuer
    LoggedOut
    ConfigLoads
CHECK_DEADLOCK FALSE
