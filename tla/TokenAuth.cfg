SPECIFICATION Spec
CONSTANTS
    Tokens = {t1, t2}
    Legacy = {t2}
    Conns = {c1, c2}
    NoToken = NoToken
    NoConn = NoConn
    Auths = {a1, a2}
    Admins = {p1, p2}
SYMMETRY Symmetry
PROPERTIES
    Implements
    WindowCloses
