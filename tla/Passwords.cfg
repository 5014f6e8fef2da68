SPECIFICATION Spec
CONSTANTS
    Requests = {p1, p2}
    Words = {a, l}
    TooLong = {l}
    NoPassword = NoPassword
    MaxResets = 2
    MaxSessions = 1
SYMMETRY Symmetry
INVARIANTS
    TokenExactlyOnce
    NeedsProof
