SPECIFICATION Spec
CONSTANTS
    Requests = {p1, p2}
    NoAccount = NoAccount
    Limit = 1
    Faults = TRUE
    MaxCodes = 2
    MaxGuesses = 3
    MaxSessions = 2
SYMMETRY Symmetry
INVARIANTS
    GuessBound
    RedeemedIsGone
    NewestKept
    OneAccount
CHECK_DEADLOCK FALSE
