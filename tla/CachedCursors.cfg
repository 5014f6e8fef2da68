SPECIFICATION CursorFairSpec
CONSTANTS
    Conns = {c1, c2}
    NoConn = NoConn
    MaxDocs = 3
    DefaultBatch = 1
    Batches = {1}
    MaxBytes = 2
    MaxIds = 4
INVARIANTS
    ByteAccounting
    OvershootBounded
    OwnersAreOpen
PROPERTY RegisterReturns
