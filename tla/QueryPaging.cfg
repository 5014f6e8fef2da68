SPECIFICATION Spec
CONSTANTS
    Conns = {c1, c2}
    NoConn = NoConn
    Total = 4
    Batches = {2, 3, 4}
    DefaultBatch = 1
    MaxResult = 3
    MaxIds = 2
INVARIANTS
    PagingComplete
    NoCursorOfClosed
