SPECIFICATION CursorsSpec
CONSTANTS
    Workers = {w1, w2, w3}
    Conns = {c1}
    NoWorker = NoWorker
    MaxClients = 3
    Cursors = {x}
    NoConn = NoConn
INVARIANTS
    NoLeakedRef
    NoClientLeak
    ExactUnlessCoalesced
    CursorKeepsClient
PROPERTIES
    GetReturns
    IdleClientsClosed
