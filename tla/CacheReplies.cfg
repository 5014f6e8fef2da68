SPECIFICATION FairReplySpec
CONSTANTS
    Readers = {r1, r2}
    Writers = {w1, w2}
    n1 = n1
    Namespaces = {n1}
    Keys = {k1}
    KeyNS <- OneNamespace
    NoReader = NoReader
    MaxWrites = 1
    Faults = TRUE
INVARIANTS
    FreshUnlessOverlap
    Coalesced
    ReplyCovers
PROPERTIES
    RequestsEnd
    EventuallyFresh
