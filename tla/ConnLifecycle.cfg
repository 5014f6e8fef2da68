SPECIFICATION FairSpec
CONSTANTS
    Conns = {c1, c2}
    Tenants = {t1, t2}
    NoTenant = NoTenant
    MaxConns = 1
    MaxDrift = 1
INVARIANTS
    CountersExact
    LimitHolds
    BusyExact
    OneEscapes
PROPERTY Drains
CHECK_DEADLOCK FALSE
