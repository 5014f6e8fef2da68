SPECIFICATION PolicySpec
CONSTANTS
    t1 = t1
    t2 = t2
    c1 = c1
    c2 = c2
    Tenants = {t1, t2}
    Sources = {c1, c2}
    TenantOf <- MCTenantOf
    Collections = {n}
    Default = Default
    Unset = Unset
    DefaultTTL = 6
    DefaultTTLs = {0, 3}
    CollectionTTLs = {0, 13}
    Second = 10
    Width = 8
    Admins = {p1, p2}
    MaxUpdates = 2
    MaxFaults = 2
INVARIANTS
    TTLPositive
    AckedSurvives
PROPERTIES
    SnapshotFresh
    EventuallyApplied
