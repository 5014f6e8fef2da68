SPECIFICATION CommandSpec
CONSTANTS
    t1 = t1
    t2 = t2
    n1 = n1
    n2 = n2
    Tenants <- MCTenants
    Logins <- MCLogins
    NoLogin = NoLogin
    Requests <- MCAllRequests
    Clients = {k}
    Rate = 1
    Cost = 2
    Burst = 1
    Idle = 2
    MaxTime = 4
    MaxEntries = 1
INVARIANT StrippedIsVolatile
CHECK_DEADLOCK FALSE
