SPECIFICATION Spec
CONSTANTS
    p1 = p1
    x1 = x1
    m1 = m1
    r1 = r1
    r2 = r2
    a = a
    b = b
    c = c
    d = d
    None = None
    Item <- ChainRows
    WorkType <- Types
    TypeOf <- ChainTypeOf
    Worker <- ChainWorkers
    RoleOf <- ChainRoles
    Source <- ChainSource
    Follow <- ChainFollow
    Fresh <- ChainFresh
    Guarded <- ChainGuarded
    Lease = 1
    DeferDelay = 1
    MaxAttempts = 2
    MaxFaults = 2
    MaxClaims = 8
PROPERTIES
    LeaseExclusive
