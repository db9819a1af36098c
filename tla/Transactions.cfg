SPECIFICATION FairSpec
CONSTANTS
    r0 = r0
    r1 = r1
    r2 = r2
    k0 = k0
    k1 = k1
    k2 = k2
    u1 = u1
    u2 = u2
    u3 = u3
    m1 = m1
    m2 = m2
    Requests = {r0, r1, r2}
    Past = {r0}
    Keys = {k0, k1, k2}
    Users = {u1, u2, u3}
    KnownUsers = {u1, u2}
    Merchants = {m1, m2}
    Scenarios <- MCScenarios
    PoolSize = 3
    StatsTTL = 1
    PlaceTTL = 1
    NoRow = NoRow
    MaxClock = 1
    MaxEvents = 1
INVARIANTS
    ReplayAgrees
    RefusedWasCharged
    FetchedStillLatest
    RiskWasRecent
PROPERTIES
    EverythingSettles
