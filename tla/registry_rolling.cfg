SPECIFICATION FairSpec
CONSTANTS
    a = a
    d1 = d1
    d2 = d2
    d3 = d3
    u1 = u1
    u2 = u2
    g1 = g1
    t1 = t1
    t2 = t2
    p1 = p1
    p2 = p2
    r1 = r1
    r2 = r2
    NoRow = NoRow
    NoTarget = NoTarget
    NoEntry = NoEntry
    NoSnapshot = NoSnapshot
    NoValue = NoValue
    Nobody = Nobody
    Name = {a}
    Url = {u1, u2}
    UrlOf <- MCUrlOf
    ModeOf <- MCModeOf
    Access = {g1}
    Def = {d1, d2}
    Thread = {t1, p1, p2}
    Poller = {p1, p2}
    Home <- TwoHomes
    Replica = {r1, r2}
    Deployment <- Rolling
    MaxVersion = 3
    MaxFaults = 1
PROPERTIES
    ImplementsServedTargets
    Converges
