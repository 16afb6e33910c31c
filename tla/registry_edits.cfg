SPECIFICATION Spec
CONSTANTS
    a = a
    d1 = d1
    d2 = d2
    d3 = d3
    u1 = u1
    u2 = u2
    g1 = g1
    t1 = t1
    t2 = t2
    p1 = p1
    p2 = p2
    r1 = r1
    r2 = r2
    NoRow = NoRow
    NoTarget = NoTarget
    NoEntry = NoEntry
    NoSnapshot = NoSnapshot
    NoValue = NoValue
    Nobody = Nobody
    Name = {a}
    Url = {u1, u2}
    UrlOf <- MCUrlOf
    ModeOf <- MCModeOf
    Access = {g1}
    Def = {d1, d2, d3}
    Thread = {t1, t2, p1}
    Poller = {p1}
    Home <- OneHome
    Replica = {r1}
    Deployment <- OnlyPlain
    MaxVersion = 4
    MaxFaults = 0
INVARIANTS
    TypeOK
    NoLostUpdate
    StaticValueStaysHome
PROPERTIES
    ReplacementIsConfirmed
