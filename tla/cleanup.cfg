SPECIFICATION FairCSpec
CONSTANTS
    a = a
    dp = dp
    dt = dt
    ds = ds
    u1 = u1
    open = open
    shut = shut
    h1 = h1
    h2 = h2
    h3 = h3
    r1 = r1
    r2 = r2
    s1 = s1
    NoRow = NoRow
    NoTarget = NoTarget
    NoEntry = NoEntry
    NoSnapshot = NoSnapshot
    NoSession = NoSession
    Nothing = Nothing
    Name = {a}
    Url = {u1}
    UrlOf <- MCUrlOf
    ModeOf <- MCModeOf
    On <- MCOn
    Sid = {s1}
    Admitting = {open}
    SigningIn = {h1}
    Saving = {h3}
    Proxying = {}
    Replica = {r1}
    Def = {dp, dt}
    Access = {open}
    Deployment <- Rolling
    MaxVersion = 3
    MaxRestarts = 1
INVARIANTS
    StampsNeverReturn
PROPERTIES
    StaleRowsGo
