SPECIFICATION CSpec
CONSTANTS
    a = a
    dp = dp
    dt = dt
    ds = ds
    u1 = u1
    open = open
    shut = shut
    h1 = h1
    h2 = h2
    h3 = h3
    r1 = r1
    r2 = r2
    s1 = s1
    NoRow = NoRow
    NoTarget = NoTarget
    NoEntry = NoEntry
    NoSnapshot = NoSnapshot
    NoSession = NoSession
    Nothing = Nothing
    Name = {a}
    Url = {u1}
    UrlOf <- MCUrlOf
    ModeOf <- MCModeOf
    On <- MCOn
    Sid = {s1}
    Admitting = {open}
    SigningIn = {h1}
    Saving = {h3}
    Proxying = {h2}
    Replica = {r1, r2}
    Def = {dp, dt, ds}
    Access = {open, shut}
    Deployment <- Rolling
    MaxVersion = 2
    MaxRestarts = 0
INVARIANTS
    CredentialsTypeOK
    SentOnlyWhereMeant
    ForwardedToLiveDefinition
PROPERTIES
    WrittenOnlyWhileCurrent
    AdmittedByCurrentGroups
    NeverFalselyInvalid
