SPECIFICATION FairSpec
CONSTANTS
    c1 = c1
    s1 = s1
    w1 = w1
    w2 = w2
    Client = {c1}
    Sid = {s1}
    ClientOf <- MCClientOf
    Sweeper = {w1, w2}
    FlowTTL = 1
    CodeTTL = 1
    AccessTTL = 1
    RefreshTTL = 3
    SessionTTL = 5
    UnusedClientTTL = 1
    Hour = 1
    Day = 1
    Never = Never
    MaxTime = 8
    MaxPairs = 2
    MaxFailures = 1
PROPERTY SweepTakesNothingUsable
PROPERTY ProviderTokensGo
