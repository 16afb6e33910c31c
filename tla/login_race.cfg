SPECIFICATION Spec
CONSTANTS
    b1 = b1
    b2 = b2
    p1 = p1
    p2 = p2
    f1 = f1
    f2 = f2
    x1 = x1
    x2 = x2
    x3 = x3
    NoCookie = NoCookie
    NoFlow = NoFlow
    NoSession = NoSession
    NoBrowser = NoBrowser
    Nobody = Nobody
    Browser = {b1}
    Person = {p1}
    Flow = {f1, f2}
    Secret = {x1, x2, x3}
    FlowTTL = 2
    AdminTTL = 1
    SettingsTTL = 2
    MaxTime = 4
INVARIANT FirstPageStaysGood
CHECK_DEADLOCK FALSE
