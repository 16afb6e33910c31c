SPECIFICATION FairSpec
CONSTANTS
    Sid = {s1}
    s1 = s1
    h1 = h1
    h2 = h2
    r1 = r1
    Handler = {h1, h2}
    Revoker = {}
    Nobody = Nobody
    Nothing = Nothing
    MaxPairs = 2
    MaxFailures = 0
PROPERTY ReplayEndsSession
CHECK_DEADLOCK FALSE
