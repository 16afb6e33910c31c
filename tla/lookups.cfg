SPECIFICATION FairSpec
CONSTANTS
    q1 = q1
    q2 = q2
    id1 = id1
    id2 = id2
    None = None
    Caller = {q1, q2}
    ClientId = {id1, id2}
    TTL = 1
    MaxStale = 3
    RetryAfter = 1
    DocTTL = 2
    FailTTL = 1
    CacheSize = 1
    MaxHangUps = 1
INVARIANT OutagesAreSurvived
INVARIANT NobodyPaysForAHangUp
PROPERTY BackOffHolds
PROPERTY OutagesEnd
