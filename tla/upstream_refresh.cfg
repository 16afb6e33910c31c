SPECIFICATION FairSpec
CONSTANTS
    q1 = q1
    q2 = q2
    q3 = q3
    r1 = r1
    r2 = r2
    s1 = s1
    s2 = s2
    k1 = k1
    Nobody = Nobody
    Nothing = Nothing
    Request = {q1, q2, q3}
    Replica = {r1, r2}
    On <- MCOn
    Sid = {s1}
    Stripe = {k1}
    StripeOf <- MCStripeOf
    Attempts = 2
    MaxIssued = 3
INVARIANT TypeOK
INVARIANT PresentsHonoured
INVARIANT RowFollowsProvider
INVARIANT SentWasRecorded
PROPERTY RefreshesOnlyExpired
PROPERTY WaitersAreAnswered
CHECK_DEADLOCK FALSE
