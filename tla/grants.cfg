SPECIFICATION FairSpec
CONSTANTS
    Sid = {s1}
    s1 = s1
    h1 = h1
    h2 = h2
    r1 = r1
    Handler = {h1, h2}
    Revoker = {r1}
    Nobody = Nobody
    Nothing = Nothing
    MaxPairs = 3
    MaxFailures = 1
INVARIANT TypeOK
INVARIANT OnePairPerConsumption
INVARIANT RevokedIsGone
PROPERTY SpentOnlyForSuccessor
PROPERTY EndsOnlyForReplayOrRevoke
PROPERTY ReplayEndsSessionUnlessKept
PROPERTY RevokeEndsSessionUnlessKept
CHECK_DEADLOCK FALSE
