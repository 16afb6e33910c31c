SPECIFICATION Spec
CONSTANTS
    m1 = m1
    m2 = m2
    old = old
    new = new
    Never = Never
    Process = {m1, m2}
    Stamp = {old, new}
    Deployment <- MCDeployment
    Age = 3
    SeenKept = 4
    Interval = 1
    MaxMissed = 1
    MaxTime = 5
SYMMETRY Symmetry
INVARIANT StrayIsGone
PROPERTY ServedIsKept
CHECK_DEADLOCK FALSE
