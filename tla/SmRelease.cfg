SPECIFICATION FairSpec
CONSTANTS
    u1 = u1
    u2 = u2
    h1 = h1
    h2 = h2
    h3 = h3
    Path = {u1}
    AN = u1
    Sbi = {h1}
    MaxSbi = 1
    Ops = {"ReleaseRequest"}
    Early = FALSE
    Lossy = FALSE
PROPERTY ReleaseAnswered
CHECK_DEADLOCK FALSE
