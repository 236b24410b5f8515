SPECIFICATION Spec
CONSTANTS
    r1 = r1
    r2 = r2
    u1 = u1
    u2 = u2
    NoRan = NoRan
    NoUe = NoUe
    Rans = {r1, r2}
    AmfUes = {u1, u2}
    MaxRanUe = 3
PROPERTY ServedAfterHandover
CHECK_DEADLOCK FALSE
