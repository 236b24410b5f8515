SPECIFICATION Spec
CONSTANTS
    minValue = 3
    maxValue = 6
    c1 = c1
    c2 = c2
    c3 = c3
    Clients <- MCClients
SYMMETRY ClientSymmetry
INVARIANT TypeOK UniqueIds RefusedOnlyWhenFull UsedIffHeld
