SPECIFICATION Spec
CONSTANTS
    k1 = k1
    k2 = k2
    k3 = k3
    k4 = k4
    k5 = k5
    v1 = v1
    v2 = v2
    g1 = g1
    g2 = g2
    Keys <- FiveKeys
    Values <- TwoValues
    Globals <- TwoGlobals
    MaxHeight = 3
SYMMETRY KeySymmetry
CHECK_DEADLOCK FALSE
INVARIANTS
    ProofsAreExact
    SnapshotIsLastBlock
