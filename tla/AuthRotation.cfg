SPECIFICATION Spec
CONSTANTS
    k1 = k1
    k2 = k2
    Calls = {k1, k2}
    Jtis = {j1, j2, j3}
    AccessTTL = 1
    RefreshTTL = 2
    MaxTime = 1
    MaxFaults = 0
    Nil = Nil
SYMMETRY AnyCall
INVARIANTS
    OneSuccessor
\* The clock and the pairs run out.
CHECK_DEADLOCK FALSE
