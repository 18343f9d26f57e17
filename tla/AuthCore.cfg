SPECIFICATION Spec
CONSTANTS
    k1 = k1
    k2 = k2
    Calls = {k1, k2}
    Jtis = {j1, j2, j3}
    AccessTTL = 2
    RefreshTTL = 3
    MaxTime = 3
    MaxFaults = 1
    Nil = Nil
SYMMETRY AnyCall
INVARIANTS
    TypeOK
    SessionSurvives
    ReplacedIsSpent
    RevokedUntilExpiry
PROPERTIES
    NoRevival
    ContractKept
\* The clock and the pairs run out.
CHECK_DEADLOCK FALSE
