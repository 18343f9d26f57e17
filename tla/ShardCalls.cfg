SPECIFICATION FairSpec
CONSTANTS
    k1 = k1
    k2 = k2
    Calls = {k1, k2}
    MayCall <- TwoCalls
    HubSize = 2
    HubCap = 1
INVARIANTS
    TypeOK
    OncePerHub
    CloseNeedsTwoStops
    NoLostWakeup
PROPERTIES
    CallsReturn
\* A hub that was stopped does nothing more, and a panic ends the process.
CHECK_DEADLOCK FALSE
