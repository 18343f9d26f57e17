SPECIFICATION FairSpec
CONSTANTS
    Requests = {q1, q2}
    ShardCounts <- Counts
    MaxMessages = 2
INVARIANTS
    TypeOK
    HandlersHaveResources
    ClosedInReverse
    NothingLeftOpen
    NoOrphanConnection
PROPERTIES
    SignalEnds
    SubscriptionsEnd
\* The process ends.
CHECK_DEADLOCK FALSE
