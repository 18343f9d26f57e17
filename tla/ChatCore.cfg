SPECIFICATION Spec
CONSTANTS
    c1 = c1
    c2 = c2
    Clients = {c1, c2}
    RoomIds = {r1}
    RoomObjs = {o1, o2}
    ClientId <- UniqueId
    HubCap = 1
    RoomCap = 1
    SendCap = 2
    MaxFrames <- TwoFromC1
    MaxBroadcasts = 0
    MayStop = TRUE
    Server = Server
    Nil = Nil
INVARIANTS
    TypeOK
    MapTracksRunning
    MembersOpen
    RunLoopsNeverPanic
    SeatedUntilClosed
    HubWaitsOnReader
    SenderOrder
PROPERTIES
    ImplementsMembership
\* Every connection ends sooner or later, and a panic ends the process.
CHECK_DEADLOCK FALSE
