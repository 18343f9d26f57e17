SPECIFICATION AdminSpec
CONSTANTS
    c1 = c1
    c2 = c2
    Clients = {c1, c2}
    RoomIds = {r1}
    RoomObjs = {o1, o2}
    ClientId <- UniqueId
    HubCap = 1
    RoomCap = 1
    SendCap = 1
    MaxFrames <- NoFrames
    MaxBroadcasts = 1
    MayStop = FALSE
    Server = Server
    Nil = Nil
SYMMETRY AnyClient
INVARIANTS
    MembersOpen
    SeatedOrStranded
PROPERTIES
    ImplementsMembership
\* Every connection ends sooner or later, and a panic ends the process.
CHECK_DEADLOCK FALSE
