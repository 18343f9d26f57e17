SPECIFICATION Spec
CONSTANTS
    c1 = c1
    c2 = c2
    Clients = {c1, c2}
    RoomIds = {r1}
    RoomObjs = {o1, o2}
    ClientId <- UniqueId
    HubCap = 1
    RoomCap = 1
    SendCap = 1
    MaxFrames <- NoFrames
    MaxBroadcasts = 0
    MayStop = FALSE
    Server = Server
    Nil = Nil
INVARIANTS
    DeletedRoomsEmpty
\* Every connection ends sooner or later, and a panic ends the process.
CHECK_DEADLOCK FALSE
