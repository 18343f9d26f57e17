----------------------------- MODULE ChatSystem -----------------------------
(***************************************************************************)
(* The hub, its rooms and its connections together, every goroutine of     *)
(* internal/chat interleaved, and what the composition must guarantee.     *)
(***************************************************************************)
EXTENDS ClientPumps, RoomLoop, HubLoop

Init ==
    /\ rooms = [r \in RoomIds |-> Nil]
    /\ hubRegister = <<>>
    /\ hubUnregister = <<>>
    /\ hubBroadcast = <<>>
    /\ stopped = FALSE
    /\ hubPC = "select"
    /\ hubReq = NoRequest
    /\ hubRoom = Nil
    /\ roomPC = [o \in RoomObjs |-> "none"]
    /\ members = [o \in RoomObjs |-> {}]
    /\ roomReg = [o \in RoomObjs |-> <<>>]
    /\ roomUnreg = [o \in RoomObjs |-> <<>>]
    /\ roomBcast = [o \in RoomObjs |-> 0]
    /\ roomTodo = [o \in RoomObjs |-> {}]
    /\ roomVictim = [o \in RoomObjs |-> Nil]
    /\ idle = [o \in RoomObjs |-> FALSE]
    /\ roomClosed = [o \in RoomObjs |-> FALSE]
    /\ conn = [c \in Clients |-> "new"]
    /\ roomOf = [c \in Clients |-> Nil]
    /\ reader = [c \in Clients |-> "none"]
    /\ writer = [c \in Clients |-> "none"]
    /\ send = [c \in Clients |-> <<>>]
    /\ sendClosed = [c \in Clients |-> FALSE]
    /\ castRoom = [c \in Clients |-> Nil]
    /\ castTodo = [c \in Clients |-> {}]
    /\ frames = [c \in Clients |-> 0]
    /\ broadcasts = 0
    /\ panic = "none"
-----------------------------------------------------------------------------
\* The steps of each goroutine that need nobody else to act.
AnswerReader(c) ==
    \/ Register(c) \/ RegisterTimeout(c)
    \/ Pong(c) \/ PongTimeout(c)
    \/ CastSnapshot(c)
    \/ \E d \in Clients : CastSend(c, d)
    \/ Unregister(c) \/ UnregisterTimeout(c)

Writer(c) == WriteMsg(c) \/ WriteFail(c) \/ WriteClosed(c)

Room(o) ==
    \/ RoomRegister(o) \/ RoomUnregister(o) \/ RoomReceive(o) \/ RoomExit(o)
    \/ RoomSnapshot(o)
    \/ \E c \in Clients : RoomSend(o, c)
    \/ RoomEvict(o) \/ RoomHangUp(o)

Hub ==
    \/ HubTakeRegister \/ HubCreateRoom \/ HubStoreRoom
    \/ HubTakeUnregister \/ HubTakeBroadcast \/ HubForward
    \/ HubSweep \/ HubStop

\* What peers, the network, the clock and other callers may do.
Environment ==
    \/ \E c \in Clients :
          \/ \E r \in RoomIds : ServeWs(c, r) \/ ReadChat(c, r)
          \/ ServeWsRefused(c) \/ ReadPing(c) \/ ReadError(c) \/ PingFail(c)
    \/ \E r \in RoomIds : Broadcast(r)
    \/ \E o \in RoomObjs : Age(o)
    \/ Stop

Next ==
    \/ \E c \in Clients : AnswerReader(c) \/ Writer(c)
    \/ \E o \in RoomObjs : Room(o)
    \/ Hub
    \/ Environment

Spec == Init /\ [][Next]_vars

(***************************************************************************)
(* Each goroutine keeps running, a select serves every channel that stays  *)
(* ready, time.After and the tickers fire.  Reading from a closed          *)
(* connection and pinging through it fail.  Nothing is assumed of peers,   *)
(* of the network or of the callers of Broadcast and Stop.                 *)
(***************************************************************************)
Fairness ==
    /\ \A c \in Clients :
          /\ WF_vars(AnswerReader(c) \/ (conn[c] = "down" /\ ReadError(c)))
          /\ WF_vars(Writer(c) \/ (conn[c] = "down" /\ PingFail(c)))
    /\ \A o \in RoomObjs : WF_vars(Room(o))
    /\ WF_vars(Hub)

FairSpec == Spec /\ Fairness
-----------------------------------------------------------------------------
\* The abstract view: who sits where, and who has left for good.
Seats == [c \in Clients |-> {o \in RoomObjs : c \in members[o]}]
Left  == {c \in Clients : sendClosed[c]}

\* The hub's map and the goroutines agree: a room's goroutine runs with open
\* channels exactly while one id maps to it, through creation, sweeping and
\* stopping; Hub.Run and BroadcastToRoom never find a dead room, and no room
\* goroutine is left behind.
MapTracksRunning ==
    /\ \A o \in RoomObjs : Running(o) <=> \E r \in RoomIds : rooms[r] = o
    /\ \A r, s \in RoomIds : rooms[r] = rooms[s] /\ rooms[r] # Nil => r = s

\* A room's map only holds clients whose channel is open: the two places that
\* close it, leaving and eviction, also delete the entry, whichever comes
\* first and whatever is still queued for the client.
MembersOpen ==
    \A o \in RoomObjs : \A c \in members[o] : ~sendClosed[c]

\* c's registration has gone through every channel on its way.
JoinServed(c) ==
    /\ writer[c] # "none"
    /\ c \notin InQueue(hubRegister)
    /\ ~(hubReq.kind = "register" /\ hubReq.client = c)
    /\ \A o \in RoomObjs : c \notin InQueue(roomReg[o])

\* From the moment its registration is served until its own channel is closed,
\* a client has a seat, whatever the other clients, the sweeps and the evictions
\* do: none is removed with its pumps left waiting.  It rests on client.id being
\* unique, as its comment says.
SeatedUntilClosed ==
    \A c \in Clients : JoinServed(c) /\ ~sendClosed[c] => Seats[c] # {}

\* Hub.Run and Room.Run never panic: no forward to a nil or closed room, no
\* send to a client that was closed, no second close of a client.
RunLoopsNeverPanic == panic \notin {"hub", "nil", "room", "reclose"}

\* Hub.Run never waits on a channel that nobody reads: the room it forwards to
\* keeps running with open channels, and is at its select or has a client left to
\* send to before it is back there.  With a room that waits for nobody, this is why
\* full channels end in no cycle.
HubWaitsOnReader ==
    Alive /\ hubPC = "forward" =>
        /\ Running(hubRoom)
        /\ roomPC[hubRoom] = "cast" => roomTodo[hubRoom] # {}

\* What a peer finds in its buffer from any one sender is in the order the
\* sender wrote it, without duplicates, however broadcasts interleave.
SenderOrder ==
    \A d \in Clients : \A i, j \in DOMAIN send[d] :
        /\ i < j
        /\ send[d][i].from = send[d][j].from
        /\ send[d][i].from # Server
        => send[d][i].n < send[d][j].n

Promise == INSTANCE Membership WITH seats <- Seats, left <- Left

\* The rooms, the hub and the pumps together implement Membership.
ImplementsMembership == Promise!Spec
-----------------------------------------------------------------------------
Dead == ~Alive

\* An accepted registration is settled: the client is seated, or it has left
\* again, or its room was closed with the registration still in the channel,
\* or the hub was told to stop.  Hub.Run serves three channels and waits on
\* full room channels, and none of it starves a registration.
RegistrationSettles ==
    \A c \in Clients :
        writer[c] = "select"
            ~> \/ Dead \/ stopped \/ Seats[c] # {} \/ sendClosed[c]
               \/ \E o \in RoomObjs : roomClosed[o] /\ c \in InQueue(roomReg[o])

\* Hub.Run always comes back to its select: no cycle of full channels holds
\* the hub, a room and a pump waiting on each other.
HubReturns == hubPC # "select" ~> Dead \/ hubPC \in {"select", "done"}

\* Both pumps of a connection end once it is down, whichever pump, room or
\* handler closed it, and whatever the client's channel still holds.
PumpsStop ==
    \A c \in Clients :
        conn[c] = "down" ~> Dead \/ (reader[c] = "done" /\ writer[c] # "select")

\* A room the hub closed drains and its goroutine returns.
ClosedRoomsExit ==
    \A o \in RoomObjs : roomClosed[o] ~> Dead \/ roomPC[o] = "exit"
-----------------------------------------------------------------------------
(***************************************************************************)
(* What the comments of the code say and the code does not do.             *)
(***************************************************************************)

\* BroadcastToRoom is said to send to the room asynchronously, its loop to
\* find a buffer with room or full; ReadPump calls it and Send.
SendsNeverPanic == panic \notin {"broadcast", "pong"}

\* c's leaving has gone through every channel on its way.
LeaveServed(c) ==
    /\ reader[c] = "done"
    /\ c \notin InQueue(hubUnregister)
    /\ ~(hubReq.kind = "unregister" /\ hubReq.client = c)
    /\ \A o \in RoomObjs : c \notin InQueue(roomUnreg[o])

\* hub.unregister is said to be how a client leaves its room: once the leave
\* has been served, the client is in no room.
LeaveLeaves == \A c \in Clients : LeaveServed(c) => Seats[c] = {}

\* cleanupInactiveRooms is said to delete rooms that are empty and inactive:
\* while the hub runs, nobody is seated in a deleted room.
DeletedRoomsEmpty ==
    ~stopped => \A o \in RoomObjs : roomClosed[o] => members[o] = {}
=============================================================================
