------------------------------ MODULE ChatAdmin ------------------------------
(***************************************************************************)
(* The hub with a caller that administers its rooms: CreateRoom and        *)
(* DeleteRoom run on the caller's goroutine, beside Hub.Run and Room.Run,  *)
(* which share with them hub.mu and room.mu but not the channels that they *)
(* close.  Nothing in the repository calls them yet but Hub.Run itself.    *)
(***************************************************************************)
EXTENDS ChatSystem

\* CreateRoom for a caller.  With the id free the room is there at once; a taken
\* id is an error and changes nothing.
CreateRoom(r) ==
    /\ Alive
    /\ rooms[r] = Nil
    /\ \E o \in RoomObjs : roomPC[o] = "none"
    /\ rooms' = [rooms EXCEPT ![r] = FreshRoom]
    /\ roomPC' = [roomPC EXCEPT ![FreshRoom] = "select"]
    /\ UNCHANGED <<hubRegister, hubUnregister, hubBroadcast, stopped, hubPC,
                   hubReq, hubRoom, members, roomReg, roomUnreg, roomBcast,
                   roomTodo, roomVictim, idle, roomClosed, clientVars,
                   broadcasts, panic>>

\* Mutant: the clients stay in the map of the room.
DeleteRoom_KeepsEntries(r) ==
    LET o == rooms[r]
    IN  /\ Alive
        /\ o # Nil
        /\ sendClosed' = [c \in Clients |-> sendClosed[c] \/ c \in members[o]]
        /\ conn' = [c \in Clients |-> IF c \in members[o] THEN "down" ELSE conn[c]]
        /\ rooms' = [rooms EXCEPT ![r] = Nil]
        /\ roomClosed' = [roomClosed EXCEPT ![o] = TRUE]
        /\ UNCHANGED <<hubRegister, hubUnregister, hubBroadcast, stopped, hubPC,
                       hubReq, hubRoom, roomPC, members, roomReg, roomUnreg,
                       roomBcast, roomTodo, roomVictim, idle, roomOf, reader,
                       writer, send, castRoom, castTodo, frames, broadcasts, panic>>

\* Mutant: only the connections are closed.
DeleteRoom_HangsUp(r) ==
    LET o == rooms[r]
    IN  /\ Alive
        /\ o # Nil
        /\ conn' = [c \in Clients |-> IF c \in members[o] THEN "down" ELSE conn[c]]
        /\ members' = [members EXCEPT ![o] = {}]
        /\ rooms' = [rooms EXCEPT ![r] = Nil]
        /\ roomClosed' = [roomClosed EXCEPT ![o] = TRUE]
        /\ UNCHANGED <<hubRegister, hubUnregister, hubBroadcast, stopped, hubPC,
                       hubReq, hubRoom, roomPC, roomReg, roomUnreg, roomBcast,
                       roomTodo, roomVictim, idle, roomOf, reader, writer, send,
                       sendClosed, castRoom, castTodo, frames, broadcasts, panic>>

(***************************************************************************)
(* DeleteRoom, under hub.mu: every client in the map loses its channel and *)
(* its connection under room.mu, then the channels of the room are closed  *)
(* and its id is free.  A close of what is closed panics: of a client's    *)
(* channel, or of the channels of a room that Hub.Run has stored again     *)
(* after an earlier DeleteRoom.                                            *)
(***************************************************************************)
DeleteRoom(r) ==
    LET o == rooms[r]
    IN  /\ Alive
        /\ o # Nil
        /\ sendClosed' = [c \in Clients |-> sendClosed[c] \/ c \in members[o]]
        /\ conn' = [c \in Clients |-> IF c \in members[o] THEN "down" ELSE conn[c]]
        /\ members' = [members EXCEPT ![o] = {}]
        /\ rooms' = [rooms EXCEPT ![r] = Nil]
        /\ roomClosed' = [roomClosed EXCEPT ![o] = TRUE]
        /\ panic' = IF roomClosed[o] \/ \E c \in members[o] : sendClosed[c]
                      THEN "reclose" ELSE panic
        /\ UNCHANGED <<hubRegister, hubUnregister, hubBroadcast, stopped, hubPC,
                       hubReq, hubRoom, roomPC, roomReg, roomUnreg, roomBcast,
                       roomTodo, roomVictim, idle, roomOf, reader, writer, send,
                       castRoom, castTodo, frames, broadcasts>>

Admin == \E r \in RoomIds : CreateRoom(r) \/ DeleteRoom(r)

AdminSpec == Init /\ [][Next \/ Admin]_vars
-----------------------------------------------------------------------------
\* c's registration is with a goroutine that goes on: in a channel it reads, or
\* in its hands.
Carried(c) ==
    \/ hubPC # "done" /\ c \in InQueue(hubRegister)
    \/ hubReq.kind = "register" /\ hubReq.client = c
    \/ \E o \in RoomObjs :
          roomPC[o] \notin {"none", "exit"} /\ c \in InQueue(roomReg[o])

\* c's registration was left in a channel that nobody reads any more: the hub was
\* stopped, or the room was closed and Room.Run found another channel drained.
Stranded(c) ==
    \/ hubPC = "done" /\ c \in InQueue(hubRegister)
    \/ \E o \in RoomObjs :
          roomPC[o] = "exit" /\ roomClosed[o] /\ c \in InQueue(roomReg[o])

\* Up to the first panic, a client with pumps and an open channel has a seat, or
\* its registration is on its way, or it was stranded by a stopped hub or a closed
\* room.  DeleteRoom, CreateRoom, evictions and full channels lose no registration
\* in any other way, and take nobody's seat without closing the client too.
SeatedOrStranded ==
    Alive => \A c \in Clients :
                 writer[c] # "none" /\ ~sendClosed[c]
                     => Seats[c] # {} \/ Carried(c) \/ Stranded(c)
=============================================================================
