------------------------------- MODULE HubLoop -------------------------------
(***************************************************************************)
(* The goroutine of Hub.Run, and the calls other goroutines make on a hub  *)
(* from outside the pumps: Broadcast and Stop.                             *)
(***************************************************************************)
EXTENDS ChatModels

\* The rooms' goroutines that are running with open channels.
Running(o) == roomPC[o] # "none" /\ roomPC[o] # "exit" /\ ~roomClosed[o]

\* Mutant: a registration for a room that is not there is ignored.
HubTakeRegister_IgnoresMissing ==
    LET c == Head(hubRegister)
        r == roomOf[c]
    IN  /\ Alive
        /\ hubPC = "select"
        /\ hubRegister # <<>>
        /\ hubRegister' = Tail(hubRegister)
        /\ rooms[r] = Nil
        /\ UNCHANGED <<rooms, hubUnregister, hubBroadcast, stopped, hubPC,
                       hubReq, hubRoom, roomVars, clientVars, broadcasts, panic>>

\* case reg: the message and the lookup under hub.mu.
HubTakeRegister ==
    LET c == Head(hubRegister)
        r == roomOf[c]
    IN  /\ Alive
        /\ hubPC = "select"
        /\ hubRegister # <<>>
        /\ hubRegister' = Tail(hubRegister)
        /\ hubReq' = [kind |-> "register", client |-> c, room |-> r]
        /\ hubRoom' = rooms[r]
        /\ hubPC' = IF rooms[r] = Nil THEN "create" ELSE "forward"
        /\ UNCHANGED <<rooms, hubUnregister, hubBroadcast, stopped, roomVars,
                       clientVars, broadcasts, panic>>

\* What NewRoom returns: a pointer not in use yet, no matter which.
FreshRoom == CHOOSE o \in RoomObjs : roomPC[o] = "none"

\* CreateRoom, under hub.mu, and the goroutine it starts.  An id that is
\* taken meanwhile gives nil and an error Run discards.
HubCreateRoom ==
    LET r == hubReq.room
    IN  /\ Alive
        /\ hubPC = "create"
        /\ hubPC' = "store"
        /\ \/ /\ rooms[r] # Nil
              /\ hubRoom' = Nil
              /\ UNCHANGED <<rooms, roomPC>>
           \/ /\ rooms[r] = Nil
              /\ \E o \in RoomObjs : roomPC[o] = "none"
              /\ hubRoom' = FreshRoom
              /\ rooms' = [rooms EXCEPT ![r] = FreshRoom]
              /\ roomPC' = [roomPC EXCEPT ![FreshRoom] = "select"]
        /\ UNCHANGED <<hubRegister, hubUnregister, hubBroadcast, stopped,
                       hubReq, members, roomReg, roomUnreg, roomBcast,
                       roomTodo, roomVictim, idle, roomClosed, clientVars,
                       broadcasts, panic>>

\* Run stores the room a second time, under hub.mu.
HubStoreRoom ==
    /\ Alive
    /\ hubPC = "store"
    /\ rooms' = [rooms EXCEPT ![hubReq.room] = hubRoom]
    /\ hubPC' = "forward"
    /\ UNCHANGED <<hubRegister, hubUnregister, hubBroadcast, stopped, hubReq,
                   hubRoom, roomVars, clientVars, broadcasts, panic>>

\* case unreg and case brodcast: the lookup; a room that is gone is ignored.
HubTakeUnregister ==
    LET c == Head(hubUnregister)
        r == roomOf[c]
    IN  /\ Alive
        /\ hubPC = "select"
        /\ hubUnregister # <<>>
        /\ hubUnregister' = Tail(hubUnregister)
        /\ \/ /\ rooms[r] # Nil
              /\ hubReq' = [kind |-> "unregister", client |-> c, room |-> r]
              /\ hubRoom' = rooms[r]
              /\ hubPC' = "forward"
           \/ /\ rooms[r] = Nil
              /\ UNCHANGED <<hubReq, hubRoom, hubPC>>
        /\ UNCHANGED <<rooms, hubRegister, hubBroadcast, stopped, roomVars,
                       clientVars, broadcasts, panic>>

HubTakeBroadcast ==
    LET r == Head(hubBroadcast)
    IN  /\ Alive
        /\ hubPC = "select"
        /\ hubBroadcast # <<>>
        /\ hubBroadcast' = Tail(hubBroadcast)
        /\ \/ /\ rooms[r] # Nil
              /\ hubReq' = [kind |-> "broadcast", client |-> Nil, room |-> r]
              /\ hubRoom' = rooms[r]
              /\ hubPC' = "forward"
           \/ /\ rooms[r] = Nil
              /\ UNCHANGED <<hubReq, hubRoom, hubPC>>
        /\ UNCHANGED <<rooms, hubRegister, hubUnregister, stopped, roomVars,
                       clientVars, broadcasts, panic>>

\* Mutant: a registration that finds the room's channel full is dropped.
HubForward_Drops ==
    LET q == roomReg[hubRoom]
    IN  /\ Alive
        /\ hubPC = "forward"
        /\ hubReq.kind = "register"
        /\ hubRoom # Nil
        /\ ~roomClosed[hubRoom]
        /\ hubPC' = "select"
        /\ hubReq' = NoRequest
        /\ hubRoom' = Nil
        /\ roomReg' = [roomReg EXCEPT ![hubRoom] =
                          IF Len(q) < RoomCap THEN Append(q, hubReq.client) ELSE q]
        /\ UNCHANGED <<rooms, hubRegister, hubUnregister, hubBroadcast, stopped,
                       roomPC, members, roomUnreg, roomBcast, roomTodo, roomVictim,
                       idle, roomClosed, clientVars, broadcasts, panic>>

\* The send on the room's channel: it waits while the channel is full and
\* panics on a nil room or a closed channel.
HubForward ==
    /\ Alive
    /\ hubPC = "forward"
    /\ hubPC' = "select"
    /\ hubReq' = NoRequest
    /\ hubRoom' = Nil
    /\ \/ /\ hubRoom = Nil
          /\ panic' = "nil"
          /\ UNCHANGED <<roomReg, roomUnreg, roomBcast>>
       \/ /\ hubRoom # Nil
          /\ roomClosed[hubRoom]
          /\ panic' = "hub"
          /\ UNCHANGED <<roomReg, roomUnreg, roomBcast>>
       \/ /\ hubRoom # Nil
          /\ ~roomClosed[hubRoom]
          /\ hubReq.kind = "register"
          /\ Len(roomReg[hubRoom]) < RoomCap
          /\ roomReg' = [roomReg EXCEPT ![hubRoom] = Append(@, hubReq.client)]
          /\ UNCHANGED <<roomUnreg, roomBcast, panic>>
       \/ /\ hubRoom # Nil
          /\ ~roomClosed[hubRoom]
          /\ hubReq.kind = "unregister"
          /\ Len(roomUnreg[hubRoom]) < RoomCap
          /\ roomUnreg' = [roomUnreg EXCEPT ![hubRoom] = Append(@, hubReq.client)]
          /\ UNCHANGED <<roomReg, roomBcast, panic>>
       \/ /\ hubRoom # Nil
          /\ ~roomClosed[hubRoom]
          /\ hubReq.kind = "broadcast"
          /\ roomBcast[hubRoom] < RoomCap
          /\ roomBcast' = [roomBcast EXCEPT ![hubRoom] = @ + 1]
          /\ UNCHANGED <<roomReg, roomUnreg, panic>>
    /\ UNCHANGED <<rooms, hubRegister, hubUnregister, hubBroadcast, stopped,
                   roomPC, members, roomTodo, roomVictim, idle, roomClosed,
                   clientVars, broadcasts>>
-----------------------------------------------------------------------------
\* Mutant: the rooms leave the map with their channels open.
CloseRooms_LeavesOpen(ids) ==
    /\ rooms' = [r \in RoomIds |-> IF r \in ids THEN Nil ELSE rooms[r]]
    /\ UNCHANGED roomClosed

\* close() of the channels of these rooms, and their deletion from the map.
CloseRooms(ids) ==
    /\ roomClosed' = [o \in RoomObjs |->
                        roomClosed[o] \/ \E r \in ids : rooms[r] = o]
    /\ rooms' = [r \in RoomIds |-> IF r \in ids THEN Nil ELSE rooms[r]]

Inactive(r) ==
    /\ rooms[r] # Nil
    /\ members[rooms[r]] = {}
    /\ idle[rooms[r]]

\* Mutant: the sweep runs beside the loop, between a lookup and its forward.
HubSweep_Concurrent ==
    /\ Alive
    /\ \E r \in RoomIds : Inactive(r)
    /\ CloseRooms({r \in RoomIds : Inactive(r)})
    /\ UNCHANGED <<hubRegister, hubUnregister, hubBroadcast, stopped, hubPC,
                   hubReq, hubRoom, roomPC, members, roomReg, roomUnreg,
                   roomBcast, roomTodo, roomVictim, idle, clientVars,
                   broadcasts, panic>>

\* The ticker: cleanupInactiveRooms, under hub.mu.
HubSweep ==
    /\ Alive
    /\ hubPC = "select"
    /\ \E r \in RoomIds : Inactive(r)
    /\ CloseRooms({r \in RoomIds : Inactive(r)})
    /\ UNCHANGED <<hubRegister, hubUnregister, hubBroadcast, stopped, hubPC,
                   hubReq, hubRoom, roomPC, members, roomReg, roomUnreg,
                   roomBcast, roomTodo, roomVictim, idle, clientVars,
                   broadcasts, panic>>

\* case stop: cleanup closes every room and Run returns.
HubStop ==
    /\ Alive
    /\ hubPC = "select"
    /\ stopped
    /\ hubPC' = "done"
    /\ CloseRooms(RoomIds)
    /\ UNCHANGED <<hubRegister, hubUnregister, hubBroadcast, stopped, hubReq,
                   hubRoom, roomPC, members, roomReg, roomUnreg, roomBcast,
                   roomTodo, roomVictim, idle, clientVars, broadcasts, panic>>
-----------------------------------------------------------------------------
\* Hub.Stop closes hub.stop; wg counts nothing, so it does not wait.
Stop ==
    /\ Alive
    /\ MayStop
    /\ ~stopped
    /\ stopped' = TRUE
    /\ UNCHANGED <<rooms, hubRegister, hubUnregister, hubBroadcast, hubPC,
                   hubReq, hubRoom, roomVars, clientVars, broadcasts, panic>>

\* Hub.Broadcast of a message whose RoomID is r.  On a full channel it gives
\* up after 3 seconds, which changes nothing.
Broadcast(r) ==
    /\ Alive
    /\ broadcasts < MaxBroadcasts
    /\ Len(hubBroadcast) < HubCap
    /\ broadcasts' = broadcasts + 1
    /\ hubBroadcast' = Append(hubBroadcast, r)
    /\ UNCHANGED <<rooms, hubRegister, hubUnregister, stopped, hubPC, hubReq,
                   hubRoom, roomVars, clientVars, panic>>

\* Ten minutes pass for a room without a join or a leave.  Nothing waits that
\* long in a channel of a running hub and room, so none is waiting when they do.
Age(o) ==
    /\ Alive
    /\ Running(o)
    /\ ~idle[o]
    /\ hubPC = "select" /\ hubRegister = <<>> /\ hubUnregister = <<>>
    /\ roomPC[o] = "select" /\ roomReg[o] = <<>> /\ roomUnreg[o] = <<>>
    /\ idle' = [idle EXCEPT ![o] = TRUE]
    /\ UNCHANGED <<hubVars, roomPC, members, roomReg, roomUnreg, roomBcast,
                   roomTodo, roomVictim, roomClosed, clientVars, broadcasts,
                   panic>>
=============================================================================
