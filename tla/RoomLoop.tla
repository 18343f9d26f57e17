------------------------------ MODULE RoomLoop ------------------------------
(***************************************************************************)
(* The goroutine of Room.Run: it serves the three channels of the room     *)
(* until it finds one closed and drained, and sends every message to a     *)
(* snapshot of the clients, evicting those whose buffer is full.           *)
(***************************************************************************)
EXTENDS ChatModels

\* case reg: the client enters the map under room.mu.
RoomRegister(o) ==
    /\ Alive
    /\ roomPC[o] = "select"
    /\ roomReg[o] # <<>>
    /\ roomReg' = [roomReg EXCEPT ![o] = Tail(@)]
    /\ members' = [members EXCEPT ![o] = With(o, Head(roomReg[o]))]
    /\ idle' = [idle EXCEPT ![o] = FALSE]
    /\ roomPC' = [roomPC EXCEPT ![o] = "snap"]
    /\ UNCHANGED <<hubVars, roomUnreg, roomBcast, roomTodo, roomVictim,
                   roomClosed, clientVars, broadcasts, panic>>

\* Mutant: the channel is closed whether or not the client has an entry.
RoomUnregister_ClosesAbsent(o) ==
    LET c == Head(roomUnreg[o])
    IN  /\ Alive
        /\ roomPC[o] = "select"
        /\ roomUnreg[o] # <<>>
        /\ roomUnreg' = [roomUnreg EXCEPT ![o] = Tail(@)]
        /\ roomPC' = [roomPC EXCEPT ![o] = "snap"]
        /\ members' = [members EXCEPT ![o] = Without(o, c)]
        /\ idle' = [idle EXCEPT ![o] = FALSE]
        /\ CloseSend(c)
        /\ UNCHANGED <<hubVars, roomReg, roomBcast, roomTodo, roomVictim,
                       roomClosed, conn, roomOf, reader, writer, send,
                       castRoom, castTodo, frames, broadcasts>>

\* case unreg: an entry under the client's id is deleted and the client's
\* channel closed; "left" is broadcast in either case.
RoomUnregister(o) ==
    LET c == Head(roomUnreg[o])
    IN  /\ Alive
        /\ roomPC[o] = "select"
        /\ roomUnreg[o] # <<>>
        /\ roomUnreg' = [roomUnreg EXCEPT ![o] = Tail(@)]
        /\ roomPC' = [roomPC EXCEPT ![o] = "snap"]
        /\ \/ /\ Has(o, c)
              /\ members' = [members EXCEPT ![o] = Without(o, c)]
              /\ idle' = [idle EXCEPT ![o] = FALSE]
              /\ CloseSend(c)
           \/ /\ ~Has(o, c)
              /\ UNCHANGED <<members, idle, sendClosed, panic>>
        /\ UNCHANGED <<hubVars, roomReg, roomBcast, roomTodo, roomVictim,
                       roomClosed, conn, roomOf, reader, writer, send,
                       castRoom, castTodo, frames, broadcasts>>

\* case broadcast.
RoomReceive(o) ==
    /\ Alive
    /\ roomPC[o] = "select"
    /\ roomBcast[o] > 0
    /\ roomBcast' = [roomBcast EXCEPT ![o] = @ - 1]
    /\ roomPC' = [roomPC EXCEPT ![o] = "snap"]
    /\ UNCHANGED <<hubVars, members, roomReg, roomUnreg, roomTodo, roomVictim,
                   idle, roomClosed, clientVars, broadcasts, panic>>

\* Mutant: the room stays while it has clients.
RoomExit_WhenEmpty(o) ==
    /\ Alive
    /\ roomPC[o] = "select"
    /\ roomClosed[o]
    /\ members[o] = {}
    /\ roomPC' = [roomPC EXCEPT ![o] = "exit"]
    /\ UNCHANGED <<hubVars, members, roomReg, roomUnreg, roomBcast, roomTodo,
                   roomVictim, idle, roomClosed, clientVars, broadcasts, panic>>

\* A closed channel still yields what it buffers, then !ok; select picks any
\* channel that is ready, so messages left in the others are lost.
RoomExit(o) ==
    /\ Alive
    /\ roomPC[o] = "select"
    /\ roomClosed[o]
    /\ roomReg[o] = <<>> \/ roomUnreg[o] = <<>> \/ roomBcast[o] = 0
    /\ roomPC' = [roomPC EXCEPT ![o] = "exit"]
    /\ UNCHANGED <<hubVars, members, roomReg, roomUnreg, roomBcast, roomTodo,
                   roomVictim, idle, roomClosed, clientVars, broadcasts, panic>>
-----------------------------------------------------------------------------
AfterSend(todo) == IF todo = {} THEN "select" ELSE "cast"

\* broadcastToClients: the snapshot, under room.mu.
RoomSnapshot(o) ==
    /\ Alive
    /\ roomPC[o] = "snap"
    /\ roomTodo' = [roomTodo EXCEPT ![o] = members[o]]
    /\ roomPC' = [roomPC EXCEPT ![o] = AfterSend(members[o])]
    /\ UNCHANGED <<hubVars, members, roomReg, roomUnreg, roomBcast, roomVictim,
                   idle, roomClosed, clientVars, broadcasts, panic>>

\* Mutant: the send has no default and waits for room in the buffer.
RoomSend_Waits(o, c) ==
    /\ Alive
    /\ roomPC[o] = "cast"
    /\ c \in roomTodo[o]
    /\ ~sendClosed[c]
    /\ Len(send[c]) < SendCap
    /\ roomTodo' = [roomTodo EXCEPT ![o] = @ \ {c}]
    /\ send' = [send EXCEPT ![c] = Append(@, SystemMessage)]
    /\ roomPC' = [roomPC EXCEPT ![o] = AfterSend(roomTodo[o] \ {c})]
    /\ UNCHANGED <<hubVars, members, roomReg, roomUnreg, roomBcast, roomVictim,
                   idle, roomClosed, conn, roomOf, reader, writer, sendClosed,
                   castRoom, castTodo, frames, broadcasts, panic>>

\* One send of the loop, without a lock.  A full buffer means eviction.
RoomSend(o, c) ==
    /\ Alive
    /\ roomPC[o] = "cast"
    /\ c \in roomTodo[o]
    /\ roomTodo' = [roomTodo EXCEPT ![o] = @ \ {c}]
    /\ \/ /\ sendClosed[c]
          /\ panic' = "room"
          /\ UNCHANGED <<send, roomPC, roomVictim>>
       \/ /\ ~sendClosed[c]
          /\ Len(send[c]) < SendCap
          /\ send' = [send EXCEPT ![c] = Append(@, SystemMessage)]
          /\ roomPC' = [roomPC EXCEPT ![o] = AfterSend(roomTodo[o] \ {c})]
          /\ UNCHANGED <<roomVictim, panic>>
       \/ /\ ~sendClosed[c]
          /\ Len(send[c]) = SendCap
          /\ roomVictim' = [roomVictim EXCEPT ![o] = c]
          /\ roomPC' = [roomPC EXCEPT ![o] = "evict"]
          /\ UNCHANGED <<send, panic>>
    /\ UNCHANGED <<hubVars, members, roomReg, roomUnreg, roomBcast, idle,
                   roomClosed, conn, roomOf, reader, writer, sendClosed,
                   castRoom, castTodo, frames, broadcasts>>

\* Mutant: the eviction closes the channel and leaves the entry.
RoomEvict_KeepsEntry(o) ==
    /\ Alive
    /\ roomPC[o] = "evict"
    /\ CloseSend(roomVictim[o])
    /\ roomPC' = [roomPC EXCEPT ![o] = "hangup"]
    /\ UNCHANGED <<hubVars, members, roomReg, roomUnreg, roomBcast, roomTodo,
                   roomVictim, idle, roomClosed, conn, roomOf, reader,
                   writer, send, castRoom, castTodo, frames, broadcasts>>

\* Mutant: the eviction deletes the entry and leaves the channel open.
RoomEvict_LeavesOpen(o) ==
    /\ Alive
    /\ roomPC[o] = "evict"
    /\ members' = [members EXCEPT ![o] = Without(o, roomVictim[o])]
    /\ roomPC' = [roomPC EXCEPT ![o] = "hangup"]
    /\ UNCHANGED <<hubVars, roomReg, roomUnreg, roomBcast, roomTodo,
                   roomVictim, idle, roomClosed, clientVars, broadcasts, panic>>

\* delete and close(client.send), under room.mu.  lastActive keeps its value.
RoomEvict(o) ==
    LET c == roomVictim[o]
    IN  /\ Alive
        /\ roomPC[o] = "evict"
        /\ members' = [members EXCEPT ![o] = Without(o, c)]
        /\ CloseSend(c)
        /\ roomPC' = [roomPC EXCEPT ![o] = "hangup"]
        /\ UNCHANGED <<hubVars, roomReg, roomUnreg, roomBcast, roomTodo,
                       roomVictim, idle, roomClosed, conn, roomOf, reader,
                       writer, send, castRoom, castTodo, frames, broadcasts>>

\* client.conn.Close() follows, outside the lock.
RoomHangUp(o) ==
    /\ Alive
    /\ roomPC[o] = "hangup"
    /\ conn' = [conn EXCEPT ![roomVictim[o]] = "down"]
    /\ roomVictim' = [roomVictim EXCEPT ![o] = Nil]
    /\ roomPC' = [roomPC EXCEPT ![o] = AfterSend(roomTodo[o])]
    /\ UNCHANGED <<hubVars, members, roomReg, roomUnreg, roomBcast, roomTodo,
                   idle, roomClosed, roomOf, reader, writer, send, sendClosed,
                   castRoom, castTodo, frames, broadcasts, panic>>
=============================================================================
