----------------------------- MODULE ClientPumps -----------------------------
(***************************************************************************)
(* One connection: the handler ServeWs, then the two goroutines it starts, *)
(* ReadPump and WritePump, with the hub functions they call on their own   *)
(* goroutine (Register, Unregister, BroadcastToRoom).                      *)
(***************************************************************************)
EXTENDS ChatModels

\* ServeWs up to its call of Register: upgrade, NewClient, client.roomID.
ServeWs(c, r) ==
    /\ Alive
    /\ conn[c] = "new"
    /\ conn' = [conn EXCEPT ![c] = "open"]
    /\ roomOf' = [roomOf EXCEPT ![c] = r]
    /\ reader' = [reader EXCEPT ![c] = "register"]
    /\ UNCHANGED <<hubVars, roomVars, writer, send, sendClosed, castRoom,
                   castTodo, frames, broadcasts, panic>>

\* The upgrade fails or user_id is missing: the connection is closed.
ServeWsRefused(c) ==
    /\ Alive
    /\ conn[c] = "new"
    /\ conn' = [conn EXCEPT ![c] = "down"]
    /\ reader' = [reader EXCEPT ![c] = "done"]
    /\ UNCHANGED <<hubVars, roomVars, roomOf, writer, send, sendClosed,
                   castRoom, castTodo, frames, broadcasts, panic>>

\* Mutant: the send on hub.register does not wait for room in the channel.
Register_Unbounded(c) ==
    /\ Alive
    /\ reader[c] = "register"
    /\ hubRegister' = Append(hubRegister, c)
    /\ reader' = [reader EXCEPT ![c] = "read"]
    /\ writer' = [writer EXCEPT ![c] = "select"]
    /\ UNCHANGED <<rooms, hubUnregister, hubBroadcast, stopped, hubPC, hubReq,
                   hubRoom, roomVars, conn, roomOf, send, sendClosed,
                   castRoom, castTodo, frames, broadcasts, panic>>

\* Hub.Register delivers the message; ServeWs starts both pumps.
Register(c) ==
    /\ Alive
    /\ reader[c] = "register"
    /\ Len(hubRegister) < HubCap
    /\ hubRegister' = Append(hubRegister, c)
    /\ reader' = [reader EXCEPT ![c] = "read"]
    /\ writer' = [writer EXCEPT ![c] = "select"]
    /\ UNCHANGED <<rooms, hubUnregister, hubBroadcast, stopped, hubPC, hubReq,
                   hubRoom, roomVars, conn, roomOf, send, sendClosed,
                   castRoom, castTodo, frames, broadcasts, panic>>

\* hub.register stays full for 5 seconds: ServeWs closes the connection.
RegisterTimeout(c) ==
    /\ Alive
    /\ reader[c] = "register"
    /\ Len(hubRegister) = HubCap
    /\ conn' = [conn EXCEPT ![c] = "down"]
    /\ reader' = [reader EXCEPT ![c] = "done"]
    /\ UNCHANGED <<hubVars, roomVars, roomOf, writer, send, sendClosed,
                   castRoom, castTodo, frames, broadcasts, panic>>
-----------------------------------------------------------------------------
ReadFrame(c) ==
    /\ Alive
    /\ reader[c] = "read"
    /\ conn[c] = "open"
    /\ frames[c] < MaxFrames[c]
    /\ frames' = [frames EXCEPT ![c] = @ + 1]

\* A text frame of type "ping".
ReadPing(c) ==
    /\ ReadFrame(c)
    /\ reader' = [reader EXCEPT ![c] = "pong"]
    /\ UNCHANGED <<hubVars, roomVars, conn, roomOf, writer, send, sendClosed,
                   castRoom, castTodo, broadcasts, panic>>

\* c.Send of the pong: sends, panics on a closed channel, or gives up after
\* 3 seconds on a full one.
Pong(c) ==
    /\ Alive
    /\ reader[c] = "pong"
    /\ reader' = [reader EXCEPT ![c] = "read"]
    /\ \/ /\ sendClosed[c]
          /\ panic' = "pong"
          /\ UNCHANGED send
       \/ /\ ~sendClosed[c]
          /\ Len(send[c]) < SendCap
          /\ send' = [send EXCEPT ![c] = Append(@, SystemMessage)]
          /\ UNCHANGED panic
    /\ UNCHANGED <<hubVars, roomVars, conn, roomOf, writer, sendClosed,
                   castRoom, castTodo, frames, broadcasts>>

PongTimeout(c) ==
    /\ Alive
    /\ reader[c] = "pong"
    /\ ~sendClosed[c]
    /\ Len(send[c]) = SendCap
    /\ reader' = [reader EXCEPT ![c] = "read"]
    /\ UNCHANGED <<hubVars, roomVars, conn, roomOf, writer, send, sendClosed,
                   castRoom, castTodo, frames, broadcasts, panic>>

\* A chat message for room r, any room: BroadcastToRoom looks it up under
\* hub.mu.  ReadPump ignores the error of a room that is not there.
ReadChat(c, r) ==
    /\ ReadFrame(c)
    /\ castRoom' = [castRoom EXCEPT ![c] = rooms[r]]
    /\ reader' = [reader EXCEPT ![c] = IF rooms[r] = Nil THEN "read" ELSE "snap"]
    /\ UNCHANGED <<hubVars, roomVars, conn, roomOf, writer, send, sendClosed,
                   castTodo, broadcasts, panic>>

\* BroadcastToRoom copies the clients of the room under room.mu.
CastSnapshot(c) ==
    LET snapshot == members[castRoom[c]]
    IN  /\ Alive
        /\ reader[c] = "snap"
        /\ castTodo' = [castTodo EXCEPT ![c] = snapshot]
        /\ castRoom' = [castRoom EXCEPT ![c] = Nil]
        /\ reader' = [reader EXCEPT ![c] = IF snapshot = {} THEN "read" ELSE "cast"]
        /\ UNCHANGED <<hubVars, roomVars, conn, roomOf, writer, send,
                       sendClosed, frames, broadcasts, panic>>

\* Mutant: the loop may send to a client it has served already.
CastSend_Again(c, d) ==
    /\ Alive
    /\ reader[c] = "cast"
    /\ d \in castTodo[c]
    /\ ~sendClosed[d]
    /\ Len(send[d]) < SendCap
    /\ send' = [send EXCEPT ![d] = Append(@, [from |-> c, n |-> frames[c]])]
    /\ reader' = [reader EXCEPT ![c] = IF castTodo[c] = {d} THEN "read" ELSE "cast"]
    /\ UNCHANGED <<hubVars, roomVars, conn, roomOf, writer, sendClosed,
                   castRoom, castTodo, frames, broadcasts, panic>>

\* One iteration of its send loop, which holds no lock: the message is
\* buffered, dropped when the buffer is full, or sent on a closed channel.
CastSend(c, d) ==
    /\ Alive
    /\ reader[c] = "cast"
    /\ d \in castTodo[c]
    /\ castTodo' = [castTodo EXCEPT ![c] = @ \ {d}]
    /\ reader' = [reader EXCEPT ![c] = IF castTodo[c] = {d} THEN "read" ELSE "cast"]
    /\ \/ /\ sendClosed[d]
          /\ panic' = "broadcast"
          /\ UNCHANGED send
       \/ /\ ~sendClosed[d]
          /\ Len(send[d]) < SendCap
          /\ send' = [send EXCEPT ![d] = Append(@, [from |-> c, n |-> frames[c]])]
          /\ UNCHANGED panic
       \/ /\ ~sendClosed[d]
          /\ Len(send[d]) = SendCap
          /\ UNCHANGED <<send, panic>>
    /\ UNCHANGED <<hubVars, roomVars, conn, roomOf, writer, sendClosed,
                   castRoom, frames, broadcasts>>

\* ReadMessage fails: the connection is closed here, the peer went away, or
\* the read deadline passed.
ReadError(c) ==
    /\ Alive
    /\ reader[c] = "read"
    /\ reader' = [reader EXCEPT ![c] = "leave"]
    /\ UNCHANGED <<hubVars, roomVars, conn, roomOf, writer, send, sendClosed,
                   castRoom, castTodo, frames, broadcasts, panic>>

\* The deferred function of ReadPump: Unregister, then conn.Close.
Unregister(c) ==
    /\ Alive
    /\ reader[c] = "leave"
    /\ Len(hubUnregister) < HubCap
    /\ hubUnregister' = Append(hubUnregister, c)
    /\ conn' = [conn EXCEPT ![c] = "down"]
    /\ reader' = [reader EXCEPT ![c] = "done"]
    /\ UNCHANGED <<rooms, hubRegister, hubBroadcast, stopped, hubPC, hubReq,
                   hubRoom, roomVars, roomOf, writer, send, sendClosed,
                   castRoom, castTodo, frames, broadcasts, panic>>

\* hub.unregister stays full for 2 seconds: the message is dropped.
UnregisterTimeout(c) ==
    /\ Alive
    /\ reader[c] = "leave"
    /\ Len(hubUnregister) = HubCap
    /\ conn' = [conn EXCEPT ![c] = "down"]
    /\ reader' = [reader EXCEPT ![c] = "done"]
    /\ UNCHANGED <<hubVars, roomVars, roomOf, writer, send, sendClosed,
                   castRoom, castTodo, frames, broadcasts, panic>>
-----------------------------------------------------------------------------
\* WritePump takes a message and writes it.
WriteMsg(c) ==
    /\ Alive
    /\ writer[c] = "select"
    /\ send[c] # <<>>
    /\ conn[c] = "open"
    /\ send' = [send EXCEPT ![c] = Tail(@)]
    /\ UNCHANGED <<hubVars, roomVars, conn, roomOf, reader, writer, sendClosed,
                   castRoom, castTodo, frames, broadcasts, panic>>

WriterReturns(c) ==
    /\ Alive
    /\ writer[c] = "select"
    /\ writer' = [writer EXCEPT ![c] = "done"]
    /\ conn' = [conn EXCEPT ![c] = "down"]
    /\ UNCHANGED <<hubVars, roomVars, roomOf, reader, sendClosed, castRoom,
                   castTodo, frames, broadcasts, panic>>

\* WritePump takes a message and WriteJSON fails: the connection is closed
\* or the peer is gone.
WriteFail(c) ==
    /\ WriterReturns(c)
    /\ send[c] # <<>>
    /\ send' = [send EXCEPT ![c] = Tail(@)]

\* client.send is closed and drained: the close frame is the last one.
WriteClosed(c) ==
    /\ WriterReturns(c)
    /\ sendClosed[c]
    /\ send[c] = <<>>
    /\ UNCHANGED send

\* Mutant: the error of the ping is ignored.
PingFail_Ignored(c) ==
    /\ Alive
    /\ writer[c] = "select"
    /\ UNCHANGED vars

\* The 30-second ping cannot be written.
PingFail(c) ==
    /\ WriterReturns(c)
    /\ UNCHANGED send
=============================================================================
