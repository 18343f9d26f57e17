----------------------------- MODULE ChatModels -----------------------------
(***************************************************************************)
(* The data of internal/chat: one Hub, its Rooms, its Clients and the      *)
(* channels between their goroutines (ChatModels.go).  A buffered Go       *)
(* channel is a sequence with a capacity; close() of a channel is a flag.  *)
(*                                                                         *)
(* A hub is modelled alone: ServeWs always asks the sharded hub for the    *)
(* same one, and hubs share no state.                                      *)
(***************************************************************************)
EXTENDS Integers, Sequences, FiniteSets

CONSTANTS Clients,        \* the connections ServeWs is called for
          RoomIds,        \* the room_id values of the requests
          RoomObjs,       \* the *Room values NewRoom can return, each once
          ClientId,       \* what GenerateUUID returned for each client
          HubCap,         \* capacity of hub.register, hub.unregister, hub.broadcast
          RoomCap,        \* capacity of room.register, room.unregister, room.broadcast
          SendCap,        \* capacity of client.send
          MaxFrames,      \* bound: frames each peer sends, per client
          MaxBroadcasts,  \* bound: calls of Hub.Broadcast
          MayStop,        \* whether Hub.Stop is ever called
          Server,         \* the sender of a system message
          Nil

ASSUME ConstantsAssumption ==
    /\ HubCap \in Nat \ {0}
    /\ RoomCap \in Nat \ {0}
    /\ SendCap \in Nat \ {0}
    /\ MaxFrames \in [Clients -> Nat]
    /\ MaxBroadcasts \in Nat
    /\ MayStop \in BOOLEAN
    /\ DOMAIN ClientId = Clients
    /\ Nil \notin Clients \cup RoomIds \cup RoomObjs
    /\ Server \notin Clients

VARIABLES
    rooms,          \* hub.rooms: the room object each id maps to, or Nil
    hubRegister,    \* hub.register: clients, each with the room in roomOf
    hubUnregister,  \* hub.unregister
    hubBroadcast,   \* hub.broadcast: the RoomID of each message
    stopped,        \* hub.stop is closed
    hubPC,          \* where the goroutine of Hub.Run is
    hubReq,         \* the message Hub.Run took from a channel
    hubRoom         \* its local variable room

hubVars == <<rooms, hubRegister, hubUnregister, hubBroadcast, stopped,
             hubPC, hubReq, hubRoom>>

VARIABLES
    roomPC,         \* where the goroutine of each Room.Run is
    members,        \* room.clients: the clients it holds, keyed by ClientId
    roomReg,        \* room.register
    roomUnreg,      \* room.unregister
    roomBcast,      \* room.broadcast: how many messages it buffers
    roomTodo,       \* the rest of the snapshot broadcastToClients iterates over
    roomVictim,     \* the client broadcastToClients is evicting
    idle,           \* room.lastActive is more than 10 minutes old
    roomClosed      \* the three channels of the room are closed

roomVars == <<roomPC, members, roomReg, roomUnreg, roomBcast, roomTodo,
              roomVictim, idle, roomClosed>>

VARIABLES
    conn,           \* the websocket connection
    roomOf,         \* client.roomID
    reader,         \* where ServeWs, then the goroutine of ReadPump, is
    writer,         \* where the goroutine of WritePump is
    send,           \* client.send: the messages it buffers
    sendClosed,     \* client.send is closed
    castRoom,       \* the room BroadcastToRoom looked up for this reader
    castTodo,       \* the rest of the snapshot BroadcastToRoom iterates over
    frames          \* frames read so far; numbers this peer's messages

clientVars == <<conn, roomOf, reader, writer, send, sendClosed, castRoom,
                castTodo, frames>>

VARIABLES
    broadcasts,     \* calls of Hub.Broadcast so far
    panic           \* "none", or the statement that panicked and ended the process

vars == <<hubVars, roomVars, clientVars, broadcasts, panic>>
-----------------------------------------------------------------------------
Messages == [from : Clients \cup {Server}, n : Nat]

SystemMessage == [from |-> Server, n |-> 0]

Requests == [kind   : {"none", "register", "unregister", "broadcast"},
             client : Clients \cup {Nil},
             room   : RoomIds \cup {Nil}]

NoRequest == [kind |-> "none", client |-> Nil, room |-> Nil]

HubTypeOK ==
    /\ rooms \in [RoomIds -> RoomObjs \cup {Nil}]
    /\ hubRegister \in Seq(Clients)
    /\ hubUnregister \in Seq(Clients)
    /\ hubBroadcast \in Seq(RoomIds)
    /\ Len(hubRegister) <= HubCap
    /\ Len(hubUnregister) <= HubCap
    /\ Len(hubBroadcast) <= HubCap
    /\ stopped \in BOOLEAN
    /\ hubPC \in {"select", "create", "store", "forward", "done"}
    /\ hubReq \in Requests
    /\ hubRoom \in RoomObjs \cup {Nil}

RoomTypeOK ==
    /\ roomPC \in [RoomObjs -> {"none", "select", "snap", "cast", "evict",
                                "hangup", "exit"}]
    /\ members \in [RoomObjs -> SUBSET Clients]
    /\ roomReg \in [RoomObjs -> Seq(Clients)]
    /\ roomUnreg \in [RoomObjs -> Seq(Clients)]
    /\ roomBcast \in [RoomObjs -> 0..RoomCap]
    /\ \A o \in RoomObjs : /\ Len(roomReg[o]) <= RoomCap
                           /\ Len(roomUnreg[o]) <= RoomCap
    /\ roomTodo \in [RoomObjs -> SUBSET Clients]
    /\ roomVictim \in [RoomObjs -> Clients \cup {Nil}]
    /\ idle \in [RoomObjs -> BOOLEAN]
    /\ roomClosed \in [RoomObjs -> BOOLEAN]

ClientTypeOK ==
    /\ conn \in [Clients -> {"new", "open", "down"}]
    /\ roomOf \in [Clients -> RoomIds \cup {Nil}]
    /\ reader \in [Clients -> {"none", "register", "read", "snap", "cast",
                               "pong", "leave", "done"}]
    /\ writer \in [Clients -> {"none", "select", "done"}]
    /\ send \in [Clients -> Seq(Messages)]
    /\ \A c \in Clients : Len(send[c]) <= SendCap
    /\ sendClosed \in [Clients -> BOOLEAN]
    /\ castRoom \in [Clients -> RoomObjs \cup {Nil}]
    /\ castTodo \in [Clients -> SUBSET Clients]
    /\ frames \in [Clients -> Nat]

Panics == {"none", "broadcast", "pong", "room", "hub", "nil", "reclose"}

\* Every variable stays in its range and no channel holds more than its
\* capacity (the make(chan ..., n) calls of the factories).
TypeOK ==
    /\ HubTypeOK
    /\ RoomTypeOK
    /\ ClientTypeOK
    /\ broadcasts \in Nat
    /\ panic \in Panics
-----------------------------------------------------------------------------
\* The process runs until a goroutine panics; no goroutine of the package
\* recovers.
Alive == panic = "none"

\* room.clients[c.id], room.clients[c.id] = c and delete(room.clients, c.id):
\* the map is keyed by the id, so two clients with one id share an entry.
Has(o, c)     == \E d \in members[o] : ClientId[d] = ClientId[c]
Without(o, c) == {d \in members[o] : ClientId[d] # ClientId[c]}
With(o, c)    == Without(o, c) \cup {c}

\* close(c.send): closing a channel twice panics.
CloseSend(c) ==
    /\ sendClosed' = [sendClosed EXCEPT ![c] = TRUE]
    /\ panic' = IF sendClosed[c] THEN "reclose" ELSE panic

\* The clients of a channel.
InQueue(q) == {q[i] : i \in DOMAIN q}
=============================================================================
