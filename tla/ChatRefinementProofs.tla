------------------------ MODULE ChatRefinementProofs ------------------------
(***************************************************************************)
(* Hub, rooms and pumps together implement Membership when the clients'    *)
(* ids are unique: a room's map changes only when a room seats a client    *)
(* that sits nowhere and has not left, or takes a client out of its only   *)
(* seat and closes its channel in the same critical section.  A caller     *)
(* that deletes rooms empties a map and closes all it held, so the same    *)
(* holds with ChatAdmin's caller beside the loops, panics and all.         *)
(***************************************************************************)
EXTENDS ChatSafetyProofs, ChatAdmin

\* A room seating the client it takes from its channel is a Join.
LEMMA SeatIsJoin ==
    ASSUME RoomTypeOK, JoinInv, NEW o \in RoomObjs, NEW c \in AtDoor(o), c \in Clients,
           members' = [members EXCEPT ![o] = @ \cup {c}], sendClosed' = sendClosed
    PROVE  Promise!Join(c, o)
<1>1. c \notin Left /\ Seats[c] = {}
  BY DEF JoinInv, OpenUntilLeft, OnePlace, Left, Seats
<1>2. ASSUME NEW d \in Clients
      PROVE  Seats'[d] = IF d = c THEN {o} ELSE Seats[d]
  BY <1>1 DEF Seats, RoomTypeOK
<1>3. Seats' = [Seats EXCEPT ![c] = {o}]
  BY <1>2 DEF Seats
<1>4. Left' = Left
  BY DEF Left
<1>5. QED
  BY <1>1, <1>3, <1>4 DEF Promise!Join

\* A room deleting a client's entry and closing its channel is a Leave.
LEMMA CloseIsLeave ==
    ASSUME RoomTypeOK, ClientTypeOK, JoinInv, NEW o \in RoomObjs, NEW c \in members[o],
           c \in Clients,
           members' = [members EXCEPT ![o] = @ \ {c}],
           sendClosed' = [sendClosed EXCEPT ![c] = TRUE]
    PROVE  Promise!Leave(c)
<1>1. Seats[c] = {o}
  BY DEF JoinInv, OnePlace, Seats
<1>2. ASSUME NEW d \in Clients
      PROVE  Seats'[d] = IF d = c THEN {} ELSE Seats[d]
  BY <1>1 DEF Seats, RoomTypeOK
<1>3. Seats' = [Seats EXCEPT ![c] = {}]
  BY <1>2 DEF Seats
<1>4. Left' = Left \cup {c}
  BY DEF Left, ClientTypeOK
<1>5. QED
  BY <1>1, <1>3, <1>4 DEF Promise!Leave

\* DeleteRoom emptying a map and closing all it held is an Empty.
LEMMA DeleteIsEmpty ==
    ASSUME RoomTypeOK, ClientTypeOK, NEW o \in RoomObjs,
           members' = [members EXCEPT ![o] = {}],
           sendClosed' = [c \in Clients |-> sendClosed[c] \/ c \in members[o]]
    PROVE  Promise!Empty(o)
<1>1. ASSUME NEW d \in Clients
      PROVE  Seats'[d] = Seats[d] \ {o}
  BY DEF Seats, RoomTypeOK
<1>2. Seats' = [d \in Clients |-> Seats[d] \ {o}]
  BY <1>1 DEF Seats
<1>3. Left' = Left \cup {d \in Clients : o \in Seats[d]}
  BY DEF Left, Seats, ClientTypeOK
<1>4. QED
  BY <1>2, <1>3 DEF Promise!Empty

-----------------------------------------------------------------------------
(***************************************************************************)
(* With CreateRoom and DeleteRoom beside the loops, the hub's map no       *)
(* longer tracks the running rooms and the loops may panic.  What is left  *)
(* is who holds which registration, and that a room only ever sends to,    *)
(* and evicts, clients that are in its map or closed.                      *)
(***************************************************************************)
AdminInv == Types /\ JoinInv /\ TargetsInv

LEMMA SafetyIsAdmin ==
    ASSUME SafetyInv
    PROVE  AdminInv
BY CastIsTargets DEF SafetyInv, AdminInv

\* What CreateRoom and DeleteRoom leave alone, and what they change.
LEMMA AdminEffect ==
    ASSUME HubTypeOK, RoomTypeOK, Admin
    PROVE  /\ UNCHANGED <<hubRegister, hubUnregister, hubBroadcast, stopped, hubPC, hubReq,
                          hubRoom, roomReg, roomUnreg, roomBcast, roomTodo, roomVictim,
                          idle, roomOf, reader, writer, send, castRoom, castTodo, frames,
                          broadcasts>>
           /\ \/ /\ UNCHANGED <<members, sendClosed, conn, roomClosed, panic>>
                 /\ \E r \in RoomIds, o \in RoomObjs :
                       /\ rooms' = [rooms EXCEPT ![r] = o]
                       /\ roomPC' = [roomPC EXCEPT ![o] = "select"]
                       /\ roomPC[o] = "none"
              \/ \E r \in RoomIds, o \in RoomObjs :
                    /\ roomPC' = roomPC
                    /\ sendClosed' = [c \in Clients |-> sendClosed[c] \/ c \in members[o]]
                    /\ conn' = [c \in Clients |->
                                   IF c \in members[o] THEN "down" ELSE conn[c]]
                    /\ members' = [members EXCEPT ![o] = {}]
                    /\ rooms' = [rooms EXCEPT ![r] = Nil]
                    /\ roomClosed' = [roomClosed EXCEPT ![o] = TRUE]
                    /\ panic' \in {panic, "reclose"}
<1>1. ASSUME NEW r \in RoomIds, CreateRoom(r)
      PROVE  FreshRoom \in RoomObjs /\ roomPC[FreshRoom] = "none"
  BY <1>1 DEF CreateRoom, FreshRoom
<1>2. ASSUME NEW r \in RoomIds, DeleteRoom(r)
      PROVE  rooms[r] \in RoomObjs
  BY <1>2 DEF DeleteRoom, HubTypeOK
<1>3. CASE \E r \in RoomIds : CreateRoom(r)
  BY <1>1, <1>3 DEF CreateRoom, clientVars
<1>4. CASE \E r \in RoomIds : DeleteRoom(r)
  BY <1>2, <1>4 DEF DeleteRoom
<1>5. QED
  BY <1>3, <1>4 DEF Admin

LEMMA AdminTypes ==
    ASSUME Types, Admin
    PROVE  Types'
<1>1. HubTypeOK /\ HubLocals /\ RoomTypeOK /\ RoomLocals /\ ClientTypeOK /\ ReaderLocals
  BY DEF Types, HubTypes, RoomTypes, ClientTypes
<1>2. HubTypes'
  <2>1. rooms' \in [RoomIds -> RoomObjs \cup {Nil}]
    BY <1>1, AdminEffect DEF HubTypeOK
  <2>2. UNCHANGED <<hubRegister, hubUnregister, hubBroadcast, stopped, hubPC, hubReq, hubRoom>>
    BY <1>1, AdminEffect
  <2>3. QED
    BY <1>1, <2>1, <2>2 DEF HubTypes, HubTypeOK, HubLocals
<1>3. RoomTypes'
  <2>1. /\ UNCHANGED <<roomReg, roomUnreg, roomBcast, roomTodo, roomVictim, idle>>
        /\ \A o \in RoomObjs : roomPC'[o] = roomPC[o] \/ roomPC'[o] = "select"
        /\ roomPC' \in [RoomObjs -> {"none", "select", "snap", "cast", "evict", "hangup",
                                     "exit"}]
        /\ members' \in [RoomObjs -> SUBSET Clients]
        /\ roomClosed' \in [RoomObjs -> BOOLEAN]
    BY <1>1, AdminEffect DEF RoomTypeOK
  <2>2. QED
    BY <1>1, <2>1 DEF RoomTypes, RoomTypeOK, RoomLocals
<1>4. ClientTypes'
  <2>1. /\ UNCHANGED <<roomOf, reader, writer, send, castRoom, castTodo, frames>>
        /\ sendClosed' \in [Clients -> BOOLEAN]
        /\ conn' \in [Clients -> {"new", "open", "down"}]
    BY <1>1, AdminEffect DEF ClientTypeOK
  <2>2. QED
    BY <1>1, <2>1 DEF ClientTypes, ClientTypeOK, ReaderLocals
<1>5. OtherTypes' /\ RoomsKnown'
  BY <1>1, AdminEffect, KnownFrame DEF Types, OtherTypes, Panics
<1>6. QED
  BY <1>2, <1>3, <1>4, <1>5 DEF Types

\* DeleteRoom takes nobody's registration, and closes only clients that have none
\* under way.
LEMMA AdminJoin ==
    ASSUME AdminInv, Admin
    PROVE  JoinInv'
<1>1. HubTypeOK /\ HubLocals /\ RoomTypeOK /\ ClientTypeOK /\ JoinInv
  BY DEF AdminInv, Types, HubTypes, RoomTypes, ClientTypes
<1>2. /\ UNCHANGED <<hubRegister, hubReq, roomReg, reader>>
      /\ Queued' = Queued /\ Held' = Held
      /\ \A o \in RoomObjs : AtDoor(o)' = AtDoor(o)
  BY <1>1, AdminEffect DEF Queued, Held, AtDoor
<1>3. NewHasNoReader' /\ \A c \in Clients : Started(c) => Started(c)'
  BY <1>1, <1>2, AdminEffect DEF JoinInv, NewHasNoReader, Started
<1>4. CASE UNCHANGED <<members, sendClosed>>
  BY <1>1, <1>2, <1>3, <1>4, JoinFrame
<1>5. ASSUME NEW o \in RoomObjs, members' = [members EXCEPT ![o] = {}],
             sendClosed' = [c \in Clients |-> sendClosed[c] \/ c \in members[o]]
      PROVE  JoinInv'
  <2>1. /\ members'[o] = {}
        /\ \A p \in RoomObjs : p # o => members'[p] = members[p]
    BY <1>1, <1>5 DEF RoomTypeOK
  <2>2. \A c \in members[o] :
           /\ c \notin Queued \cup Held
           /\ \A p \in RoomObjs : c \notin AtDoor(p) /\ (p # o => c \notin members[p])
    BY <1>1 DEF JoinInv, OnePlace
  <2>3. NoCopies'
    BY <1>1, <1>2 DEF JoinInv, NoCopies
  <2>4. OnePlace'
    BY <1>1, <1>2, <2>1 DEF JoinInv, OnePlace
  <2>5. OpenUntilLeft'
    BY <1>1, <1>2, <1>3, <1>5, <2>1, <2>2, PlacesHoldClients DEF JoinInv, OpenUntilLeft
  <2>6. QED
    BY <1>3, <2>3, <2>4, <2>5 DEF JoinInv
<1>6. QED
  BY <1>1, <1>4, <1>5, AdminEffect

\* Whoever takes a client out of a map closes it too.
LEMMA TargetsStep ==
    ASSUME UniqueIds, AdminInv, Next \/ Admin
    PROVE  TargetsInv'
<1>1. HubTypeOK /\ RoomTypeOK /\ RoomLocals /\ ClientTypeOK /\ TargetsInv
  BY DEF AdminInv, Types, HubTypes, RoomTypes, ClientTypes
<1> DEFINE Others == \A p \in RoomObjs :
                        roomTodo'[p] = roomTodo[p] /\ roomVictim'[p] = roomVictim[p]
           Calm   == \A p \in RoomObjs : roomPC'[p] = "evict" => roomPC[p] = "evict"
           Covers == \A p \in RoomObjs : members[p] \cup Left \subseteq members'[p] \cup Left'
<1>2. CASE UNCHANGED <<roomPC, members, roomTodo, roomVictim, sendClosed>>
  BY <1>1, <1>2 DEF TargetsInv, Left
<1>3. Others /\ Calm /\ Covers => TargetsInv'
  BY <1>1 DEF TargetsInv
<1>4. CASE Admin
  <2>1. Others /\ Calm
    BY <1>1, <1>4, AdminEffect DEF RoomTypeOK
  <2>2. Covers
    BY <1>1, <1>4, AdminEffect DEF RoomTypeOK, Left
  <2>3. QED
    BY <1>3, <2>1, <2>2
<1>5. CASE HubCreateRoom
  <2>1. UNCHANGED <<members, roomTodo, roomVictim, sendClosed>> /\ Calm
    BY <1>1, <1>5 DEF HubCreateRoom, FreshRoom, RoomTypeOK, clientVars
  <2>2. QED
    BY <1>3, <2>1 DEF Left
<1>6. ASSUME NEW o \in RoomObjs, NEW c \in Clients, Others, Calm,
             members' = [members EXCEPT ![o] = @ \ {c}],
             sendClosed' = [sendClosed EXCEPT ![c] = TRUE]
      PROVE  TargetsInv'
  <2>1. Covers
    BY <1>1, <1>6 DEF RoomTypeOK, ClientTypeOK, Left
  <2>2. QED
    BY <1>3, <1>6, <2>1
<1>7. ASSUME NEW o \in RoomObjs, Room(o)
      PROVE  TargetsInv'
  <2>1. CASE RoomRegister(o)
    <3>1. Head(roomReg[o]) \in Clients
      BY <1>1, <2>1, TailQueue DEF RoomRegister, RoomTypeOK
    <3>2. members' = [members EXCEPT ![o] = @ \cup {Head(roomReg[o])}]
      BY <1>1, <2>1, <3>1, MapIsSet DEF RoomRegister
    <3>3. Covers
      BY <1>1, <2>1, <3>2 DEF RoomRegister, RoomTypeOK, Left, clientVars
    <3>4. Others /\ Calm
      BY <1>1, <2>1 DEF RoomRegister, RoomTypeOK
    <3>5. QED
      BY <1>3, <3>3, <3>4
  <2>2. CASE RoomUnregister(o)
    <3>1. PICK c \in Clients : c = Head(roomUnreg[o])
      BY <1>1, <2>2, TailQueue DEF RoomUnregister, RoomTypeOK
    <3>2. Others /\ Calm
      BY <1>1, <2>2 DEF RoomUnregister, RoomTypeOK
    <3>3. CASE Has(o, c)
      BY <1>1, <1>6, <2>2, <3>1, <3>2, <3>3, MapIsSet DEF RoomUnregister, CloseSend
    <3>4. CASE ~Has(o, c)
      BY <1>3, <2>2, <3>1, <3>2, <3>4 DEF RoomUnregister, Left
    <3>5. QED
      BY <3>3, <3>4
  <2>3. CASE RoomReceive(o) \/ RoomExit(o) \/ RoomHangUp(o) \/ RoomSnapshot(o)
    <3>1. UNCHANGED <<members, sendClosed>>
      BY <2>3 DEF RoomReceive, RoomExit, RoomHangUp, RoomSnapshot, clientVars
    <3>2. \A p \in RoomObjs : /\ roomTodo'[p] \in {roomTodo[p], members[p]}
                              /\ roomPC'[p] = "evict" => /\ roomPC[p] = "evict"
                                                         /\ roomVictim'[p] = roomVictim[p]
      BY <1>1, <2>3
         DEF RoomReceive, RoomExit, RoomHangUp, RoomSnapshot, AfterSend, RoomTypeOK
    <3>3. QED
      BY <1>1, <3>1, <3>2 DEF TargetsInv, Left
  <2>4. ASSUME NEW c \in Clients, RoomSend(o, c)
        PROVE  TargetsInv'
    <3>1. /\ UNCHANGED <<members, sendClosed>>
          /\ c \in roomTodo[o]
          /\ \A p \in RoomObjs : /\ roomTodo'[p] \subseteq roomTodo[p]
                                 /\ \/ roomVictim'[p] = c /\ p = o
                                    \/ roomVictim'[p] = roomVictim[p]
                                 /\ roomPC'[p] = "evict" => \/ roomPC[p] = "evict"
                                                            \/ p = o /\ roomVictim'[p] = c
      BY <1>1, <2>4 DEF RoomSend, AfterSend, RoomTypeOK
    <3>2. c \in members[o] \cup Left
      BY <1>1, <3>1 DEF TargetsInv
    <3>3. QED
      BY <1>1, <3>1, <3>2 DEF TargetsInv, Left
  <2>5. CASE RoomEvict(o)
    <3>1. PICK c \in Clients : c = roomVictim[o]
      BY <1>1, <2>5 DEF RoomEvict, RoomLocals
    <3>2. Others /\ Calm
      BY <1>1, <2>5 DEF RoomEvict, RoomTypeOK
    <3>3. QED
      BY <1>1, <1>6, <2>5, <3>1, <3>2, MapIsSet DEF RoomEvict, CloseSend
  <2>6. QED
    BY <1>7, <2>1, <2>2, <2>3, <2>4, <2>5 DEF Room
<1>8. ASSUME NEW c \in Clients,
             \/ AnswerReader(c) \/ Writer(c) \/ ServeWsRefused(c) \/ ReadPing(c)
             \/ ReadError(c) \/ PingFail(c)
             \/ \E r \in RoomIds : ServeWs(c, r) \/ ReadChat(c, r)
      PROVE  UNCHANGED <<roomVars, sendClosed>>
  BY <1>8
     DEF AnswerReader, Register, RegisterTimeout, Pong, PongTimeout, CastSnapshot,
         CastSend, Unregister, UnregisterTimeout, Writer, WriteMsg, WriteFail,
         WriteClosed, WriterReturns, PingFail, ServeWsRefused, ReadPing, ReadError,
         ReadFrame, ServeWs, ReadChat
<1>9. ASSUME ~HubCreateRoom,
             Hub \/ Stop \/ (\E r \in RoomIds : Broadcast(r)) \/ \E o \in RoomObjs : Age(o)
      PROVE  UNCHANGED <<roomPC, members, roomTodo, roomVictim, sendClosed>>
  BY <1>9
     DEF Hub, HubTakeRegister, HubStoreRoom, HubTakeUnregister, HubTakeBroadcast,
         HubForward, HubSweep, HubStop, Stop, Broadcast, Age, roomVars, clientVars
<1>10. QED
  BY <1>2, <1>4, <1>5, <1>7, <1>8, <1>9 DEF Next, Environment, roomVars

LEMMA StepAdmin ==
    ASSUME UniqueIds
    PROVE  AdminInv /\ [Next \/ Admin]_vars => AdminInv'
<1> SUFFICES ASSUME AdminInv, [Next \/ Admin]_vars PROVE AdminInv'
  OBVIOUS
<1>1. CASE UNCHANGED vars
  <2>1. Types'
    BY <1>1, StepTypes DEF AdminInv
  <2>2. JoinInv' /\ TargetsInv'
    BY <1>1
       DEF AdminInv, JoinInv, NewHasNoReader, NoCopies, OnePlace, OpenUntilLeft, Queued,
           Held, AtDoor, Started, TargetsInv, Left, vars, hubVars, roomVars, clientVars
  <2>3. QED
    BY <2>1, <2>2 DEF AdminInv
<1>2. CASE Next
  BY <1>2, StepTypes, JoinStep, TargetsStep DEF AdminInv
<1>3. CASE Admin
  BY <1>3, AdminTypes, AdminJoin, TargetsStep DEF AdminInv
<1>4. QED
  BY <1>1, <1>2, <1>3

LEMMA AdminHolds ==
    ASSUME UniqueIds
    PROVE  AdminSpec => []AdminInv
<1>1. Init => AdminInv
  BY InitSafety, SafetyIsAdmin
<1>2. QED
  BY <1>1, StepAdmin, PTL DEF AdminSpec
-----------------------------------------------------------------------------
LEMMA StepImplements ==
    ASSUME UniqueIds, AdminInv, [Next \/ Admin]_vars
    PROVE  [Promise!Next]_<<Seats, Left>>
<1>1. /\ HubTypeOK /\ RoomTypeOK /\ RoomLocals /\ ClientTypeOK
      /\ JoinInv /\ TargetsInv
  BY DEF AdminInv, Types, HubTypes, RoomTypes, ClientTypes
<1>2. CASE UNCHANGED <<members, sendClosed>>
  BY <1>2 DEF Seats, Left
<1>3. ASSUME NEW o \in RoomObjs, RoomRegister(o)
      PROVE  Promise!Next
  <2>1. PICK c \in Clients : c = Head(roomReg[o]) /\ c \in AtDoor(o)
    BY <1>1, <1>3, TailQueue DEF RoomRegister, RoomTypeOK, AtDoor
  <2>2. /\ members' = [members EXCEPT ![o] = @ \cup {c}]
        /\ sendClosed' = sendClosed
    BY <1>1, <1>3, <2>1, MapIsSet DEF RoomRegister, clientVars
  <2>3. Promise!Join(c, o)
    BY <1>1, <2>1, <2>2, SeatIsJoin
  <2>4. QED
    BY <2>3 DEF Promise!Next
<1>4. ASSUME NEW o \in RoomObjs, RoomUnregister(o)
      PROVE  [Promise!Next]_<<Seats, Left>>
  <2>1. PICK c \in Clients : c = Head(roomUnreg[o])
    BY <1>1, <1>4, TailQueue DEF RoomUnregister, RoomTypeOK
  <2>2. CASE Has(o, c)
    <3>1. /\ c \in members[o]
          /\ members' = [members EXCEPT ![o] = @ \ {c}]
          /\ sendClosed' = [sendClosed EXCEPT ![c] = TRUE]
      BY <1>1, <1>4, <2>1, <2>2, MapIsSet DEF RoomUnregister, CloseSend
    <3>2. Promise!Leave(c)
      BY <1>1, <3>1, CloseIsLeave
    <3>3. QED
      BY <3>2 DEF Promise!Next
  <2>3. CASE ~Has(o, c)
    BY <1>2, <1>4, <2>1, <2>3 DEF RoomUnregister
  <2>4. QED
    BY <2>2, <2>3
<1>5. ASSUME NEW o \in RoomObjs, RoomEvict(o)
      PROVE  [Promise!Next]_<<Seats, Left>>
  <2>1. PICK c \in Clients : c = roomVictim[o]
    BY <1>1, <1>5 DEF RoomEvict, RoomLocals
  <2>2. /\ members' = [members EXCEPT ![o] = @ \ {c}]
        /\ sendClosed' = [sendClosed EXCEPT ![c] = TRUE]
    BY <1>1, <1>5, <2>1, MapIsSet DEF RoomEvict, CloseSend
  <2>3. CASE c \in members[o]
    BY <1>1, <2>2, <2>3, CloseIsLeave DEF Promise!Next
  <2>4. CASE c \in Left
    <3>1. sendClosed[c] /\ c \notin members[o]
      BY <1>1, <2>4 DEF Left, JoinInv, OpenUntilLeft
    <3>2. UNCHANGED <<members, sendClosed>>
      BY <1>1, <2>2, <3>1 DEF RoomTypeOK, ClientTypeOK
    <3>3. QED
      BY <1>2, <3>2
  <2>5. QED
    BY <1>1, <1>5, <2>1, <2>3, <2>4 DEF RoomEvict, TargetsInv
<1>6. ASSUME NEW o \in RoomObjs, Room(o)
      PROVE  [Promise!Next]_<<Seats, Left>>
  <2>1. CASE \/ RoomReceive(o) \/ RoomExit(o) \/ RoomSnapshot(o) \/ RoomHangUp(o)
             \/ \E c \in Clients : RoomSend(o, c)
    BY <1>2, <2>1
       DEF RoomReceive, RoomExit, RoomSnapshot, RoomHangUp, RoomSend, clientVars
  <2>2. QED
    BY <1>3, <1>4, <1>5, <1>6, <2>1 DEF Room
<1>7. ASSUME NEW c \in Clients,
             \/ AnswerReader(c) \/ Writer(c) \/ ServeWsRefused(c) \/ ReadPing(c)
             \/ ReadError(c) \/ PingFail(c)
             \/ \E r \in RoomIds : ServeWs(c, r) \/ ReadChat(c, r)
      PROVE  UNCHANGED <<members, sendClosed>>
  BY <1>7
     DEF AnswerReader, Register, RegisterTimeout, Pong, PongTimeout, CastSnapshot,
         CastSend, Unregister, UnregisterTimeout, Writer, WriteMsg, WriteFail,
         WriteClosed, WriterReturns, PingFail, ServeWsRefused, ReadPing, ReadError,
         ReadFrame, ServeWs, ReadChat, roomVars
<1>8. ASSUME Hub \/ Stop \/ (\E r \in RoomIds : Broadcast(r)) \/ \E o \in RoomObjs : Age(o)
      PROVE  UNCHANGED <<members, sendClosed>>
  BY <1>8
     DEF Hub, HubTakeRegister, HubCreateRoom, HubStoreRoom, HubTakeUnregister,
         HubTakeBroadcast, HubForward, HubSweep, HubStop, Stop, Broadcast, Age,
         roomVars, clientVars
<1>9. CASE UNCHANGED vars
  BY <1>2, <1>9 DEF vars, roomVars, clientVars
<1>10. CASE Admin
  <2>1. ASSUME NEW o \in RoomObjs, members' = [members EXCEPT ![o] = {}],
               sendClosed' = [c \in Clients |-> sendClosed[c] \/ c \in members[o]]
        PROVE  Promise!Next
    BY <1>1, <2>1, DeleteIsEmpty DEF Promise!Next
  <2>2. QED
    BY <1>1, <1>2, <1>10, <2>1, AdminEffect
<1>11. QED
  BY <1>2, <1>6, <1>7, <1>8, <1>9, <1>10 DEF Next, Environment

\* Every run of the chat system, with unique ids and any number of connections
\* and rooms, is a run of Membership: a client is seated at most once and in one
\* room, its channel is closed exactly when it loses its seat, and it is never
\* seated again.
THEOREM ImplementsMembershipAlways ==
    ASSUME UniqueIds
    PROVE  Spec => ImplementsMembership
<1>1. Init => Promise!Init
  BY DEF Init, Promise!Init, Seats, Left
<1>2. SafetyInv /\ [Next]_vars => [Promise!Next]_<<Seats, Left>>
  BY StepImplements, SafetyIsAdmin
<1>3. QED
  BY <1>1, <1>2, SafetyHolds, PTL DEF Spec, ImplementsMembership, Promise!Spec, Promise!vars

\* The same with a caller that creates and deletes rooms beside the loops, in
\* every step up to a panic and in the step that panics.
THEOREM AdminImplementsMembership ==
    ASSUME UniqueIds
    PROVE  AdminSpec => ImplementsMembership
<1>1. Init => Promise!Init
  BY DEF Init, Promise!Init, Seats, Left
<1>2. AdminInv /\ [Next \/ Admin]_vars => [Promise!Next]_<<Seats, Left>>
  BY StepImplements
<1>3. QED
  BY <1>1, <1>2, AdminHolds, PTL
     DEF AdminSpec, ImplementsMembership, Promise!Spec, Promise!vars

\* With unique ids, no room holds a closed client although DeleteRoom, leaves and
\* evictions close clients from three goroutines.
THEOREM AdminMembersOpen ==
    ASSUME UniqueIds
    PROVE  AdminSpec => []MembersOpen
<1>1. AdminInv => MembersOpen
  BY DEF AdminInv, JoinInv, OpenUntilLeft, MembersOpen
<1>2. QED
  BY <1>1, AdminHolds, PTL
-----------------------------------------------------------------------------
(***************************************************************************)
(* What the contract is worth to a client, proved from the contract alone. *)
(***************************************************************************)
LEMMA InitOneSeat == Promise!Init => Promise!OneSeat
  BY DEF Promise!Init, Promise!OneSeat

LEMMA StepOneSeat ==
    ASSUME Promise!TypeOK, Promise!OneSeat, [Promise!Next]_<<Seats, Left>>
    PROVE  /\ Promise!OneSeat'
           /\ Left \subseteq Left'
           /\ \A c \in Clients : Seats'[c] # Seats[c] =>
                 \/ Seats[c] = {} /\ c \notin Left
                 \/ Seats'[c] = {} /\ c \in Left'
<1> DEFINE Goal == /\ Promise!OneSeat'
                   /\ Left \subseteq Left'
                   /\ \A c \in Clients : Seats'[c] # Seats[c] =>
                         \/ Seats[c] = {} /\ c \notin Left
                         \/ Seats'[c] = {} /\ c \in Left'
<1>1. CASE UNCHANGED <<Seats, Left>>
  BY <1>1 DEF Promise!OneSeat
<1>2. ASSUME NEW c \in Clients, NEW o \in RoomObjs, Promise!Join(c, o)
      PROVE  Goal
  BY <1>2 DEF Promise!TypeOK, Promise!OneSeat, Promise!Join
<1>3. ASSUME NEW c \in Clients, Promise!Leave(c)
      PROVE  Goal
  BY <1>3 DEF Promise!TypeOK, Promise!OneSeat, Promise!Leave
<1>4. ASSUME NEW o \in RoomObjs, Promise!Empty(o)
      PROVE  Goal
  BY <1>4 DEF Promise!TypeOK, Promise!OneSeat, Promise!Empty
<1>5. QED
  BY <1>1, <1>2, <1>3, <1>4 DEF Promise!Next

\* With unique ids and whoever deletes rooms, a client has one seat at most in the
\* life of its connection: in one room, got before its channel was closed, and lost
\* with it for good.
THEOREM OneSeatAlways ==
    ASSUME UniqueIds
    PROVE  AdminSpec => []Promise!OneSeat /\ Promise!SeatedOnce
<1>1. AdminInv => Promise!TypeOK
  BY DEF AdminInv, Types, RoomTypes, RoomTypeOK, Promise!TypeOK, Seats, Left
<1>2. AdminInv /\ Promise!OneSeat /\ [Next \/ Admin]_vars => [Promise!Next]_<<Seats, Left>>
  BY StepImplements
<1>3. AdminInv /\ Promise!OneSeat /\ [Next \/ Admin]_vars
        => /\ Promise!OneSeat'
           /\ [/\ Left \subseteq Left'
               /\ \A c \in Clients : Seats'[c] # Seats[c] =>
                     \/ Seats[c] = {} /\ c \notin Left
                     \/ Seats'[c] = {} /\ c \in Left']_<<Seats, Left>>
  BY <1>1, <1>2, StepOneSeat
<1>4. Init => Promise!Init
  BY DEF Init, Promise!Init, Seats, Left
<1>5. QED
  BY <1>3, <1>4, InitOneSeat, AdminHolds, PTL DEF AdminSpec, Promise!SeatedOnce, Promise!vars
-----------------------------------------------------------------------------
\* A registration is lost only in a forward that panics.
AdminPlaceInv == panic \notin {"hub", "nil"} => PlaceInv

LEMMA AdminPlaceStep ==
    ASSUME UniqueIds, AdminInv, AdminPlaceInv, [Next \/ Admin]_vars
    PROVE  AdminPlaceInv'
<1> SUFFICES ASSUME panic' \notin {"hub", "nil"} PROVE PlaceInv'
  BY DEF AdminPlaceInv
<1>1. CASE Next
  <2>1. panic = "none"
    BY <1>1, NextAlive DEF Alive
  <2>2. QED
    BY <1>1, <2>1, PlaceStep DEF AdminPlaceInv, AdminInv
<1>2. CASE UNCHANGED vars
  BY <1>2
     DEF AdminPlaceInv, PlaceInv, Placed, Queued, Held, AtDoor, vars, hubVars, roomVars,
         clientVars
<1>3. CASE Admin
  <2>1. PlaceInv
    BY <1>3 DEF Admin, CreateRoom, DeleteRoom, Alive, AdminPlaceInv
  <2>2. HubTypeOK /\ RoomTypeOK /\ ClientTypeOK
    BY DEF AdminInv, Types, HubTypes, RoomTypes, ClientTypes
  <2>3. /\ UNCHANGED <<hubPC, writer>>
        /\ Queued' = Queued /\ Held' = Held
        /\ \A o \in RoomObjs : AtDoor(o)' = AtDoor(o)
    BY <1>3, <2>2, AdminEffect DEF Queued, Held, AtDoor
  <2>4. \A c \in Clients : ~sendClosed'[c] =>
           /\ ~sendClosed[c]
           /\ \A o \in RoomObjs : c \in members[o] => c \in members'[o]
    BY <1>3, <2>2, AdminEffect DEF RoomTypeOK
  <2>5. QED
    BY <2>1, <2>3, <2>4 DEF PlaceInv, Placed
<1>4. QED
  BY <1>1, <1>2, <1>3

-----------------------------------------------------------------------------
\* A room in use has a goroutine; one that returned found its channels closed; a
\* pointer not in use has nothing in its channel.
RoomLife ==
    /\ \A o \in RoomObjs : /\ roomPC[o] = "none" => roomReg[o] = <<>>
                           /\ roomPC[o] = "exit" => roomClosed[o]
    /\ \A r \in RoomIds : rooms[r] # Nil => roomPC[rooms[r]] # "none"
    /\ hubRoom # Nil => roomPC[hubRoom] # "none"

LEMMA LifeStep ==
    ASSUME Types, RoomLife, [Next \/ Admin]_vars
    PROVE  RoomLife'
<1>1. /\ HubTypeOK /\ HubLocals /\ RoomTypeOK /\ RoomsKnown
      /\ \A o \in RoomObjs : o # Nil
  BY ConstantsAssumption DEF Types, HubTypes, RoomTypes
<1> DEFINE Same == /\ UNCHANGED <<roomPC, roomReg>>
                   /\ \A o \in RoomObjs : roomClosed[o] => roomClosed'[o]
\* The map and Hub.Run's local name no room that they did not name before.
<1>2. ASSUME Same,
             \A r \in RoomIds : \/ rooms'[r] \in {Nil, hubRoom}
                                \/ \E s \in RoomIds : rooms'[r] = rooms[s],
             hubRoom' \in {Nil, hubRoom} \/ \E r \in RoomIds : hubRoom' = rooms[r]
      PROVE  RoomLife'
  BY <1>2 DEF RoomLife
<1>3. CASE UNCHANGED vars
  BY <1>2, <1>3 DEF vars, hubVars, roomVars
<1>4. ASSUME NEW c \in Clients,
             \/ AnswerReader(c) \/ Writer(c) \/ ServeWsRefused(c) \/ ReadPing(c)
             \/ ReadError(c) \/ PingFail(c)
             \/ \E r \in RoomIds : ServeWs(c, r) \/ ReadChat(c, r)
      PROVE  Same /\ UNCHANGED <<rooms, hubRoom>>
  BY <1>4
     DEF AnswerReader, Register, RegisterTimeout, Pong, PongTimeout, CastSnapshot,
         CastSend, Unregister, UnregisterTimeout, Writer, WriteMsg, WriteFail,
         WriteClosed, WriterReturns, PingFail, ServeWsRefused, ReadPing, ReadError,
         ReadFrame, ServeWs, ReadChat, hubVars, roomVars
<1>5. ASSUME Stop \/ (\E r \in RoomIds : Broadcast(r)) \/ \E o \in RoomObjs : Age(o)
      PROVE  Same /\ UNCHANGED <<rooms, hubRoom>>
  BY <1>5 DEF Stop, Broadcast, Age, hubVars, roomVars
<1>6. ASSUME NEW o \in RoomObjs, Room(o)
      PROVE  RoomLife'
  <2>1. UNCHANGED <<rooms, hubRoom, roomClosed>>
    BY <1>6
       DEF Room, RoomRegister, RoomUnregister, RoomReceive, RoomExit, RoomSnapshot,
           RoomSend, RoomEvict, RoomHangUp, hubVars
  <2>2. /\ roomPC[o] # "none"
        /\ \A p \in RoomObjs \ {o} : roomPC'[p] = roomPC[p] /\ roomReg'[p] = roomReg[p]
    BY <1>1, <1>6
       DEF Room, RoomRegister, RoomUnregister, RoomReceive, RoomExit, RoomSnapshot,
           RoomSend, RoomEvict, RoomHangUp, RoomTypeOK
  <2>3. /\ roomPC'[o] # "none"
        /\ roomPC'[o] = "exit" => roomClosed[o]
    BY <1>1, <1>6, <2>2
       DEF Room, RoomRegister, RoomUnregister, RoomReceive, RoomExit, RoomSnapshot,
           RoomSend, RoomEvict, RoomHangUp, RoomTypeOK, AfterSend
  <2>4. \A p \in RoomObjs : roomPC[p] # "none" => roomPC'[p] # "none"
    BY <2>2, <2>3
  <2>5. /\ \A r \in RoomIds : rooms[r] \in RoomObjs \cup {Nil}
        /\ hubRoom \in RoomObjs \cup {Nil}
    BY <1>1 DEF HubTypeOK
  <2>6. QED
    BY <2>1, <2>2, <2>3, <2>4, <2>5 DEF RoomLife
<1>7. CASE HubTakeRegister
  <2>1. Head(hubRegister) \in Clients /\ Head(hubRegister) \in InQueue(hubRegister)
    BY <1>1, <1>7, TailQueue DEF HubTakeRegister, HubTypeOK
  <2>2. roomOf[Head(hubRegister)] \in RoomIds
    BY <1>1, <2>1 DEF RoomsKnown
  <2>3. QED
    BY <1>2, <1>7, <2>2 DEF HubTakeRegister, roomVars
<1>8. CASE HubTakeUnregister
  <2>1. Head(hubUnregister) \in Clients /\ Head(hubUnregister) \in InQueue(hubUnregister)
    BY <1>1, <1>8, TailQueue DEF HubTakeUnregister, HubTypeOK
  <2>2. roomOf[Head(hubUnregister)] \in RoomIds
    BY <1>1, <2>1 DEF RoomsKnown
  <2>3. QED
    BY <1>2, <1>8, <2>2 DEF HubTakeUnregister, roomVars
<1>9. CASE HubTakeBroadcast
  <2>1. Head(hubBroadcast) \in RoomIds
    BY <1>1, <1>9, TailQueue DEF HubTakeBroadcast, HubTypeOK
  <2>2. QED
    BY <1>2, <1>9, <2>1 DEF HubTakeBroadcast, roomVars
<1>10. CASE HubStoreRoom
  BY <1>1, <1>2, <1>10 DEF HubStoreRoom, HubLocals, HubTypeOK, roomVars
<1>11. CASE HubSweep \/ HubStop
  <2>1. /\ \A r \in RoomIds : rooms'[r] \in {Nil, rooms[r]}
        /\ \A o \in RoomObjs : roomClosed[o] => roomClosed'[o]
        /\ UNCHANGED <<hubRoom, roomPC, roomReg>>
    BY <1>1, <1>11 DEF HubSweep, HubStop, CloseRooms
  <2>2. QED
    BY <1>2, <2>1
<1>12. CASE HubCreateRoom
  <2>1. hubReq.room \in RoomIds
    BY <1>1, <1>12 DEF HubCreateRoom, HubLocals
  <2>2. CASE hubRoom' = Nil
    <3>1. (\E o \in RoomObjs : roomPC[o] = "none") => FreshRoom \in RoomObjs
      BY DEF FreshRoom
    <3>2. UNCHANGED <<rooms, roomPC, roomReg, roomClosed>>
      BY <1>1, <1>12, <2>2, <3>1 DEF HubCreateRoom
    <3>3. QED
      BY <1>2, <2>2, <3>2
  <2>3. CASE hubRoom' # Nil
    <3>1. PICK o \in RoomObjs : o = FreshRoom /\ roomPC[o] = "none"
      BY <1>12, <2>3 DEF HubCreateRoom, FreshRoom
    <3>2. /\ rooms' = [rooms EXCEPT ![hubReq.room] = o] /\ hubRoom' = o
          /\ roomPC' = [roomPC EXCEPT ![o] = "select"]
          /\ UNCHANGED <<roomReg, roomClosed>>
      BY <1>12, <2>3, <3>1 DEF HubCreateRoom
    <3>3. QED
      BY <1>1, <2>1, <3>1, <3>2 DEF RoomLife, HubTypeOK, RoomTypeOK
  <2>4. QED
    BY <2>2, <2>3
<1>13. CASE HubForward
  <2>1. /\ UNCHANGED <<rooms, roomPC, roomClosed>> /\ hubRoom' = Nil
        /\ \/ roomReg' = roomReg
           \/ /\ hubRoom # Nil
              /\ roomReg' = [roomReg EXCEPT ![hubRoom] = Append(@, hubReq.client)]
    BY <1>13 DEF HubForward
  <2>2. \A o \in RoomObjs : o # hubRoom \/ hubRoom = Nil => roomReg'[o] = roomReg[o]
    BY <1>1, <2>1 DEF RoomTypeOK
  <2>3. QED
    BY <1>1, <2>1, <2>2 DEF RoomLife
<1>14. CASE Admin
  <2>1. UNCHANGED <<hubRoom, roomReg>>
    BY <1>1, <1>14, AdminEffect
  <2>2. CASE \E r \in RoomIds, o \in RoomObjs :
                /\ rooms' = [rooms EXCEPT ![r] = o]
                /\ roomPC' = [roomPC EXCEPT ![o] = "select"]
                /\ roomClosed' = roomClosed
                /\ roomPC[o] = "none"
    BY <1>1, <2>1, <2>2 DEF RoomLife, HubTypeOK, RoomTypeOK
  <2>3. CASE \E r \in RoomIds, o \in RoomObjs :
                /\ roomPC' = roomPC
                /\ rooms' = [rooms EXCEPT ![r] = Nil]
                /\ roomClosed' = [roomClosed EXCEPT ![o] = TRUE]
    BY <1>1, <2>1, <2>3 DEF RoomLife, HubTypeOK, RoomTypeOK
  <2>4. QED
    BY <1>1, <1>14, <2>2, <2>3, AdminEffect
<1>15. QED
  BY <1>2, <1>3, <1>4, <1>5, <1>6, <1>7, <1>8, <1>9, <1>10, <1>11, <1>12, <1>13, <1>14
     DEF Next, Environment, Hub

\* With unique ids and rooms created and deleted by a caller, a client with pumps
\* and an open channel is seated, is on its way to a seat, or was left behind in
\* the channel of a stopped hub or a closed room, unless the process panicked.
THEOREM SeatedOrStrandedAlways ==
    ASSUME UniqueIds
    PROVE  AdminSpec => []SeatedOrStranded
<1>1. Init => AdminPlaceInv /\ RoomLife
  BY DEF Init, AdminPlaceInv, PlaceInv, Held, NoRequest, RoomLife
<1>2. AdminInv /\ AdminPlaceInv /\ RoomLife /\ [Next \/ Admin]_vars
        => AdminPlaceInv' /\ RoomLife'
  BY AdminPlaceStep, LifeStep DEF AdminInv
<1>3. ASSUME AdminInv, AdminPlaceInv, RoomLife, Alive, NEW c \in Clients,
             writer[c] # "none", ~sendClosed[c]
      PROVE  Seats[c] # {} \/ Carried(c) \/ Stranded(c)
  <2>1. Placed(c)
    BY <1>3 DEF AdminPlaceInv, PlaceInv, Alive
  <2>2. CASE c \in Queued \cup Held
    BY <2>2 DEF Queued, Held, Carried, Stranded
  <2>3. ASSUME NEW o \in RoomObjs, c \in AtDoor(o)
        PROVE  Carried(c) \/ Stranded(c)
    <3>1. roomPC[o] # "none"
      BY <1>3, <2>3 DEF RoomLife, AtDoor, InQueue
    <3>2. roomPC[o] = "exit" => roomClosed[o]
      BY <1>3 DEF RoomLife
    <3>3. QED
      BY <2>3, <3>1, <3>2 DEF Carried, Stranded, AtDoor
  <2>4. CASE \E o \in RoomObjs : c \in members[o]
    BY <2>4 DEF Seats
  <2>5. QED
    BY <2>1, <2>2, <2>3, <2>4 DEF Placed
<1>4. AdminInv /\ AdminPlaceInv /\ RoomLife => SeatedOrStranded
  BY <1>3 DEF SeatedOrStranded
<1>5. QED
  BY <1>1, <1>2, <1>4, AdminHolds, PTL DEF AdminSpec
=============================================================================
