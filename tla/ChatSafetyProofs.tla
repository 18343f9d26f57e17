-------------------------- MODULE ChatSafetyProofs --------------------------
(***************************************************************************)
(* Why the two run loops never panic and why a room's map never holds a    *)
(* closed client, when the clients' ids are unique.  A registration is in  *)
(* one place at a time: in hub.register, in the hands of Hub.Run, in the   *)
(* register channel of one room, or in the map of that room; and only the  *)
(* room that seats a client closes its channel.  At the end, why a served  *)
(* client keeps its seat, and why buffers keep a sender's order.           *)
(***************************************************************************)
EXTENDS ChatSystemProofs

UniqueIds == \A c, d \in Clients : ClientId[c] = ClientId[d] => c = d

\* Where a client's registration can be before the client is seated.
Queued    == InQueue(hubRegister)
Held      == IF hubReq.kind = "register" THEN {hubReq.client} ELSE {}
AtDoor(o) == InQueue(roomReg[o])

Distinct(q) == \A i, j \in DOMAIN q : q[i] = q[j] => i = j

\* Register has been called for the client and will not be called again.
Started(c) == reader[c] \notin {"none", "register"}

NewHasNoReader == \A c \in Clients : conn[c] = "new" => reader[c] = "none"

NoCopies == Distinct(hubRegister) /\ \A o \in RoomObjs : Distinct(roomReg[o])

OnePlace ==
    /\ \A o \in RoomObjs : (Queued \cup Held) \cap (AtDoor(o) \cup members[o]) = {}
    /\ Queued \cap Held = {}
    /\ \A o, p \in RoomObjs : AtDoor(o) \cap members[p] = {}
    /\ \A o, p \in RoomObjs : o # p => /\ AtDoor(o) \cap AtDoor(p) = {}
                                       /\ members[o] \cap members[p] = {}

OpenUntilLeft ==
    /\ \A c \in Queued \cup Held : Started(c) /\ ~sendClosed[c]
    /\ \A o \in RoomObjs : \A c \in AtDoor(o) \cup members[o] :
          Started(c) /\ ~sendClosed[c]
    /\ \A c \in Clients : sendClosed[c] => Started(c)

JoinInv == NewHasNoReader /\ NoCopies /\ OnePlace /\ OpenUntilLeft

\* A room sends only to clients it has in its map, and evicts one of those.
CastInv ==
    \A o \in RoomObjs :
        /\ roomTodo[o] \subseteq members[o]
        /\ roomPC[o] \in {"none", "select", "snap", "exit"} => roomTodo[o] = {}
        /\ roomPC[o] = "evict" => roomVictim[o] \in members[o] \ roomTodo[o]

\* What is left of this when others close a client too: whom a room sends to or
\* evicts and no longer has in its map was closed.
TargetsInv ==
    \A o \in RoomObjs :
        /\ roomTodo[o] \subseteq members[o] \cup Left
        /\ roomPC[o] = "evict" => roomVictim[o] \in members[o] \cup Left

\* What Hub.Run found in the map stays there until it has forwarded.
LookupInv ==
    /\ MapTracksRunning
    /\ \A o \in RoomObjs : roomPC[o] = "none" => ~roomClosed[o]
    /\ hubPC = "create" => rooms[hubReq.room] = Nil
    /\ hubPC \in {"store", "forward"} => /\ hubRoom = rooms[hubReq.room]
                                         /\ hubRoom # Nil

SafetyInv == Types /\ JoinInv /\ CastInv /\ LookupInv /\ RunLoopsNeverPanic
-----------------------------------------------------------------------------
\* Under unique ids the map keyed by the id is a set of clients.
LEMMA MapIsSet ==
    ASSUME UniqueIds, RoomTypeOK, NEW o \in RoomObjs, NEW c \in Clients
    PROVE  /\ Has(o, c) <=> c \in members[o]
           /\ Without(o, c) = members[o] \ {c}
           /\ With(o, c) = members[o] \cup {c}
BY DEF UniqueIds, RoomTypeOK, Has, Without, With

LEMMA DistinctAppend ==
    ASSUME NEW S, NEW q \in Seq(S), NEW x \in S, Distinct(q), x \notin InQueue(q)
    PROVE  Distinct(Append(q, x))
<1>1. /\ \A i \in 1..Len(q) : Append(q, x)[i] = q[i]
      /\ Append(q, x)[Len(q) + 1] = x
      /\ DOMAIN q = 1..Len(q)
      /\ DOMAIN Append(q, x) = 1..(Len(q) + 1)
      /\ Len(q) \in Nat
  BY AppendProperties, LenProperties
<1>2. \A i \in DOMAIN q : q[i] # x
  BY DEF InQueue
<1>3. SUFFICES ASSUME NEW i \in DOMAIN Append(q, x), NEW j \in DOMAIN Append(q, x),
                      Append(q, x)[i] = Append(q, x)[j]
               PROVE  i = j
  BY DEF Distinct
<1>4. (i \in DOMAIN q \/ i = Len(q) + 1) /\ (j \in DOMAIN q \/ j = Len(q) + 1)
  BY <1>1
<1>5. QED
  BY <1>1, <1>2, <1>3, <1>4 DEF Distinct

LEMMA DistinctTail ==
    ASSUME NEW S, NEW q \in Seq(S), q # <<>>, Distinct(q)
    PROVE  Distinct(Tail(q)) /\ Head(q) \notin InQueue(Tail(q))
<1>1. /\ Len(Tail(q)) = Len(q) - 1
      /\ \A i \in 1..Len(Tail(q)) : Tail(q)[i] = q[i + 1]
      /\ DOMAIN Tail(q) = 1..Len(Tail(q))
      /\ DOMAIN q = 1..Len(q)
      /\ Len(q) \in Nat \ {0}
      /\ Head(q) = q[1]
  BY HeadTailProperties, LenProperties, EmptySeq
<1>2. \A i \in DOMAIN Tail(q) : i \in Nat /\ i >= 1 /\ i + 1 \in DOMAIN q /\ Tail(q)[i] = q[i + 1]
  BY <1>1
<1>3. Distinct(Tail(q))
  BY <1>2 DEF Distinct
<1>4. 1 \in DOMAIN q /\ \A i \in DOMAIN Tail(q) : i + 1 # 1
  BY <1>1, <1>2
<1>5. QED
  BY <1>1, <1>2, <1>3, <1>4 DEF Distinct, InQueue
-----------------------------------------------------------------------------
\* No step calls Register a second time.
LEMMA StartedStays ==
    ASSUME Types, NewHasNoReader, Next
    PROVE  NewHasNoReader' /\ \A c \in Clients : Started(c) => Started(c)'
<1> DEFINE ConnOnly == /\ reader' = reader
                       /\ \/ conn' = conn
                          \/ \E c \in Clients : conn' = [conn EXCEPT ![c] = "down"]
           GoesOn == \E c \in Clients :
                       /\ conn[c] # "new" \/ conn' = [conn EXCEPT ![c] = "down"]
                       /\ conn' = conn \/ conn' = [conn EXCEPT ![c] = "down"]
                       /\ \E s \in {"read", "cast", "snap", "pong", "leave", "done"} :
                             reader' = [reader EXCEPT ![c] = s]
<1>1. /\ reader \in [Clients -> {"none", "register", "read", "snap", "cast", "pong",
                                 "leave", "done"}]
      /\ conn \in [Clients -> {"new", "open", "down"}]
  BY DEF Types, ClientTypes, ClientTypeOK
<1>2. SUFFICES ASSUME NEW d \in Clients
               PROVE  /\ conn'[d] = "new" => reader'[d] = "none"
                      /\ Started(d) => Started(d)'
  BY DEF NewHasNoReader
<1>3. CASE ConnOnly
  BY <1>1, <1>3 DEF NewHasNoReader, Started
<1>4. CASE GoesOn
  BY <1>1, <1>4 DEF NewHasNoReader, Started
<1>5. CASE \E c \in Clients, r \in RoomIds : ServeWs(c, r)
  BY <1>1, <1>5 DEF ServeWs, NewHasNoReader, Started
<1>6. ASSUME NEW c \in Clients,
             \/ AnswerReader(c) \/ Writer(c) \/ ServeWsRefused(c) \/ ReadPing(c)
             \/ ReadError(c) \/ PingFail(c)
             \/ \E r \in RoomIds : ReadChat(c, r)
      PROVE  ConnOnly \/ GoesOn
  <2>1. reader[c] # "none" => conn[c] # "new"
    BY DEF NewHasNoReader
  <2>2. CASE Writer(c) \/ PingFail(c)
    BY <1>1, <2>2
       DEF Writer, WriteMsg, WriteFail, WriteClosed, PingFail, WriterReturns
  <2>3. CASE AnswerReader(c)
    BY <1>1, <2>1, <2>3
       DEF AnswerReader, Register, RegisterTimeout, Pong, PongTimeout, CastSnapshot,
           CastSend, Unregister, UnregisterTimeout
  <2>4. CASE ServeWsRefused(c) \/ ReadPing(c) \/ ReadError(c)
    BY <1>1, <2>1, <2>4 DEF ServeWsRefused, ReadPing, ReadError, ReadFrame
  <2>5. CASE \E r \in RoomIds : ReadChat(c, r)
    BY <1>1, <2>1, <2>5 DEF ReadChat, ReadFrame
  <2>6. QED
    BY <1>6, <2>2, <2>3, <2>4, <2>5
<1>7. ASSUME NEW o \in RoomObjs, Room(o) \/ Age(o)
      PROVE  ConnOnly
  <2>1. roomPC[o] = "hangup" => roomVictim[o] \in Clients
    BY DEF Types, RoomTypes, RoomLocals
  <2>2. QED
    BY <1>7, <2>1
       DEF Room, RoomRegister, RoomUnregister, RoomReceive, RoomExit, RoomSnapshot,
           RoomSend, RoomEvict, RoomHangUp, Age, clientVars
<1>8. ASSUME Hub \/ Stop \/ \E r \in RoomIds : Broadcast(r)
      PROVE  ConnOnly
  BY <1>8
     DEF Hub, HubTakeRegister, HubCreateRoom, HubStoreRoom, HubTakeUnregister,
         HubTakeBroadcast, HubForward, HubSweep, HubStop, Stop, Broadcast, clientVars
<1>9. QED
  BY <1>3, <1>4, <1>5, <1>6, <1>7, <1>8 DEF Next, Environment
-----------------------------------------------------------------------------
LEMMA PlacesHoldClients ==
    ASSUME HubTypeOK, HubLocals, RoomTypeOK
    PROVE  /\ Queued \cup Held \subseteq Clients
           /\ \A o \in RoomObjs : AtDoor(o) \cup members[o] \subseteq Clients
BY LenProperties DEF Queued, Held, AtDoor, InQueue, HubTypeOK, HubLocals, RoomTypeOK

\* Steps that move no registration and close nobody.
LEMMA JoinFrame ==
    ASSUME JoinInv, NewHasNoReader', \A c \in Clients : Started(c) => Started(c)',
           HubTypeOK, HubLocals, RoomTypeOK,
           UNCHANGED <<hubRegister, roomReg, members, sendClosed>>,
           Held' \subseteq Held
    PROVE  JoinInv'
<1>1. /\ Queued' = Queued /\ \A o \in RoomObjs : AtDoor(o)' = AtDoor(o)
      /\ NoCopies'
  BY DEF Queued, AtDoor, JoinInv, NoCopies
<1>2. OnePlace'
  BY <1>1 DEF JoinInv, OnePlace
<1>3. OpenUntilLeft'
  BY <1>1, PlacesHoldClients DEF JoinInv, OpenUntilLeft
<1>4. QED
  BY <1>1, <1>2, <1>3 DEF JoinInv

LEMMA RegisterJoin ==
    ASSUME JoinInv, NewHasNoReader', \A c \in Clients : Started(c) => Started(c)',
           HubTypeOK, HubLocals, RoomTypeOK, ClientTypeOK, NEW c \in Clients, Register(c)
    PROVE  JoinInv'
<1>1. /\ UNCHANGED <<hubReq, roomReg, members, sendClosed>>
      /\ hubRegister' = Append(hubRegister, c)
      /\ Started(c)' /\ ~Started(c)
  BY DEF Register, roomVars, Started, ClientTypeOK
<1>2. /\ c \notin Queued \cup Held /\ ~sendClosed[c]
      /\ \A o \in RoomObjs : c \notin AtDoor(o) \cup members[o]
  BY <1>1 DEF JoinInv, OpenUntilLeft
<1>3. hubRegister \in Seq(Clients)
  BY DEF HubTypeOK
<1>4. /\ Queued' = Queued \cup {c} /\ Held' = Held
      /\ \A o \in RoomObjs : AtDoor(o)' = AtDoor(o)
  BY <1>1, <1>3, AppendQueue DEF Queued, Held, AtDoor
<1>5. NoCopies'
  BY <1>1, <1>2, <1>3, DistinctAppend DEF JoinInv, NoCopies, Queued
<1>6. OnePlace'
  BY <1>1, <1>2, <1>4 DEF JoinInv, OnePlace
<1>7. OpenUntilLeft'
  BY <1>1, <1>2, <1>4, PlacesHoldClients DEF JoinInv, OpenUntilLeft
<1>8. QED
  BY <1>5, <1>6, <1>7 DEF JoinInv

LEMMA TakeJoin ==
    ASSUME JoinInv, NewHasNoReader', \A c \in Clients : Started(c) => Started(c)',
           HubTypeOK, HubLocals, RoomTypeOK, HubTakeRegister
    PROVE  JoinInv'
<1>1. hubRegister \in Seq(Clients) /\ hubRegister # <<>> /\ Distinct(hubRegister)
  BY DEF HubTypeOK, HubTakeRegister, JoinInv, NoCopies
<1>2. PICK c \in Clients : c = Head(hubRegister)
  BY <1>1, TailQueue
<1>3. /\ UNCHANGED <<roomReg, members, sendClosed>>
      /\ hubRegister' = Tail(hubRegister)
      /\ hubReq'.kind = "register" /\ hubReq'.client = c
  BY <1>2 DEF HubTakeRegister, roomVars, clientVars
<1>4. /\ Queued' \subseteq Queued \ {c} /\ Held' = {c} /\ c \in Queued
      /\ \A o \in RoomObjs : AtDoor(o)' = AtDoor(o)
  BY <1>1, <1>2, <1>3, TailQueue, DistinctTail DEF Queued, Held, AtDoor
<1>5. NoCopies'
  BY <1>1, <1>3, DistinctTail DEF JoinInv, NoCopies
<1>6. OnePlace'
  BY <1>3, <1>4 DEF JoinInv, OnePlace
<1>7. OpenUntilLeft'
  BY <1>3, <1>4, PlacesHoldClients DEF JoinInv, OpenUntilLeft
<1>8. QED
  BY <1>5, <1>6, <1>7 DEF JoinInv

LEMMA ForwardJoin ==
    ASSUME JoinInv, NewHasNoReader', \A c \in Clients : Started(c) => Started(c)',
           HubTypeOK, HubLocals, RoomTypeOK, HubForward
    PROVE  JoinInv'
<1>1. UNCHANGED <<hubRegister, members, sendClosed>> /\ Held' = {} /\ Queued' = Queued
  BY DEF HubForward, clientVars, Held, NoRequest, Queued
<1>2. CASE roomReg' = roomReg
  BY <1>1, <1>2, JoinFrame
<1>3. CASE roomReg' # roomReg
  <2>1. PICK o \in RoomObjs, c \in Clients :
            /\ Held = {c}
            /\ roomReg' = [roomReg EXCEPT ![o] = Append(@, c)]
    BY <1>3 DEF HubForward, HubTypeOK, HubLocals, Held
  <2>2. /\ c \notin Queued
        /\ \A p \in RoomObjs : c \notin AtDoor(p) \cup members[p]
        /\ Started(c) /\ ~sendClosed[c]
    BY <2>1 DEF JoinInv, OnePlace, OpenUntilLeft
  <2>3. roomReg[o] \in Seq(Clients) /\ roomReg'[o] = Append(roomReg[o], c)
    BY <2>1 DEF RoomTypeOK
  <2>4. \A p \in RoomObjs : p # o => roomReg'[p] = roomReg[p]
    BY <2>1 DEF RoomTypeOK
  <2>5. /\ AtDoor(o)' = AtDoor(o) \cup {c}
        /\ \A p \in RoomObjs : p # o => AtDoor(p)' = AtDoor(p)
    BY <2>3, <2>4, AppendQueue DEF AtDoor
  <2>6. NoCopies'
    BY <1>1, <2>2, <2>3, <2>4, DistinctAppend DEF JoinInv, NoCopies, AtDoor
  <2>7. OnePlace'
    BY <1>1, <2>2, <2>5 DEF JoinInv, OnePlace
  <2>8. OpenUntilLeft'
    BY <1>1, <2>2, <2>5, PlacesHoldClients DEF JoinInv, OpenUntilLeft
  <2>9. QED
    BY <2>6, <2>7, <2>8 DEF JoinInv
<1>4. QED
  BY <1>2, <1>3

LEMMA SeatJoin ==
    ASSUME UniqueIds, JoinInv, NewHasNoReader',
           \A c \in Clients : Started(c) => Started(c)',
           HubTypeOK, HubLocals, RoomTypeOK, NEW o \in RoomObjs, RoomRegister(o)
    PROVE  JoinInv'
<1>1. roomReg[o] \in Seq(Clients) /\ roomReg[o] # <<>> /\ Distinct(roomReg[o])
  BY DEF RoomTypeOK, RoomRegister, JoinInv, NoCopies
<1>2. PICK c \in Clients : c = Head(roomReg[o])
  BY <1>1, TailQueue
<1>3. /\ UNCHANGED <<hubRegister, hubReq, sendClosed>>
      /\ roomReg' = [roomReg EXCEPT ![o] = Tail(@)]
      /\ members' = [members EXCEPT ![o] = @ \cup {c}]
  BY <1>2, MapIsSet DEF RoomRegister, hubVars, clientVars
<1>4. /\ roomReg'[o] = Tail(roomReg[o]) /\ members'[o] = members[o] \cup {c}
      /\ \A p \in RoomObjs : p # o => roomReg'[p] = roomReg[p] /\ members'[p] = members[p]
  BY <1>3 DEF RoomTypeOK
<1>5. /\ Queued' = Queued /\ Held' = Held
      /\ c \in AtDoor(o) /\ AtDoor(o)' \subseteq AtDoor(o) \ {c}
      /\ \A p \in RoomObjs : p # o => AtDoor(p)' = AtDoor(p)
  BY <1>1, <1>2, <1>3, <1>4, TailQueue, DistinctTail DEF Queued, Held, AtDoor
<1>6. NoCopies'
  BY <1>1, <1>3, <1>4, DistinctTail DEF JoinInv, NoCopies
<1>7. OnePlace'
  BY <1>4, <1>5 DEF JoinInv, OnePlace
<1>8. OpenUntilLeft'
  BY <1>3, <1>4, <1>5, PlacesHoldClients DEF JoinInv, OpenUntilLeft
<1>9. QED
  BY <1>6, <1>7, <1>8 DEF JoinInv

\* A room closes a client it takes out of its map.
LEMMA LeaveJoin ==
    ASSUME JoinInv, NewHasNoReader', \A c \in Clients : Started(c) => Started(c)',
           HubTypeOK, HubLocals, RoomTypeOK, ClientTypeOK,
           NEW o \in RoomObjs, NEW c \in members[o],
           UNCHANGED <<hubRegister, hubReq, roomReg>>,
           members' = [members EXCEPT ![o] = @ \ {c}],
           sendClosed' = [sendClosed EXCEPT ![c] = TRUE]
    PROVE  JoinInv'
<1>1. /\ Queued' = Queued /\ Held' = Held
      /\ \A p \in RoomObjs : AtDoor(p)' = AtDoor(p)
      /\ NoCopies'
  BY DEF Queued, Held, AtDoor, JoinInv, NoCopies
<1>2. /\ members'[o] = members[o] \ {c}
      /\ \A p \in RoomObjs : p # o => members'[p] = members[p]
      /\ \A d \in Clients : d # c => sendClosed'[d] = sendClosed[d]
      /\ Started(c)' /\ c \in Clients
  BY DEF RoomTypeOK, ClientTypeOK, JoinInv, OpenUntilLeft
<1>3. /\ c \notin Queued \cup Held
      /\ \A p \in RoomObjs : c \notin AtDoor(p) /\ (p # o => c \notin members[p])
  BY DEF JoinInv, OnePlace
<1>4. OnePlace'
  BY <1>1, <1>2 DEF JoinInv, OnePlace
<1>5. OpenUntilLeft'
  BY <1>1, <1>2, <1>3, PlacesHoldClients DEF JoinInv, OpenUntilLeft
<1>6. QED
  BY <1>1, <1>4, <1>5 DEF JoinInv

LEMMA JoinStep ==
    ASSUME UniqueIds, Types, JoinInv, TargetsInv, Next
    PROVE  JoinInv'
<1>1. /\ HubTypeOK /\ HubLocals /\ RoomTypeOK /\ ClientTypeOK
      /\ NewHasNoReader' /\ \A c \in Clients : Started(c) => Started(c)'
  BY StartedStays DEF Types, HubTypes, RoomTypes, ClientTypes, JoinInv
<1> DEFINE Quiet == /\ UNCHANGED <<hubRegister, roomReg, members, sendClosed>>
                    /\ Held' \subseteq Held
<1>2. CASE Quiet
  BY <1>1, <1>2, JoinFrame
<1>3. ASSUME NEW c \in Clients, ~Register(c),
             \/ AnswerReader(c) \/ Writer(c) \/ ServeWsRefused(c) \/ ReadPing(c)
             \/ ReadError(c) \/ PingFail(c)
             \/ \E r \in RoomIds : ServeWs(c, r) \/ ReadChat(c, r)
      PROVE  Quiet
  BY <1>3
     DEF AnswerReader, RegisterTimeout, Pong, PongTimeout, CastSnapshot, CastSend,
         Unregister, UnregisterTimeout, Writer, WriteMsg, WriteFail, WriteClosed,
         WriterReturns, PingFail, ServeWsRefused, ReadPing, ReadError, ReadFrame,
         ServeWs, ReadChat, hubVars, roomVars, Held
<1>4. ASSUME ~HubTakeRegister, ~HubForward,
             Hub \/ Stop \/ (\E r \in RoomIds : Broadcast(r)) \/ \E o \in RoomObjs : Age(o)
      PROVE  Quiet
  BY <1>4
     DEF Hub, HubCreateRoom, HubStoreRoom, HubTakeUnregister, HubTakeBroadcast,
         HubSweep, HubStop, Stop, Broadcast, Age, hubVars, roomVars, clientVars, Held
<1>5. ASSUME NEW o \in RoomObjs, Room(o)
      PROVE  JoinInv'
  <2>1. CASE RoomRegister(o)
    BY <1>1, <2>1, SeatJoin
  <2>2. CASE RoomUnregister(o)
    <3>1. PICK c \in Clients : c = Head(roomUnreg[o])
      BY <1>1, <2>2, TailQueue DEF RoomUnregister, RoomTypeOK
    <3>2. UNCHANGED <<hubRegister, hubReq, roomReg>>
      BY <2>2 DEF RoomUnregister, hubVars
    <3>3. CASE Has(o, c)
      <4>1. /\ c \in members[o]
            /\ members' = [members EXCEPT ![o] = @ \ {c}]
            /\ sendClosed' = [sendClosed EXCEPT ![c] = TRUE]
        BY <1>1, <2>2, <3>1, <3>3, MapIsSet DEF RoomUnregister, CloseSend
      <4>2. QED
        BY <1>1, <3>2, <4>1, LeaveJoin
    <3>4. CASE ~Has(o, c)
      BY <1>2, <2>2, <3>1, <3>2, <3>4 DEF RoomUnregister, Held
    <3>5. QED
      BY <3>3, <3>4
  <2>3. CASE RoomEvict(o)
    <3>1. PICK c \in Clients : c = roomVictim[o]
      BY <2>3 DEF RoomEvict, Types, RoomTypes, RoomLocals
    <3>2. /\ UNCHANGED <<hubRegister, hubReq, roomReg>>
          /\ members' = [members EXCEPT ![o] = @ \ {c}]
          /\ sendClosed' = [sendClosed EXCEPT ![c] = TRUE]
      BY <1>1, <2>3, <3>1, MapIsSet DEF RoomEvict, CloseSend, hubVars
    <3>3. CASE c \in members[o]
      BY <1>1, <3>2, <3>3, LeaveJoin
    <3>4. CASE c \in Left
      <4>1. sendClosed[c] /\ c \notin members[o]
        BY <3>4 DEF Left, JoinInv, OpenUntilLeft
      <4>2. members' = members /\ sendClosed' = sendClosed
        BY <1>1, <3>2, <4>1 DEF RoomTypeOK, ClientTypeOK
      <4>3. QED
        BY <1>2, <3>2, <4>2 DEF Held
    <3>5. QED
      BY <2>3, <3>1, <3>3, <3>4 DEF RoomEvict, TargetsInv
  <2>4. CASE \/ RoomReceive(o) \/ RoomExit(o) \/ RoomSnapshot(o) \/ RoomHangUp(o)
             \/ \E c \in Clients : RoomSend(o, c)
    BY <1>2, <2>4
       DEF RoomReceive, RoomExit, RoomSnapshot, RoomHangUp, RoomSend, hubVars,
           clientVars, Held
  <2>5. QED
    BY <1>5, <2>1, <2>2, <2>3, <2>4 DEF Room
<1>6. ASSUME NEW c \in Clients, Register(c)
      PROVE  JoinInv'
  BY <1>1, <1>6, RegisterJoin
<1>7. CASE HubTakeRegister
  BY <1>1, <1>7, TakeJoin
<1>8. CASE HubForward
  BY <1>1, <1>8, ForwardJoin
<1>9. QED
  BY <1>2, <1>3, <1>4, <1>5, <1>6, <1>7, <1>8 DEF Next, Environment
-----------------------------------------------------------------------------
LEMMA CastIsTargets ==
    ASSUME CastInv
    PROVE  TargetsInv
BY DEF CastInv, TargetsInv

LEMMA CastStep ==
    ASSUME UniqueIds, Types, CastInv, LookupInv, Next
    PROVE  CastInv'
<1>1. RoomTypeOK /\ HubTypeOK
  BY DEF Types, RoomTypes, HubTypes
<1>2. CASE UNCHANGED <<roomPC, members, roomTodo, roomVictim>>
  BY <1>2 DEF CastInv
<1>3. CASE HubCreateRoom
  BY <1>1, <1>3 DEF HubCreateRoom, FreshRoom, CastInv, RoomTypeOK
<1>4. ASSUME NEW o \in RoomObjs, Room(o)
      PROVE  CastInv'
  <2>1. CASE RoomRegister(o)
    <3>1. Head(roomReg[o]) \in Clients
      BY <1>1, <2>1, TailQueue DEF RoomRegister, RoomTypeOK
    <3>2. members' = [members EXCEPT ![o] = @ \cup {Head(roomReg[o])}]
      BY <1>1, <2>1, <3>1, MapIsSet DEF RoomRegister
    <3>3. QED
      BY <1>1, <2>1, <3>2 DEF RoomRegister, CastInv, RoomTypeOK
  <2>2. CASE RoomUnregister(o)
    BY <1>1, <2>2 DEF RoomUnregister, CastInv, RoomTypeOK
  <2>3. CASE RoomReceive(o) \/ RoomExit(o)
    BY <1>1, <2>3 DEF RoomReceive, RoomExit, CastInv, RoomTypeOK
  <2>4. CASE RoomSnapshot(o)
    BY <1>1, <2>4 DEF RoomSnapshot, AfterSend, CastInv, RoomTypeOK
  <2>5. ASSUME NEW c \in Clients, RoomSend(o, c)
        PROVE  CastInv'
    BY <1>1, <2>5 DEF RoomSend, AfterSend, CastInv, RoomTypeOK
  <2>6. CASE RoomEvict(o)
    <3>1. roomVictim[o] \in members[o] \ roomTodo[o] /\ roomVictim[o] \in Clients
      BY <1>1, <2>6 DEF RoomEvict, CastInv, RoomTypeOK
    <3>2. members' = [members EXCEPT ![o] = @ \ {roomVictim[o]}]
      BY <1>1, <2>6, <3>1, MapIsSet DEF RoomEvict
    <3>3. QED
      BY <1>1, <2>6, <3>1, <3>2 DEF RoomEvict, CastInv, RoomTypeOK
  <2>7. CASE RoomHangUp(o)
    BY <1>1, <2>7 DEF RoomHangUp, AfterSend, CastInv, RoomTypeOK
  <2>8. QED
    BY <1>4, <2>1, <2>2, <2>3, <2>4, <2>5, <2>6, <2>7 DEF Room
<1>5. ASSUME NEW c \in Clients,
             \/ AnswerReader(c) \/ Writer(c) \/ ServeWsRefused(c) \/ ReadPing(c)
             \/ ReadError(c) \/ PingFail(c)
             \/ \E r \in RoomIds : ServeWs(c, r) \/ ReadChat(c, r)
      PROVE  UNCHANGED roomVars
  BY <1>5
     DEF AnswerReader, Register, RegisterTimeout, Pong, PongTimeout, CastSnapshot,
         CastSend, Unregister, UnregisterTimeout, Writer, WriteMsg, WriteFail,
         WriteClosed, WriterReturns, PingFail, ServeWsRefused, ReadPing, ReadError,
         ReadFrame, ServeWs, ReadChat
<1>6. ASSUME ~HubCreateRoom,
             Hub \/ Stop \/ (\E r \in RoomIds : Broadcast(r)) \/ \E o \in RoomObjs : Age(o)
      PROVE  UNCHANGED <<roomPC, members, roomTodo, roomVictim>>
  BY <1>6
     DEF Hub, HubTakeRegister, HubStoreRoom, HubTakeUnregister, HubTakeBroadcast,
         HubForward, HubSweep, HubStop, Stop, Broadcast, Age, roomVars
<1>7. QED
  BY <1>2, <1>3, <1>4, <1>5, <1>6 DEF Next, Environment, roomVars
-----------------------------------------------------------------------------
\* Closing the channels of the rooms with these ids takes exactly those rooms
\* out of both the map and the running goroutines.
LEMMA CloseTracks ==
    ASSUME HubTypeOK, RoomTypeOK, LookupInv, NEW ids \in SUBSET RoomIds,
           CloseRooms(ids), roomPC' = roomPC, hubPC' \in {"select", "done"}
    PROVE  LookupInv'
<1>1. /\ \A o \in RoomObjs : roomClosed'[o] <=> roomClosed[o] \/ \E r \in ids : rooms[r] = o
      /\ \A r \in RoomIds : rooms'[r] = IF r \in ids THEN Nil ELSE rooms[r]
  BY DEF CloseRooms, RoomTypeOK
<1>2. \A o \in RoomObjs : o # Nil
  BY ConstantsAssumption
<1>3. MapTracksRunning'
  BY <1>1, <1>2 DEF LookupInv, MapTracksRunning, Running
<1>4. \A o \in RoomObjs : roomPC'[o] = "none" => ~roomClosed'[o]
  BY <1>1 DEF LookupInv, MapTracksRunning, Running
<1>5. QED
  BY <1>3, <1>4 DEF LookupInv

LEMMA CreateTracks ==
    ASSUME HubTypeOK, RoomTypeOK, LookupInv, hubReq.room \in RoomIds, HubCreateRoom
    PROVE  LookupInv'
<1>1. PICK o \in RoomObjs : o = FreshRoom /\ roomPC[o] = "none"
  BY DEF HubCreateRoom, LookupInv, FreshRoom
<1>2. /\ rooms' = [rooms EXCEPT ![hubReq.room] = o]
      /\ roomPC' = [roomPC EXCEPT ![o] = "select"]
      /\ hubRoom' = o /\ hubPC' = "store"
      /\ UNCHANGED <<hubReq, roomClosed>>
  BY <1>1 DEF HubCreateRoom, LookupInv
<1>3. /\ o # Nil /\ ~roomClosed[o] /\ rooms[hubReq.room] = Nil
      /\ \A r \in RoomIds : rooms[r] # o
  BY <1>1, ConstantsAssumption DEF HubCreateRoom, LookupInv, MapTracksRunning, Running
<1>4. /\ rooms'[hubReq.room] = o
      /\ \A r \in RoomIds : r # hubReq.room => rooms'[r] = rooms[r]
      /\ roomPC'[o] = "select"
      /\ \A p \in RoomObjs : p # o => roomPC'[p] = roomPC[p]
  BY <1>2 DEF HubTypeOK, RoomTypeOK
<1>5. \A p \in RoomObjs : p # o => (Running(p)' <=> Running(p))
  BY <1>2, <1>4 DEF Running
<1>6. Running(o)'
  BY <1>2, <1>3, <1>4 DEF Running
<1>7. ASSUME NEW p \in RoomObjs
      PROVE  Running(p)' <=> \E r \in RoomIds : rooms'[r] = p
  <2>1. CASE p = o
    BY <1>4, <1>6, <2>1
  <2>2. CASE p # o
    <3>1. Running(p) <=> \E r \in RoomIds : rooms[r] = p
      BY DEF LookupInv, MapTracksRunning
    <3>2. p # Nil
      BY ConstantsAssumption
    <3>3. QED
      BY <1>3, <1>4, <1>5, <2>2, <3>1, <3>2
  <2>3. QED
    BY <2>1, <2>2
<1>8. \A r, s \in RoomIds : rooms'[r] = rooms'[s] /\ rooms'[r] # Nil => r = s
  BY <1>3, <1>4 DEF LookupInv, MapTracksRunning
<1>9. QED
  BY <1>2, <1>3, <1>4, <1>7, <1>8 DEF LookupInv, MapTracksRunning

LEMMA LookupStep ==
    ASSUME Types, LookupInv, Next
    PROVE  LookupInv'
<1>1. /\ HubTypeOK /\ HubLocals /\ RoomTypeOK
  BY DEF Types, HubTypes, RoomTypes
<1> DEFINE Still == UNCHANGED <<rooms, hubPC, hubReq, hubRoom, roomPC, roomClosed>>
<1>2. CASE Still
  BY <1>2 DEF LookupInv, MapTracksRunning, Running
<1>3. ASSUME NEW c \in Clients,
             \/ AnswerReader(c) \/ Writer(c) \/ ServeWsRefused(c) \/ ReadPing(c)
             \/ ReadError(c) \/ PingFail(c)
             \/ \E r \in RoomIds : ServeWs(c, r) \/ ReadChat(c, r)
      PROVE  Still
  BY <1>3
     DEF AnswerReader, Register, RegisterTimeout, Pong, PongTimeout, CastSnapshot,
         CastSend, Unregister, UnregisterTimeout, Writer, WriteMsg, WriteFail,
         WriteClosed, WriterReturns, PingFail, ServeWsRefused, ReadPing, ReadError,
         ReadFrame, ServeWs, ReadChat, hubVars, roomVars
<1>4. ASSUME Stop \/ (\E r \in RoomIds : Broadcast(r)) \/ \E o \in RoomObjs : Age(o)
      PROVE  Still
  BY <1>4 DEF Stop, Broadcast, Age, hubVars, roomVars
<1>5. ASSUME NEW o \in RoomObjs, Room(o)
      PROVE  LookupInv'
  <2> DEFINE Busy == {"select", "snap", "cast", "evict", "hangup"}
  <2>1. UNCHANGED <<rooms, hubPC, hubReq, hubRoom, roomClosed>>
    BY <1>5
       DEF Room, RoomRegister, RoomUnregister, RoomReceive, RoomExit, RoomSnapshot,
           RoomSend, RoomEvict, RoomHangUp, hubVars
  <2>2. roomPC[o] \in Busy /\ \A p \in RoomObjs : p # o => roomPC'[p] = roomPC[p]
    BY <1>1, <1>5
       DEF Room, RoomRegister, RoomUnregister, RoomReceive, RoomExit, RoomSnapshot,
           RoomSend, RoomEvict, RoomHangUp, RoomTypeOK
  <2>3. roomPC'[o] \in Busy \/ (roomPC'[o] = "exit" /\ roomClosed[o])
    BY <1>1, <1>5, <2>2
       DEF Room, RoomRegister, RoomUnregister, RoomReceive, RoomExit, RoomSnapshot,
           RoomSend, RoomEvict, RoomHangUp, RoomTypeOK, AfterSend
  <2>4. QED
    BY <2>1, <2>2, <2>3 DEF LookupInv, MapTracksRunning, Running
<1>6. CASE HubTakeRegister \/ HubTakeUnregister \/ HubTakeBroadcast
  BY <1>1, <1>6
     DEF HubTakeRegister, HubTakeUnregister, HubTakeBroadcast, roomVars, LookupInv,
         MapTracksRunning, Running, HubTypeOK
<1>7. CASE HubCreateRoom
  BY <1>1, <1>7, CreateTracks DEF HubCreateRoom, HubLocals
<1>8. CASE HubStoreRoom
  <2>1. rooms' = rooms
    BY <1>1, <1>8 DEF HubStoreRoom, LookupInv, HubTypeOK
  <2>2. QED
    BY <1>8, <2>1 DEF HubStoreRoom, roomVars, LookupInv, MapTracksRunning, Running
<1>9. CASE HubForward
  BY <1>9 DEF HubForward, LookupInv, MapTracksRunning, Running
<1>10. CASE HubSweep
  <2>1. {r \in RoomIds : Inactive(r)} \in SUBSET RoomIds
    OBVIOUS
  <2>2. QED
    BY <1>1, <1>10, <2>1, CloseTracks DEF HubSweep
<1>11. CASE HubStop
  BY <1>1, <1>11, CloseTracks DEF HubStop
<1>12. QED
  BY <1>2, <1>3, <1>4, <1>5, <1>6, <1>7, <1>8, <1>9, <1>10, <1>11
     DEF Next, Environment, Hub
-----------------------------------------------------------------------------
\* What Hub.Run forwards to is running, what Room.Run sends to or closes is
\* open; the other two places that panic are in the pumps.
LEMMA PanicStep ==
    ASSUME UniqueIds, Types, JoinInv, CastInv, LookupInv, Next, RunLoopsNeverPanic
    PROVE  RunLoopsNeverPanic'
<1>1. /\ HubTypeOK /\ HubLocals /\ RoomTypeOK
  BY DEF Types, HubTypes, RoomTypes
<1>2. \A o \in RoomObjs : \A c \in members[o] : ~sendClosed[c]
  BY DEF JoinInv, OpenUntilLeft
<1>3. ASSUME NEW c \in Clients,
             \/ AnswerReader(c) \/ Writer(c) \/ ServeWsRefused(c) \/ ReadPing(c)
             \/ ReadError(c) \/ PingFail(c)
             \/ \E r \in RoomIds : ServeWs(c, r) \/ ReadChat(c, r)
      PROVE  panic' \in {panic, "broadcast", "pong"}
  BY <1>3
     DEF AnswerReader, Register, RegisterTimeout, Pong, PongTimeout, CastSnapshot,
         CastSend, Unregister, UnregisterTimeout, Writer, WriteMsg, WriteFail,
         WriteClosed, WriterReturns, PingFail, ServeWsRefused, ReadPing, ReadError,
         ReadFrame, ServeWs, ReadChat
<1>4. ASSUME ~HubForward,
             Hub \/ Stop \/ (\E r \in RoomIds : Broadcast(r)) \/ \E o \in RoomObjs : Age(o)
      PROVE  panic' = panic
  BY <1>4
     DEF Hub, HubTakeRegister, HubCreateRoom, HubStoreRoom, HubTakeUnregister,
         HubTakeBroadcast, HubSweep, HubStop, Stop, Broadcast, Age
<1>5. CASE HubForward
  <2>1. hubRoom # Nil /\ hubRoom = rooms[hubReq.room] /\ hubReq.room \in RoomIds
    BY <1>1, <1>5 DEF HubForward, LookupInv, HubLocals
  <2>2. ~roomClosed[hubRoom]
    BY <1>1, <2>1 DEF LookupInv, MapTracksRunning, Running, HubTypeOK
  <2>3. panic' = panic
    BY <1>5, <2>1, <2>2 DEF HubForward
  <2>4. QED
    BY <2>3 DEF RunLoopsNeverPanic
<1>6. ASSUME NEW o \in RoomObjs, Room(o)
      PROVE  panic' = panic
  <2>1. CASE RoomUnregister(o)
    <3>1. PICK c \in Clients : c = Head(roomUnreg[o])
      BY <1>1, <2>1, TailQueue DEF RoomUnregister, RoomTypeOK
    <3>2. QED
      BY <1>1, <1>2, <2>1, <3>1, MapIsSet DEF RoomUnregister, CloseSend
  <2>2. ASSUME NEW c \in Clients, RoomSend(o, c)
        PROVE  panic' = panic
    BY <1>2, <2>2 DEF RoomSend, CastInv
  <2>3. CASE RoomEvict(o)
    BY <1>2, <2>3 DEF RoomEvict, CloseSend, CastInv
  <2>4. CASE \/ RoomRegister(o) \/ RoomReceive(o) \/ RoomExit(o) \/ RoomSnapshot(o)
             \/ RoomHangUp(o)
    BY <2>4 DEF RoomRegister, RoomReceive, RoomExit, RoomSnapshot, RoomHangUp
  <2>5. QED
    BY <1>6, <2>1, <2>2, <2>3, <2>4 DEF Room
<1>7. QED
  BY <1>3, <1>4, <1>5, <1>6 DEF Next, Environment, RunLoopsNeverPanic
-----------------------------------------------------------------------------
LEMMA InitSafety == Init => SafetyInv
<1> SUFFICES ASSUME Init PROVE SafetyInv
  OBVIOUS
<1>1. Types
  BY InitTypes
<1>2. Queued = {} /\ Held = {} /\ \A o \in RoomObjs : AtDoor(o) = {}
  BY EmptySeq DEF Init, Queued, Held, AtDoor, InQueue, NoRequest
<1>3. NewHasNoReader /\ NoCopies
  BY EmptySeq DEF Init, NewHasNoReader, NoCopies, Distinct
<1>4. OnePlace /\ OpenUntilLeft
  BY <1>2 DEF Init, OnePlace, OpenUntilLeft
<1>5. CastInv
  BY DEF Init, CastInv
<1>6. LookupInv
  BY ConstantsAssumption DEF Init, LookupInv, MapTracksRunning, Running
<1>7. QED
  BY <1>1, <1>3, <1>4, <1>5, <1>6 DEF Init, SafetyInv, JoinInv, RunLoopsNeverPanic

LEMMA StepSafety ==
    ASSUME UniqueIds
    PROVE  SafetyInv /\ [Next]_vars => SafetyInv'
<1> SUFFICES ASSUME SafetyInv, [Next]_vars PROVE SafetyInv'
  OBVIOUS
<1>1. Types'
  BY StepTypes DEF SafetyInv
<1>2. CASE UNCHANGED vars
  BY <1>1, <1>2
     DEF SafetyInv, JoinInv, NewHasNoReader, NoCopies, OnePlace, OpenUntilLeft, Queued,
         Held, AtDoor, Started, CastInv, LookupInv, MapTracksRunning, Running,
         RunLoopsNeverPanic, vars, hubVars, roomVars, clientVars
<1>3. CASE Next
  BY <1>1, <1>3, CastIsTargets, JoinStep, CastStep, LookupStep, PanicStep DEF SafetyInv
<1>4. QED
  BY <1>2, <1>3

LEMMA SafetyHolds ==
    ASSUME UniqueIds
    PROVE  Spec => []SafetyInv
BY InitSafety, StepSafety, PTL DEF Spec

\* The hub's map and the room goroutines agree in every reachable state,
\* through CreateRoom, the second store, cleanupInactiveRooms and cleanup, for
\* any number of rooms: Hub.Run never looks up a room whose goroutine is gone.
\* It does not rest on ids being unique.
THEOREM MapTracksRunningAlways == Spec => []MapTracksRunning
<1>1. Init => Types /\ LookupInv
  BY InitTypes, ConstantsAssumption DEF Init, LookupInv, MapTracksRunning, Running
<1>2. Types /\ LookupInv /\ [Next]_vars => (Types /\ LookupInv)'
  BY StepTypes, LookupStep
     DEF LookupInv, MapTracksRunning, Running, vars, hubVars, roomVars
<1>3. Types /\ LookupInv => MapTracksRunning
  BY DEF LookupInv
<1>4. QED
  BY <1>1, <1>2, <1>3, PTL DEF Spec

\* After a panic no goroutine takes a step.
LEMMA NextAlive == Next => Alive
<1>1. ASSUME NEW c \in Clients,
             \/ AnswerReader(c) \/ Writer(c) \/ ServeWsRefused(c) \/ ReadPing(c)
             \/ ReadError(c) \/ PingFail(c)
             \/ \E r \in RoomIds : ServeWs(c, r) \/ ReadChat(c, r)
      PROVE  Alive
  BY <1>1
     DEF AnswerReader, Register, RegisterTimeout, Pong, PongTimeout, CastSnapshot,
         CastSend, Unregister, UnregisterTimeout, Writer, WriteMsg, WriteFail,
         WriteClosed, WriterReturns, PingFail, ServeWsRefused, ReadPing, ReadError,
         ReadFrame, ServeWs, ReadChat
<1>2. ASSUME NEW o \in RoomObjs, Room(o) \/ Age(o)
      PROVE  Alive
  BY <1>2
     DEF Room, RoomRegister, RoomUnregister, RoomReceive, RoomExit, RoomSnapshot,
         RoomSend, RoomEvict, RoomHangUp, Age
<1>3. ASSUME Hub \/ Stop \/ \E r \in RoomIds : Broadcast(r)
      PROVE  Alive
  BY <1>3
     DEF Hub, HubTakeRegister, HubCreateRoom, HubStoreRoom, HubTakeUnregister,
         HubTakeBroadcast, HubForward, HubSweep, HubStop, Stop, Broadcast
<1>4. QED
  BY <1>1, <1>2, <1>3 DEF Next, Environment

\* A room that is about to send has somebody to send to.
TodoInv == Alive => \A o \in RoomObjs : roomPC[o] = "cast" => roomTodo[o] # {}

LEMMA TodoStep ==
    ASSUME Types, TodoInv, Next
    PROVE  TodoInv'
<1>1. RoomTypeOK
  BY DEF Types, RoomTypes
<1>2. Alive
  BY NextAlive
<1>3. CASE UNCHANGED <<roomPC, roomTodo>>
  BY <1>2, <1>3 DEF TodoInv
<1>4. ASSUME NEW o \in RoomObjs, Room(o)
      PROVE  TodoInv'
  <2>1. \A p \in RoomObjs : p # o => roomPC'[p] = roomPC[p] /\ roomTodo'[p] = roomTodo[p]
    BY <1>1, <1>4
       DEF Room, RoomRegister, RoomUnregister, RoomReceive, RoomExit, RoomSnapshot,
           RoomSend, RoomEvict, RoomHangUp, RoomTypeOK
  <2>2. Alive' /\ roomPC'[o] = "cast" => roomTodo'[o] # {}
    <3>1. CASE RoomSnapshot(o) \/ RoomHangUp(o)
      BY <1>1, <3>1 DEF RoomSnapshot, RoomHangUp, AfterSend, RoomTypeOK
    <3>2. ASSUME NEW c \in Clients, RoomSend(o, c)
          PROVE  Alive' /\ roomPC'[o] = "cast" => roomTodo'[o] # {}
      BY <1>1, <3>2 DEF RoomSend, AfterSend, RoomTypeOK, Alive
    <3>3. CASE \/ RoomRegister(o) \/ RoomUnregister(o) \/ RoomReceive(o) \/ RoomExit(o)
               \/ RoomEvict(o)
      BY <1>1, <3>3
         DEF RoomRegister, RoomUnregister, RoomReceive, RoomExit, RoomEvict, RoomTypeOK
    <3>4. QED
      BY <1>4, <3>1, <3>2, <3>3 DEF Room
  <2>3. QED
    BY <1>2, <2>1, <2>2 DEF TodoInv
<1>5. ASSUME NEW c \in Clients,
             \/ AnswerReader(c) \/ Writer(c) \/ ServeWsRefused(c) \/ ReadPing(c)
             \/ ReadError(c) \/ PingFail(c)
             \/ \E r \in RoomIds : ServeWs(c, r) \/ ReadChat(c, r)
      PROVE  UNCHANGED <<roomPC, roomTodo>>
  BY <1>5
     DEF AnswerReader, Register, RegisterTimeout, Pong, PongTimeout, CastSnapshot,
         CastSend, Unregister, UnregisterTimeout, Writer, WriteMsg, WriteFail,
         WriteClosed, WriterReturns, PingFail, ServeWsRefused, ReadPing, ReadError,
         ReadFrame, ServeWs, ReadChat, roomVars
<1>6. CASE HubCreateRoom
  BY <1>1, <1>2, <1>6 DEF HubCreateRoom, TodoInv, RoomTypeOK
<1>7. ASSUME ~HubCreateRoom,
             Hub \/ Stop \/ (\E r \in RoomIds : Broadcast(r)) \/ \E o \in RoomObjs : Age(o)
      PROVE  UNCHANGED <<roomPC, roomTodo>>
  BY <1>7
     DEF Hub, HubTakeRegister, HubStoreRoom, HubTakeUnregister, HubTakeBroadcast,
         HubForward, HubSweep, HubStop, Stop, Broadcast, Age, roomVars
<1>8. QED
  BY <1>3, <1>4, <1>5, <1>6, <1>7 DEF Next, Environment

\* Hub.Run waits only on rooms that run with open channels and can go on reading,
\* for any number of rooms and clients and any capacities, whether or not ids are
\* unique.
THEOREM HubWaitsOnReaderAlways == Spec => []HubWaitsOnReader
<1> DEFINE Inv == Types /\ LookupInv /\ TodoInv
<1>1. Init => Inv
  BY InitTypes, ConstantsAssumption
     DEF Init, LookupInv, MapTracksRunning, Running, TodoInv
<1>2. Inv /\ [Next]_vars => Inv'
  <2> SUFFICES ASSUME Inv, [Next]_vars PROVE Inv'
    OBVIOUS
  <2>1. CASE Next
    BY <2>1, StepTypes, LookupStep, TodoStep
  <2>2. CASE UNCHANGED vars
    BY <2>2, StepTypes
       DEF LookupInv, MapTracksRunning, Running, TodoInv, Alive, vars, hubVars, roomVars
  <2>3. QED
    BY <2>1, <2>2
<1>3. Inv => HubWaitsOnReader
  <2> SUFFICES ASSUME Inv, Alive, hubPC = "forward"
               PROVE  Running(hubRoom) /\ (roomPC[hubRoom] = "cast" => roomTodo[hubRoom] # {})
    BY DEF HubWaitsOnReader
  <2>1. hubRoom \in RoomObjs /\ \E r \in RoomIds : rooms[r] = hubRoom
    BY DEF LookupInv, Types, HubTypes, HubTypeOK, HubLocals
  <2>2. QED
    BY <2>1 DEF LookupInv, MapTracksRunning, TodoInv
<1>4. QED
  BY <1>1, <1>2, <1>3, PTL DEF Spec

\* With unique ids, a room never holds a client whose channel has been closed,
\* whichever of leave and eviction comes first and however many registrations
\* and leaves are queued.
THEOREM MembersOpenAlways ==
    ASSUME UniqueIds
    PROVE  Spec => []MembersOpen
<1>1. SafetyInv => MembersOpen
  BY DEF SafetyInv, JoinInv, OpenUntilLeft, MembersOpen
<1>2. QED
  BY <1>1, SafetyHolds, PTL

\* With unique ids, neither Hub.Run nor Room.Run ever panics: they never send on
\* a closed channel or a nil room and never close a client twice.
THEOREM RunLoopsNeverPanicAlways ==
    ASSUME UniqueIds
    PROVE  Spec => []RunLoopsNeverPanic
<1>1. SafetyInv => RunLoopsNeverPanic
  BY DEF SafetyInv
<1>2. QED
  BY <1>1, SafetyHolds, PTL
-----------------------------------------------------------------------------
\* A registered client that is open is somewhere between its registration and
\* its seat, and only a client that is closed loses its place.
Placed(c) == c \in Queued \cup Held \/ \E o \in RoomObjs : c \in AtDoor(o) \cup members[o]

PlaceInv ==
    /\ \A c \in Clients : writer[c] # "none" /\ ~sendClosed[c] => Placed(c)
    /\ hubPC = "select" => Held = {}

LEMMA HeadOrTail ==
    ASSUME NEW S, NEW q \in Seq(S), q # <<>>
    PROVE  InQueue(q) \subseteq InQueue(Tail(q)) \cup {Head(q)}
<1>1. /\ Len(Tail(q)) = Len(q) - 1
      /\ \A i \in 1..Len(Tail(q)) : Tail(q)[i] = q[i + 1]
      /\ DOMAIN Tail(q) = 1..Len(Tail(q))
      /\ DOMAIN q = 1..Len(q)
      /\ Len(q) \in Nat \ {0}
      /\ Head(q) = q[1]
  BY HeadTailProperties, LenProperties, EmptySeq
<1>2. \A i \in DOMAIN q : i # 1 => i - 1 \in DOMAIN Tail(q) /\ Tail(q)[i - 1] = q[i]
  BY <1>1
<1>3. ASSUME NEW i \in DOMAIN q
      PROVE  q[i] = Head(q) \/ \E j \in DOMAIN Tail(q) : Tail(q)[j] = q[i]
  BY <1>1, <1>2
<1>4. QED
  BY <1>3 DEF InQueue

\* No step opens a channel again.
LEMMA ClosedStays ==
    ASSUME ClientTypeOK, Next, NEW d \in Clients, ~sendClosed'[d]
    PROVE  ~sendClosed[d]
<1>1. ASSUME NEW c, sendClosed' = [sendClosed EXCEPT ![c] = TRUE]
      PROVE  ~sendClosed[d]
  BY <1>1 DEF ClientTypeOK
<1>2. ASSUME NEW c \in Clients,
             \/ AnswerReader(c) \/ Writer(c) \/ ServeWsRefused(c) \/ ReadPing(c)
             \/ ReadError(c) \/ PingFail(c)
             \/ \E r \in RoomIds : ServeWs(c, r) \/ ReadChat(c, r)
      PROVE  sendClosed' = sendClosed
  BY <1>2
     DEF AnswerReader, Register, RegisterTimeout, Pong, PongTimeout, CastSnapshot,
         CastSend, Unregister, UnregisterTimeout, Writer, WriteMsg, WriteFail,
         WriteClosed, WriterReturns, PingFail, ServeWsRefused, ReadPing, ReadError,
         ReadFrame, ServeWs, ReadChat
<1>3. ASSUME Hub \/ Stop \/ (\E r \in RoomIds : Broadcast(r)) \/ \E o \in RoomObjs : Age(o)
      PROVE  sendClosed' = sendClosed
  BY <1>3
     DEF Hub, HubTakeRegister, HubCreateRoom, HubStoreRoom, HubTakeUnregister,
         HubTakeBroadcast, HubForward, HubSweep, HubStop, Stop, Broadcast, Age,
         clientVars
<1>4. ASSUME NEW o \in RoomObjs, Room(o)
      PROVE  ~sendClosed[d]
  <2>1. CASE RoomUnregister(o) \/ RoomEvict(o)
    BY <1>1, <2>1 DEF RoomUnregister, RoomEvict, CloseSend
  <2>2. CASE \/ RoomRegister(o) \/ RoomReceive(o) \/ RoomExit(o) \/ RoomSnapshot(o)
             \/ RoomHangUp(o) \/ \E c \in Clients : RoomSend(o, c)
    BY <2>2
       DEF RoomRegister, RoomReceive, RoomExit, RoomSnapshot, RoomHangUp, RoomSend,
           clientVars
  <2>3. QED
    BY <1>4, <2>1, <2>2 DEF Room
<1>5. QED
  BY <1>2, <1>3, <1>4 DEF Next, Environment

LEMMA PlaceStep ==
    ASSUME UniqueIds, Types, PlaceInv, Next, panic' \notin {"hub", "nil"}
    PROVE  PlaceInv'
<1>1. /\ HubTypeOK /\ HubLocals /\ RoomTypeOK /\ ClientTypeOK
      /\ \A d \in Clients : ~sendClosed'[d] => ~sendClosed[d]
  BY ClosedStays DEF Types, HubTypes, RoomTypes, ClientTypes
<1> DEFINE Kept == \A d \in Clients : Placed(d) /\ ~sendClosed'[d] => Placed(d)'
           SameWriters == \A d \in Clients : writer'[d] # "none" => writer[d] # "none"
           HandFree == hubPC' = "select" => Held' = {}
           Still == UNCHANGED <<hubRegister, hubReq, hubPC, roomReg, members>>
<1>2. Kept /\ SameWriters /\ HandFree => PlaceInv'
  BY <1>1 DEF PlaceInv
<1>3. Still => Kept /\ HandFree
  BY DEF PlaceInv, Placed, Queued, Held, AtDoor
<1>4. ASSUME NEW c \in Clients, ~Register(c),
             \/ AnswerReader(c) \/ Writer(c) \/ ServeWsRefused(c) \/ ReadPing(c)
             \/ ReadError(c) \/ PingFail(c)
             \/ \E r \in RoomIds : ServeWs(c, r) \/ ReadChat(c, r)
      PROVE  Still /\ SameWriters
  BY <1>1, <1>4
     DEF AnswerReader, RegisterTimeout, Pong, PongTimeout, CastSnapshot, CastSend,
         Unregister, UnregisterTimeout, Writer, WriteMsg, WriteFail, WriteClosed,
         WriterReturns, PingFail, ServeWsRefused, ReadPing, ReadError, ReadFrame,
         ServeWs, ReadChat, hubVars, roomVars, ClientTypeOK
<1>5. ASSUME NEW c \in Clients, Register(c)
      PROVE  PlaceInv'
  <2>1. /\ hubRegister \in Seq(Clients)
        /\ hubRegister' = Append(hubRegister, c)
        /\ UNCHANGED <<hubReq, hubPC, roomReg, members>>
        /\ \A d \in Clients : d # c => writer'[d] = writer[d]
    BY <1>1, <1>5 DEF Register, roomVars, HubTypeOK, ClientTypeOK
  <2>2. Queued' = Queued \cup {c} /\ Held' = Held /\ \A o \in RoomObjs : AtDoor(o)' = AtDoor(o)
    BY <2>1, AppendQueue DEF Queued, Held, AtDoor
  <2>3. Placed(c)' /\ \A d \in Clients : Placed(d) => Placed(d)'
    BY <2>1, <2>2 DEF Placed
  <2>4. QED
    BY <1>1, <2>1, <2>2, <2>3 DEF PlaceInv
<1>6. CASE HubTakeRegister
  <2>1. /\ hubRegister \in Seq(Clients) /\ hubRegister # <<>>
        /\ hubRegister' = Tail(hubRegister)
        /\ Held = {} /\ Held' = {Head(hubRegister)} /\ hubPC' # "select"
        /\ UNCHANGED <<roomReg, members, writer>>
    BY <1>1, <1>6 DEF HubTakeRegister, HubTypeOK, PlaceInv, Held, roomVars, clientVars
  <2>2. /\ Queued \subseteq Queued' \cup Held'
        /\ \A o \in RoomObjs : AtDoor(o)' = AtDoor(o)
    BY <2>1, HeadOrTail DEF Queued, AtDoor
  <2>3. Kept
    BY <2>1, <2>2 DEF Placed
  <2>4. QED
    BY <1>2, <2>1, <2>3
<1>7. CASE HubForward
  <2>1. /\ UNCHANGED <<hubRegister, members, writer>>
        /\ Held' = {} /\ Queued' = Queued
    BY <1>7 DEF HubForward, clientVars, Held, NoRequest, Queued
  <2>2. CASE Held = {}
    <3>1. roomReg' = roomReg
      BY <1>7, <2>2 DEF HubForward, Held
    <3>2. QED
      BY <1>2, <2>1, <2>2, <3>1 DEF Placed, AtDoor
  <2>3. CASE Held # {}
    <3>1. PICK o \in RoomObjs, c \in Clients :
              /\ Held = {c}
              /\ roomReg' = [roomReg EXCEPT ![o] = Append(@, c)]
      BY <1>1, <1>7, <2>3
         DEF HubForward, HubTypeOK, HubLocals, Held
    <3>2. roomReg[o] \in Seq(Clients) /\ roomReg'[o] = Append(roomReg[o], c)
      BY <1>1, <3>1 DEF RoomTypeOK
    <3>3. \A p \in RoomObjs : p # o => roomReg'[p] = roomReg[p]
      BY <1>1, <3>1 DEF RoomTypeOK
    <3>4. /\ AtDoor(o)' = AtDoor(o) \cup {c}
          /\ \A p \in RoomObjs : p # o => AtDoor(p)' = AtDoor(p)
      BY <3>2, <3>3, AppendQueue DEF AtDoor
    <3>5. Kept
      BY <2>1, <3>1, <3>4 DEF Placed
    <3>6. QED
      BY <1>2, <2>1, <3>5
  <2>4. QED
    BY <2>2, <2>3
<1>8. ASSUME ~HubTakeRegister, ~HubForward,
             Hub \/ Stop \/ (\E r \in RoomIds : Broadcast(r)) \/ \E o \in RoomObjs : Age(o)
      PROVE  /\ UNCHANGED <<hubRegister, roomReg, members, writer>>
             /\ Held' = Held
             /\ hubPC' = "select" => hubPC = "select"
  <2>1. CASE HubTakeUnregister \/ HubTakeBroadcast
    <3>1. hubPC = "select" /\ UNCHANGED <<hubRegister, roomReg, members, writer>>
      BY <2>1 DEF HubTakeUnregister, HubTakeBroadcast, roomVars, clientVars
    <3>2. hubReq' = hubReq \/ hubReq'.kind # "register"
      BY <2>1 DEF HubTakeUnregister, HubTakeBroadcast
    <3>3. Held = {} /\ Held' = {}
      BY <3>1, <3>2 DEF Held, PlaceInv
    <3>4. QED
      BY <3>1, <3>3
  <2>2. CASE \/ HubCreateRoom \/ HubStoreRoom \/ HubSweep \/ HubStop
             \/ Stop \/ (\E r \in RoomIds : Broadcast(r)) \/ \E o \in RoomObjs : Age(o)
    BY <2>2
       DEF HubCreateRoom, HubStoreRoom, HubSweep, HubStop, Stop, Broadcast, Age,
           hubVars, roomVars, clientVars, Held
  <2>3. QED
    BY <1>8, <2>1, <2>2 DEF Hub
<1>9. ASSUME NEW o \in RoomObjs, Room(o)
      PROVE  Kept /\ SameWriters /\ HandFree
  <2>1. /\ UNCHANGED <<hubRegister, hubReq, hubPC, writer>>
        /\ Queued' = Queued /\ Held' = Held
    BY <1>9
       DEF Room, RoomRegister, RoomUnregister, RoomReceive, RoomExit, RoomSnapshot,
           RoomSend, RoomEvict, RoomHangUp, hubVars, clientVars, Queued, Held
  <2>2. CASE RoomRegister(o)
    <3>1. roomReg[o] \in Seq(Clients) /\ roomReg[o] # <<>>
      BY <1>1, <2>2 DEF RoomTypeOK, RoomRegister
    <3>2. PICK c \in Clients : c = Head(roomReg[o])
      BY <3>1, TailQueue
    <3>3. /\ roomReg'[o] = Tail(roomReg[o]) /\ members'[o] = members[o] \cup {c}
          /\ \A p \in RoomObjs : p # o => roomReg'[p] = roomReg[p] /\ members'[p] = members[p]
      BY <1>1, <2>2, <3>2, MapIsSet DEF RoomRegister, RoomTypeOK
    <3>4. /\ AtDoor(o) \subseteq AtDoor(o)' \cup {c}
          /\ \A p \in RoomObjs : p # o => AtDoor(p)' = AtDoor(p)
      BY <3>1, <3>2, <3>3, HeadOrTail DEF AtDoor
    <3>5. Kept
      BY <2>1, <3>3, <3>4 DEF Placed
    <3>6. QED
      BY <2>1, <3>5 DEF PlaceInv
  <2>3. ASSUME NEW c \in Clients, roomReg' = roomReg,
               members' = [members EXCEPT ![o] = @ \ {c}],
               sendClosed' = [sendClosed EXCEPT ![c] = TRUE]
        PROVE  Kept
    <3>1. sendClosed'[c] /\ \A p \in RoomObjs : members[p] \subseteq members'[p] \cup {c}
      BY <1>1, <2>3 DEF RoomTypeOK, ClientTypeOK
    <3>2. \A p \in RoomObjs : AtDoor(p)' = AtDoor(p)
      BY <2>3 DEF AtDoor
    <3>3. QED
      BY <2>1, <3>1, <3>2 DEF Placed
  <2>4. CASE RoomUnregister(o)
    <3>1. PICK c \in Clients : c = Head(roomUnreg[o])
      BY <1>1, <2>4, TailQueue DEF RoomUnregister, RoomTypeOK
    <3>2. CASE Has(o, c)
      BY <1>1, <2>1, <2>3, <2>4, <3>1, <3>2, MapIsSet
         DEF RoomUnregister, CloseSend, PlaceInv
    <3>3. CASE ~Has(o, c)
      BY <1>3, <2>1, <2>4, <3>1, <3>3 DEF RoomUnregister
    <3>4. QED
      BY <3>2, <3>3
  <2>5. CASE RoomEvict(o)
    <3>1. PICK c \in Clients : c = roomVictim[o]
      BY <2>5 DEF RoomEvict, Types, RoomTypes, RoomLocals
    <3>2. QED
      BY <1>1, <2>1, <2>3, <2>5, <3>1, MapIsSet DEF RoomEvict, CloseSend, PlaceInv
  <2>6. CASE \/ RoomReceive(o) \/ RoomExit(o) \/ RoomSnapshot(o) \/ RoomHangUp(o)
             \/ \E c \in Clients : RoomSend(o, c)
    BY <1>3, <2>1, <2>6 DEF RoomReceive, RoomExit, RoomSnapshot, RoomHangUp, RoomSend
  <2>7. QED
    BY <1>9, <2>2, <2>4, <2>5, <2>6 DEF Room
<1>10. ASSUME UNCHANGED <<hubRegister, roomReg, members, writer>>, Held' = Held,
              hubPC' = "select" => hubPC = "select"
       PROVE  PlaceInv'
  BY <1>2, <1>10 DEF PlaceInv, Placed, Queued, AtDoor
<1>11. QED
  BY <1>2, <1>3, <1>4, <1>5, <1>6, <1>7, <1>8, <1>9, <1>10 DEF Next, Environment

\* With unique ids, a client whose registration was served keeps its seat until
\* its own channel is closed: no leave, eviction, sweep or stop of anything else
\* takes it out of its room and leaves its pumps waiting.
THEOREM SeatedUntilClosedAlways ==
    ASSUME UniqueIds
    PROVE  Spec => []SeatedUntilClosed
<1>1. Init => PlaceInv
  BY DEF Init, PlaceInv, Held, NoRequest
<1>2. SafetyInv /\ SafetyInv' /\ PlaceInv /\ [Next]_vars => PlaceInv'
  <2>1. SUFFICES ASSUME SafetyInv, SafetyInv', PlaceInv, [Next]_vars PROVE PlaceInv'
    OBVIOUS
  <2>2. CASE Next
    BY <2>1, <2>2, PlaceStep DEF SafetyInv, RunLoopsNeverPanic
  <2>3. CASE UNCHANGED vars
    BY <2>1, <2>3
       DEF PlaceInv, Placed, Queued, Held, AtDoor, vars, hubVars, roomVars, clientVars
  <2>4. QED
    BY <2>1, <2>2, <2>3
<1>3. PlaceInv => SeatedUntilClosed
  BY DEF PlaceInv, Placed, Queued, Held, AtDoor, SeatedUntilClosed, JoinServed, Seats
<1>4. QED
  BY <1>1, <1>2, <1>3, SafetyHolds, PTL DEF Spec
-----------------------------------------------------------------------------
\* A message in a buffer was numbered by its sender's count of frames, and is
\* older than the frame its sender has yet to put into that buffer.
InOrder(q) ==
    \A i, j \in DOMAIN q :
        i < j /\ q[i].from = q[j].from /\ q[i].from # Server => q[i].n < q[j].n

Pending(s, d) == reader[s] = "snap" \/ (reader[s] = "cast" /\ d \in castTodo[s])

Numbered(m, d) ==
    m.from # Server => /\ m.n <= frames[m.from]
                       /\ Pending(m.from, d) => m.n < frames[m.from]

OrderInv ==
    \A d \in Clients : InOrder(send[d]) /\ \A m \in InQueue(send[d]) : Numbered(m, d)

LEMMA InOrderAppend ==
    ASSUME NEW q \in Seq(Messages), NEW m \in Messages, InOrder(q),
           m.from # Server => \A x \in InQueue(q) : x.from = m.from => x.n < m.n
    PROVE  InOrder(Append(q, m))
<1>1. /\ \A i \in 1..Len(q) : Append(q, m)[i] = q[i]
      /\ Append(q, m)[Len(q) + 1] = m
      /\ DOMAIN q = 1..Len(q)
      /\ DOMAIN Append(q, m) = 1..(Len(q) + 1)
      /\ Len(q) \in Nat
  BY AppendProperties, LenProperties
<1>2. SUFFICES ASSUME NEW i \in DOMAIN Append(q, m), NEW j \in DOMAIN Append(q, m), i < j,
                      Append(q, m)[i].from = Append(q, m)[j].from,
                      Append(q, m)[i].from # Server
               PROVE  Append(q, m)[i].n < Append(q, m)[j].n
  BY DEF InOrder
<1>3. i \in DOMAIN q /\ Append(q, m)[i] = q[i] /\ q[i] \in InQueue(q)
  BY <1>1, <1>2 DEF InQueue
<1>4. CASE j \in DOMAIN q
  BY <1>1, <1>2, <1>3, <1>4 DEF InOrder
<1>5. CASE j = Len(q) + 1
  BY <1>1, <1>2, <1>3, <1>5
<1>6. QED
  BY <1>1, <1>4, <1>5

LEMMA InOrderTail ==
    ASSUME NEW q \in Seq(Messages), q # <<>>, InOrder(q)
    PROVE  InOrder(Tail(q))
<1>1. /\ Len(Tail(q)) = Len(q) - 1
      /\ \A i \in 1..Len(Tail(q)) : Tail(q)[i] = q[i + 1]
      /\ DOMAIN Tail(q) = 1..Len(Tail(q))
      /\ DOMAIN q = 1..Len(q)
      /\ Len(q) \in Nat \ {0}
  BY HeadTailProperties, LenProperties, EmptySeq
<1>2. \A i \in DOMAIN Tail(q) : i \in Nat /\ i + 1 \in DOMAIN q /\ Tail(q)[i] = q[i + 1]
  BY <1>1
<1>3. \A i, j \in DOMAIN Tail(q) : i < j => i + 1 < j + 1
  BY <1>2
<1>4. QED
  BY <1>2, <1>3 DEF InOrder

\* Steps that put no chat message into a buffer.
LEMMA OrderFrame ==
    ASSUME ClientTypeOK, ClientTypeOK', OrderInv,
           \A s \in Clients : frames'[s] >= frames[s],
           \A s, d \in Clients : Pending(s, d)' => Pending(s, d) \/ frames'[s] > frames[s],
           \A d \in Clients : send'[d] = send[d]
                                \/ (send[d] # <<>> /\ send'[d] = Tail(send[d]))
                                \/ send'[d] = Append(send[d], SystemMessage)
    PROVE  OrderInv'
<1>1. SUFFICES ASSUME NEW d \in Clients
               PROVE  InOrder(send'[d]) /\ \A m \in InQueue(send'[d]) : Numbered(m, d)'
  BY DEF OrderInv, Numbered
<1>2. /\ send[d] \in Seq(Messages) /\ send'[d] \in Seq(Messages)
      /\ InOrder(send[d]) /\ \A m \in InQueue(send[d]) : Numbered(m, d)
      /\ SystemMessage \in Messages /\ SystemMessage.from = Server
  BY DEF ClientTypeOK, OrderInv, SystemMessage, Messages
<1>3. /\ InOrder(send'[d])
      /\ \A m \in InQueue(send'[d]) : m \in InQueue(send[d]) \/ m.from = Server
  <2>1. CASE send'[d] = send[d]
    BY <1>2, <2>1
  <2>2. CASE send[d] # <<>> /\ send'[d] = Tail(send[d])
    BY <1>2, <2>2, TailQueue, InOrderTail
  <2>3. CASE send'[d] = Append(send[d], SystemMessage)
    <3>1. InOrder(send'[d])
      BY <1>2, <2>3, InOrderAppend
    <3>2. InQueue(send'[d]) = InQueue(send[d]) \cup {SystemMessage}
      BY <1>2, <2>3, AppendQueue
    <3>3. QED
      BY <1>2, <3>1, <3>2
  <2>4. QED
    BY <1>1, <2>1, <2>2, <2>3
<1>4. ASSUME NEW m \in InQueue(send'[d]), m.from # Server
      PROVE  /\ m.n <= frames'[m.from]
             /\ Pending(m.from, d)' => m.n < frames'[m.from]
  <2>1. m \in Messages /\ m \in InQueue(send[d])
    BY <1>2, <1>3, <1>4, LenProperties DEF InQueue
  <2>2. m.from \in Clients /\ m.n \in Nat
    BY <1>4, <2>1 DEF Messages
  <2>3. frames[m.from] \in Nat /\ frames'[m.from] \in Nat
    BY <2>2 DEF ClientTypeOK
  <2>4. /\ m.n <= frames[m.from]
        /\ Pending(m.from, d) => m.n < frames[m.from]
    BY <1>2, <1>4, <2>1 DEF Numbered
  <2>5. QED
    BY <1>1, <2>2, <2>3, <2>4
<1>5. QED
  BY <1>3, <1>4 DEF Numbered

\* One send of BroadcastToRoom.
LEMMA OrderCast ==
    ASSUME ClientTypeOK, ClientTypeOK', OrderInv, NEW c \in Clients, NEW e \in Clients,
           CastSend(c, e), send' # send
    PROVE  OrderInv'
<1>0. PICK m : m = [from |-> c, n |-> frames[c]]
  OBVIOUS
<1>1. /\ reader[c] = "cast" /\ e \in castTodo[c]
      /\ send' = [send EXCEPT ![e] = Append(@, m)]
      /\ frames' = frames
      /\ castTodo' = [castTodo EXCEPT ![c] = @ \ {e}]
      /\ \A s \in Clients : s # c => reader'[s] = reader[s]
      /\ reader'[c] \in {"read", "cast"}
  BY <1>0 DEF CastSend, ClientTypeOK
<1>2. /\ m \in Messages /\ m.from = c /\ m.n = frames[c] /\ c # Server
      /\ frames[c] \in Nat
  BY <1>0, ConstantsAssumption DEF Messages, ClientTypeOK
<1>3. \A s, d \in Clients : Pending(s, d)' => Pending(s, d) /\ ~(s = c /\ d = e)
  BY <1>1 DEF Pending, ClientTypeOK
<1>4. SUFFICES ASSUME NEW d \in Clients
               PROVE  InOrder(send'[d]) /\ \A x \in InQueue(send'[d]) : Numbered(x, d)'
  BY DEF OrderInv, Numbered
<1>5. /\ send[d] \in Seq(Messages)
      /\ InOrder(send[d]) /\ \A x \in InQueue(send[d]) : Numbered(x, d)
  BY DEF ClientTypeOK, OrderInv
<1>6. \A x \in InQueue(send[d]) : x \in Messages
  BY <1>5, LenProperties DEF InQueue
<1>7. \A x \in InQueue(send[d]) : Numbered(x, d)'
  BY <1>1, <1>3, <1>5, <1>6 DEF Numbered, Messages
<1>8. CASE d # e
  <2>1. send'[d] = send[d]
    BY <1>1, <1>8 DEF ClientTypeOK
  <2>2. QED
    BY <1>5, <1>7, <2>1
<1>9. CASE d = e
  <2>1. send'[d] = Append(send[d], m)
    BY <1>1, <1>9 DEF ClientTypeOK
  <2>2. Pending(c, d)
    BY <1>1, <1>9 DEF Pending
  <2>3. \A x \in InQueue(send[d]) : x.from = c => x.n < frames[c]
    BY <1>2, <1>5, <2>2 DEF Numbered
  <2>4. InOrder(send'[d])
    BY <1>2, <1>5, <2>1, <2>3, InOrderAppend
  <2>5. InQueue(send'[d]) = InQueue(send[d]) \cup {m}
    BY <1>2, <1>5, <2>1, AppendQueue
  <2>6. Numbered(m, d)'
    BY <1>1, <1>2, <1>3, <1>9 DEF Numbered
  <2>7. QED
    BY <1>7, <2>4, <2>5, <2>6
<1>10. QED
  BY <1>8, <1>9

LEMMA OrderStep ==
    ASSUME Types, Types', OrderInv, Next
    PROVE  OrderInv'
<1>1. ClientTypeOK /\ ClientTypeOK' /\ RoomTypeOK
  BY DEF Types, ClientTypes, RoomTypes
<1> DEFINE Fed == \A d \in Clients :
                     \/ send'[d] = send[d]
                     \/ send[d] # <<>> /\ send'[d] = Tail(send[d])
                     \/ send'[d] = Append(send[d], SystemMessage)
           Counted == /\ \A s \in Clients : frames'[s] >= frames[s]
                      /\ \A s, d \in Clients : Pending(s, d)'
                            => Pending(s, d) \/ frames'[s] > frames[s]
<1>2. Fed /\ Counted => OrderInv'
  BY <1>1, OrderFrame
<1>3. \A s \in Clients : frames[s] \in Nat
  BY <1>1 DEF ClientTypeOK
<1>4. ASSUME UNCHANGED <<frames, reader, castTodo>>
      PROVE  Counted
  BY <1>3, <1>4 DEF Pending
<1>5. ASSUME NEW c \in Clients, NEW s, frames' = frames, castTodo' = castTodo,
             s \notin {"snap", "cast"}, reader' = [reader EXCEPT ![c] = s]
      PROVE  Counted
  BY <1>1, <1>3, <1>5 DEF Pending, ClientTypeOK
<1>6. ASSUME NEW c \in Clients,
             \/ \E r \in RoomIds : ServeWs(c, r)
             \/ ServeWsRefused(c) \/ Register(c) \/ RegisterTimeout(c)
             \/ PongTimeout(c) \/ ReadError(c) \/ Unregister(c) \/ UnregisterTimeout(c)
      PROVE  Fed /\ Counted
  BY <1>5, <1>6
     DEF ServeWs, ServeWsRefused, Register, RegisterTimeout, PongTimeout, ReadError,
         Unregister, UnregisterTimeout
<1>7. ASSUME NEW c \in Clients, Pong(c)
      PROVE  Fed /\ Counted
  <2>1. Counted
    BY <1>5, <1>7 DEF Pong
  <2>2. Fed
    BY <1>1, <1>7 DEF Pong, ClientTypeOK
  <2>3. QED
    BY <2>1, <2>2
<1>8. ASSUME NEW c \in Clients, ReadPing(c) \/ \E r \in RoomIds : ReadChat(c, r)
      PROVE  Fed /\ Counted
  <2>1. /\ send' = send /\ castTodo' = castTodo
        /\ frames' = [frames EXCEPT ![c] = @ + 1]
        /\ \A s \in Clients : s # c => reader'[s] = reader[s]
    BY <1>1, <1>8 DEF ReadPing, ReadChat, ReadFrame, ClientTypeOK
  <2>2. \A s \in Clients : frames'[s] = IF s = c THEN frames[s] + 1 ELSE frames[s]
    BY <1>1, <2>1 DEF ClientTypeOK
  <2>3. QED
    BY <1>3, <2>1, <2>2 DEF Pending
<1>9. ASSUME NEW c \in Clients, CastSnapshot(c)
      PROVE  Fed /\ Counted
  <2>1. /\ send' = send /\ frames' = frames /\ reader[c] = "snap"
        /\ \A s \in Clients : s # c => /\ reader'[s] = reader[s]
                                       /\ castTodo'[s] = castTodo[s]
    BY <1>1, <1>9 DEF CastSnapshot, ClientTypeOK
  <2>2. QED
    BY <1>3, <2>1 DEF Pending
<1>10. ASSUME NEW c \in Clients, NEW d \in Clients, CastSend(c, d)
       PROVE  OrderInv'
  <2>1. CASE send' = send
    <3>1. /\ frames' = frames /\ reader[c] = "cast"
          /\ castTodo' = [castTodo EXCEPT ![c] = @ \ {d}]
          /\ \A s \in Clients : s # c => reader'[s] = reader[s]
          /\ reader'[c] \in {"read", "cast"}
      BY <1>1, <1>10 DEF CastSend, ClientTypeOK
    <3>2. \A s, e \in Clients : Pending(s, e)' => Pending(s, e)
      BY <1>1, <3>1 DEF Pending, ClientTypeOK
    <3>3. QED
      BY <1>2, <1>3, <2>1, <3>1, <3>2
  <2>2. QED
    BY <1>1, <1>10, <2>1, OrderCast
<1>11. ASSUME NEW c \in Clients, Writer(c) \/ PingFail(c)
       PROVE  Fed /\ Counted
  <2>1. UNCHANGED <<frames, reader, castTodo>>
    BY <1>11 DEF Writer, WriteMsg, WriteFail, WriteClosed, PingFail, WriterReturns
  <2>2. \/ send' = send
        \/ send[c] # <<>> /\ send' = [send EXCEPT ![c] = Tail(@)]
    BY <1>11 DEF Writer, WriteMsg, WriteFail, WriteClosed, PingFail
  <2>3. Fed
    <3>1. ASSUME send' = [send EXCEPT ![c] = Tail(@)]
          PROVE  \A d \in Clients : send'[d] = IF d = c THEN Tail(send[c]) ELSE send[d]
      BY <1>1, <3>1 DEF ClientTypeOK
    <3>2. QED
      BY <2>2, <3>1
  <2>4. QED
    BY <1>4, <2>1, <2>3
<1>12. ASSUME NEW o \in RoomObjs, Room(o)
       PROVE  Fed /\ Counted
  <2>1. UNCHANGED <<frames, reader, castTodo>>
    BY <1>12
       DEF Room, RoomRegister, RoomUnregister, RoomReceive, RoomExit, RoomSnapshot,
           RoomSend, RoomEvict, RoomHangUp, clientVars
  <2>2. Fed
    <3>1. ASSUME NEW c \in Clients, RoomSend(o, c)
          PROVE  Fed
      BY <1>1, <3>1 DEF RoomSend, ClientTypeOK
    <3>2. ASSUME \A c \in Clients : ~RoomSend(o, c)
          PROVE  send' = send
      BY <1>12, <3>2
         DEF Room, RoomRegister, RoomUnregister, RoomReceive, RoomExit, RoomSnapshot,
             RoomEvict, RoomHangUp, clientVars
    <3>3. QED
      BY <3>1, <3>2
  <2>3. QED
    BY <1>4, <2>1, <2>2
<1>13. ASSUME Hub \/ Stop \/ (\E r \in RoomIds : Broadcast(r)) \/ \E o \in RoomObjs : Age(o)
       PROVE  Fed /\ Counted
  <2>1. UNCHANGED clientVars
    BY <1>13
       DEF Hub, HubTakeRegister, HubCreateRoom, HubStoreRoom, HubTakeUnregister,
           HubTakeBroadcast, HubForward, HubSweep, HubStop, Stop, Broadcast, Age
  <2>2. QED
    BY <1>4, <2>1 DEF clientVars
<1>14. QED
  BY <1>2, <1>6, <1>7, <1>8, <1>9, <1>10, <1>11, <1>12, <1>13
     DEF Next, Environment, AnswerReader

\* A peer's buffer holds any one sender's messages in the order they were sent
\* and none twice, however the readers' broadcasts and the room's interleave.  It
\* does not rest on ids being unique.
THEOREM SenderOrderAlways == Spec => []SenderOrder
<1>1. Init => OrderInv
  BY EmptySeq DEF Init, OrderInv, InOrder, InQueue
<1>2. Types /\ Types' /\ OrderInv /\ [Next]_vars => OrderInv'
  <2>1. SUFFICES ASSUME Types, Types', OrderInv, [Next]_vars PROVE OrderInv'
    OBVIOUS
  <2>2. CASE UNCHANGED vars
    BY <2>1, <2>2 DEF OrderInv, Numbered, Pending, vars, clientVars
  <2>3. QED
    BY <2>1, <2>2, OrderStep
<1>3. OrderInv => SenderOrder
  BY DEF OrderInv, InOrder, SenderOrder
<1>4. QED
  BY <1>1, <1>2, <1>3, InitTypes, StepTypes, PTL DEF Spec
=============================================================================
