-------------------------- MODULE ChatSystemProofs --------------------------
(***************************************************************************)
(* Proofs about ChatSystem for any number of clients, rooms, frames and    *)
(* messages and any capacity of the channels.                              *)
(***************************************************************************)
EXTENDS ChatSystem, SequenceTheorems, TLAPS

\* The local variables of each goroutine are set where its code reads them.
HubLocals ==
    /\ hubPC \in {"create", "store", "forward"} => hubReq.room \in RoomIds
    /\ hubReq.kind \in {"register", "unregister"} => hubReq.client \in Clients

RoomLocals ==
    \A o \in RoomObjs : roomPC[o] \in {"evict", "hangup"} => roomVictim[o] \in Clients

ReaderLocals ==
    \A c \in Clients : reader[c] = "snap" => castRoom[c] \in RoomObjs

\* A client that is served, or whose join or leave is on its way, has a room.
RoomsKnown ==
    /\ \A c \in Clients : reader[c] \notin {"none", "done"} => roomOf[c] \in RoomIds
    /\ \A c \in InQueue(hubRegister) \cup InQueue(hubUnregister) :
          c \in Clients => roomOf[c] \in RoomIds

HubTypes    == HubTypeOK /\ HubLocals
RoomTypes   == RoomTypeOK /\ RoomLocals
ClientTypes == ClientTypeOK /\ ReaderLocals
OtherTypes  == broadcasts \in Nat /\ panic \in Panics

\* The inductive strengthening of TypeOK.
Types == HubTypes /\ RoomTypes /\ ClientTypes /\ OtherTypes /\ RoomsKnown

\* What a send adds to a channel and a receive takes from it.
LEMMA AppendQueue ==
    ASSUME NEW S, NEW q \in Seq(S), NEW x \in S
    PROVE  /\ Append(q, x) \in Seq(S)
           /\ Len(Append(q, x)) = Len(q) + 1
           /\ InQueue(Append(q, x)) = InQueue(q) \cup {x}
<1>1. /\ Append(q, x) \in Seq(S)
      /\ Len(Append(q, x)) = Len(q) + 1
      /\ \A i \in 1..Len(q) : Append(q, x)[i] = q[i]
      /\ Append(q, x)[Len(q) + 1] = x
  BY AppendProperties
<1>2. DOMAIN q = 1..Len(q) /\ DOMAIN Append(q, x) = 1..(Len(q) + 1) /\ Len(q) \in Nat
  BY <1>1, LenProperties
<1>3. \A i \in DOMAIN Append(q, x) : i \in DOMAIN q \/ i = Len(q) + 1
  BY <1>2
<1>4. \A i \in DOMAIN q : i \in DOMAIN Append(q, x)
  BY <1>2
<1>5. Len(q) + 1 \in DOMAIN Append(q, x)
  BY <1>2
<1>6. InQueue(Append(q, x)) \subseteq InQueue(q) \cup {x}
  BY <1>1, <1>2, <1>3 DEF InQueue
<1>7. InQueue(q) \cup {x} \subseteq InQueue(Append(q, x))
  BY <1>1, <1>2, <1>4, <1>5 DEF InQueue
<1>8. QED
  BY <1>1, <1>6, <1>7

LEMMA TailQueue ==
    ASSUME NEW S, NEW q \in Seq(S), q # <<>>
    PROVE  /\ Head(q) \in S
           /\ Tail(q) \in Seq(S)
           /\ Len(Tail(q)) = Len(q) - 1
           /\ Head(q) \in InQueue(q)
           /\ InQueue(Tail(q)) \subseteq InQueue(q)
<1>1. /\ Head(q) \in S /\ Tail(q) \in Seq(S)
      /\ Len(Tail(q)) = Len(q) - 1
      /\ \A i \in 1..Len(Tail(q)) : Tail(q)[i] = q[i + 1]
  BY HeadTailProperties
<1>2. Len(q) \in Nat \ {0} /\ DOMAIN q = 1..Len(q) /\ Head(q) = q[1]
  BY EmptySeq, LenProperties, HeadTailProperties
<1>3. Head(q) \in InQueue(q)
  BY <1>2 DEF InQueue
<1>4. DOMAIN Tail(q) = 1..(Len(q) - 1)
  BY <1>1, LenProperties
<1>5. \A i \in DOMAIN Tail(q) : i + 1 \in DOMAIN q /\ Tail(q)[i] = q[i + 1]
  BY <1>1, <1>2, <1>4
<1>6. QED
  BY <1>1, <1>3, <1>5 DEF InQueue
-----------------------------------------------------------------------------
\* What the steps of other goroutines leave alone keeps its type.
LEMMA HubFrame == ASSUME HubTypes, UNCHANGED hubVars PROVE HubTypes'
BY DEF HubTypes, HubTypeOK, HubLocals, hubVars

LEMMA RoomFrame == ASSUME RoomTypes, UNCHANGED roomVars PROVE RoomTypes'
BY DEF RoomTypes, RoomTypeOK, RoomLocals, roomVars

LEMMA ClientFrame == ASSUME ClientTypes, UNCHANGED clientVars PROVE ClientTypes'
BY DEF ClientTypes, ClientTypeOK, ReaderLocals, clientVars

LEMMA KnownFrame ==
    ASSUME RoomsKnown, UNCHANGED <<roomOf, reader, hubRegister, hubUnregister>>
    PROVE  RoomsKnown'
BY DEF RoomsKnown

LEMMA InitTypes == Init => Types
<1> SUFFICES ASSUME Init PROVE Types
  OBVIOUS
<1> USE DEF Init
<1>1. HubTypes
  <2>1. hubReq \in Requests /\ hubReq.kind = "none"
    BY DEF NoRequest, Requests
  <2>2. HubTypeOK
    <3>1. <<>> \in Seq(Clients) /\ <<>> \in Seq(RoomIds) /\ Len(<<>>) = 0
      BY EmptySeq
    <3>2. Len(<<>>) <= HubCap
      BY <3>1, ConstantsAssumption
    <3>3. rooms \in [RoomIds -> RoomObjs \cup {Nil}]
      OBVIOUS
    <3>4. QED
      BY <2>1, <3>1, <3>2, <3>3 DEF HubTypeOK
  <2>3. HubLocals
    BY <2>1 DEF HubLocals
  <2>4. QED
    BY <2>2, <2>3 DEF HubTypes
<1>2. RoomTypes
  BY EmptySeq, ConstantsAssumption DEF RoomTypes, RoomTypeOK, RoomLocals
<1>3. ClientTypes
  BY EmptySeq, ConstantsAssumption DEF ClientTypes, ClientTypeOK, ReaderLocals
<1>4. OtherTypes
  BY DEF OtherTypes, Panics
<1>5. RoomsKnown
  BY DEF RoomsKnown, InQueue
<1>6. QED
  BY <1>1, <1>2, <1>3, <1>4, <1>5 DEF Types
-----------------------------------------------------------------------------
\* The steps of one connection's two pumps.
LEMMA PumpTypes ==
    ASSUME Types, NEW c \in Clients,
           \/ AnswerReader(c) \/ Writer(c) \/ ServeWsRefused(c) \/ ReadPing(c)
           \/ ReadError(c) \/ PingFail(c)
           \/ \E r \in RoomIds : ServeWs(c, r) \/ ReadChat(c, r)
    PROVE  Types'
<1>1. HubTypes /\ RoomTypes /\ ClientTypes /\ OtherTypes /\ RoomsKnown
  BY DEF Types
<1>2. reader[c] \notin {"none", "done"} => roomOf[c] \in RoomIds
  BY <1>1 DEF RoomsKnown
<1>3. CASE Register(c)
  <2>1. hubRegister \in Seq(Clients)
    BY <1>1 DEF HubTypes, HubTypeOK
  <2>2. /\ Append(hubRegister, c) \in Seq(Clients)
        /\ Len(Append(hubRegister, c)) = Len(hubRegister) + 1
        /\ InQueue(Append(hubRegister, c)) = InQueue(hubRegister) \cup {c}
    BY <2>1, AppendQueue
  <2>3. Len(hubRegister) \in Nat
    BY <2>1, LenProperties
  <2>4. HubTypes'
    BY <1>1, <1>3, <2>2, <2>3, ConstantsAssumption
       DEF Register, HubTypes, HubTypeOK, HubLocals
  <2>5. ClientTypes'
    BY <1>1, <1>3 DEF Register, ClientTypes, ClientTypeOK, ReaderLocals
  <2>6. RoomsKnown'
    BY <1>1, <1>2, <1>3, <2>2 DEF Register, RoomsKnown, ClientTypes, ClientTypeOK
  <2>7. QED
    BY <1>1, <1>3, <2>4, <2>5, <2>6, RoomFrame DEF Register, OtherTypes, Types
<1>4. CASE Unregister(c)
  <2>1. hubUnregister \in Seq(Clients)
    BY <1>1 DEF HubTypes, HubTypeOK
  <2>2. /\ Append(hubUnregister, c) \in Seq(Clients)
        /\ Len(Append(hubUnregister, c)) = Len(hubUnregister) + 1
        /\ InQueue(Append(hubUnregister, c)) = InQueue(hubUnregister) \cup {c}
    BY <2>1, AppendQueue
  <2>3. Len(hubUnregister) \in Nat
    BY <2>1, LenProperties
  <2>4. HubTypes'
    BY <1>1, <1>4, <2>2, <2>3, ConstantsAssumption
       DEF Unregister, HubTypes, HubTypeOK, HubLocals
  <2>5. ClientTypes'
    BY <1>1, <1>4 DEF Unregister, ClientTypes, ClientTypeOK, ReaderLocals
  <2>6. RoomsKnown'
    BY <1>1, <1>2, <1>4, <2>2 DEF Unregister, RoomsKnown, ClientTypes, ClientTypeOK
  <2>7. QED
    BY <1>1, <1>4, <2>4, <2>5, <2>6, RoomFrame DEF Unregister, OtherTypes, Types
<1>5. ASSUME NEW r \in RoomIds, ServeWs(c, r)
      PROVE  Types'
  <2>1. ClientTypes'
    BY <1>1, <1>5 DEF ServeWs, ClientTypes, ClientTypeOK, ReaderLocals
  <2>2. RoomsKnown'
    BY <1>1, <1>5 DEF ServeWs, RoomsKnown, ClientTypes, ClientTypeOK, hubVars
  <2>3. QED
    BY <1>1, <1>5, <2>1, <2>2, HubFrame, RoomFrame DEF ServeWs, OtherTypes, Types
<1>6. CASE \/ RegisterTimeout(c) \/ UnregisterTimeout(c) \/ ServeWsRefused(c)
           \/ ReadError(c) \/ PongTimeout(c) \/ ReadPing(c) \/ CastSnapshot(c)
  <2>1. /\ UNCHANGED <<hubVars, roomVars, roomOf, writer, send, sendClosed,
                       broadcasts, panic>>
        /\ conn' = conn \/ conn' = [conn EXCEPT ![c] = "down"]
        /\ castRoom' = castRoom \/ castRoom' = [castRoom EXCEPT ![c] = Nil]
        /\ frames' = frames \/ frames' = [frames EXCEPT ![c] = @ + 1]
        /\ \/ castTodo' = castTodo /\ castRoom' = castRoom
           \/ /\ castTodo' = [castTodo EXCEPT ![c] = members[castRoom[c]]]
              /\ reader[c] = "snap"
    BY <1>6 DEF RegisterTimeout, UnregisterTimeout, ServeWsRefused, ReadError,
                PongTimeout, ReadPing, CastSnapshot, ReadFrame
  <2>2. PICK s \in {"read", "cast", "pong", "leave", "done"} :
            /\ reader' = [reader EXCEPT ![c] = s]
            /\ s # "done" => reader[c] \notin {"none", "done"}
    BY <1>6 DEF RegisterTimeout, UnregisterTimeout, ServeWsRefused, ReadError,
                PongTimeout, ReadPing, CastSnapshot, ReadFrame
  <2>3. ClientTypeOK /\ ReaderLocals /\ (reader[c] = "snap" => members[castRoom[c]] \in SUBSET Clients)
    BY <1>1 DEF RoomTypes, RoomTypeOK, ClientTypes, ReaderLocals
  <2>4. ClientTypeOK'
    <3>1. /\ conn' \in [Clients -> {"new", "open", "down"}]
          /\ castRoom' \in [Clients -> RoomObjs \cup {Nil}]
      BY <2>1, <2>3 DEF ClientTypeOK
    <3>2. frames' \in [Clients -> Nat]
      <4>1. frames \in [Clients -> Nat] /\ frames[c] + 1 \in Nat
        BY <2>3 DEF ClientTypeOK
      <4>2. QED
        BY <2>1, <4>1
    <3>3. castTodo' \in [Clients -> SUBSET Clients]
      BY <2>1, <2>3 DEF ClientTypeOK
    <3>4. reader' \in [Clients -> {"none", "register", "read", "snap", "cast",
                                  "pong", "leave", "done"}]
      BY <2>2, <2>3 DEF ClientTypeOK
    <3>5. QED
      BY <2>1, <2>3, <3>1, <3>2, <3>3, <3>4 DEF ClientTypeOK
  <2>5. ReaderLocals'
    BY <2>1, <2>2, <2>3 DEF ClientTypeOK, ReaderLocals
  <2>6. RoomsKnown'
    BY <1>1, <1>2, <2>1, <2>2, <2>3 DEF RoomsKnown, ClientTypeOK, hubVars
  <2>7. QED
    BY <1>1, <2>1, <2>4, <2>5, <2>6, HubFrame, RoomFrame DEF ClientTypes, OtherTypes, Types
<1>7. ASSUME NEW r \in RoomIds, ReadChat(c, r)
      PROVE  Types'
  <2>1. rooms[r] \in RoomObjs \cup {Nil}
    BY <1>1 DEF HubTypes, HubTypeOK
  <2>2. ClientTypes'
    BY <1>1, <1>7, <2>1 DEF ReadChat, ReadFrame, ClientTypes, ClientTypeOK, ReaderLocals
  <2>3. RoomsKnown'
    BY <1>1, <1>2, <1>7
       DEF ReadChat, ReadFrame, RoomsKnown, ClientTypes, ClientTypeOK, hubVars
  <2>4. QED
    BY <1>1, <1>7, <2>2, <2>3, HubFrame, RoomFrame
       DEF ReadChat, ReadFrame, OtherTypes, Types
<1>8. CASE Pong(c) \/ \E d \in Clients : CastSend(c, d)
  <2>1. PICK d \in Clients, m \in Messages :
            \/ send' = send
            \/ Len(send[d]) < SendCap /\ send' = [send EXCEPT ![d] = Append(@, m)]
    <3>1. SystemMessage \in Messages /\ [from |-> c, n |-> frames[c]] \in Messages
      BY <1>1 DEF SystemMessage, Messages, ClientTypes, ClientTypeOK
    <3>2. QED
      BY <1>8, <3>1 DEF Pong, CastSend
  <2>2. send[d] \in Seq(Messages)
    BY <1>1 DEF ClientTypes, ClientTypeOK
  <2>3. /\ Append(send[d], m) \in Seq(Messages)
        /\ Len(Append(send[d], m)) = Len(send[d]) + 1
        /\ Len(send[d]) \in Nat
    BY <2>2, AppendQueue, LenProperties
  <2>4. /\ send' \in [Clients -> Seq(Messages)]
        /\ \A e \in Clients : Len(send'[e]) <= SendCap
    <3>1. /\ send \in [Clients -> Seq(Messages)]
          /\ \A e \in Clients : Len(send[e]) <= SendCap
      BY <1>1 DEF ClientTypes, ClientTypeOK
    <3>8. SendCap \in Nat
      BY ConstantsAssumption
    <3>2. send' \in [Clients -> Seq(Messages)]
      BY <2>1, <2>3, <3>1
    <3>3. ASSUME NEW e \in Clients PROVE Len(send'[e]) <= SendCap
      <4>1. CASE e = d 
         BY <2>1, <2>3, <3>1, <3>8, <4>1
      <4>2. CASE e # d
         BY <2>1, <2>3, <3>1, <3>8, <4>2
      <4>3. QED BY <4>1, <4>2
    <3>4. QED
      BY <3>2, <3>3
  <2>5. ClientTypes'
    <3>1. UNCHANGED <<conn, roomOf, writer, sendClosed, castRoom, frames>>
      BY <1>8 DEF Pong, CastSend
    <3>2. /\ \E s \in {"read", "cast"} : reader' = [reader EXCEPT ![c] = s]
          /\ \/ castTodo' = castTodo
             \/ \E e \in Clients : castTodo' = [castTodo EXCEPT ![c] = @ \ {e}]
      BY <1>8 DEF Pong, CastSend
    <3>3. ClientTypeOK /\ ReaderLocals
      BY <1>1 DEF ClientTypes
    <3>4. /\ reader' \in [Clients -> {"none", "register", "read", "snap", "cast",
                                     "pong", "leave", "done"}]
          /\ \A e \in Clients : reader'[e] = "snap" => reader[e] = "snap"
      BY <3>2, <3>3 DEF ClientTypeOK
    <3>5. castTodo' \in [Clients -> SUBSET Clients]
      <4>1. /\ castTodo \in [Clients -> SUBSET Clients]
            /\ \A e \in Clients : castTodo[c] \ {e} \in SUBSET Clients
        BY <3>3 DEF ClientTypeOK
      <4>2. QED
        BY <3>2, <4>1
    <3>6. QED
      BY <2>4, <3>1, <3>3, <3>4, <3>5 DEF ClientTypes, ClientTypeOK, ReaderLocals
  <2>6. RoomsKnown'
    BY <1>1, <1>2, <1>8
       DEF Pong, CastSend, RoomsKnown, ClientTypes, ClientTypeOK, hubVars
  <2>7. OtherTypes'
    BY <1>1, <1>8 DEF Pong, CastSend, OtherTypes, Panics
  <2>8. QED
    BY <1>1, <1>8, <2>5, <2>6, <2>7, HubFrame, RoomFrame DEF Pong, CastSend, Types
<1>9. CASE Writer(c) \/ PingFail(c)
  <2>1. \/ send' = send
        \/ send[c] # <<>> /\ send' = [send EXCEPT ![c] = Tail(@)]
    BY <1>9 DEF Writer, WriteMsg, WriteFail, WriteClosed, PingFail
  <2>2. send[c] \in Seq(Messages)
    BY <1>1 DEF ClientTypes, ClientTypeOK
  <2>3. send[c] # <<>> =>
            /\ Tail(send[c]) \in Seq(Messages)
            /\ Len(Tail(send[c])) = Len(send[c]) - 1
            /\ Len(send[c]) \in Nat
    BY <2>2, TailQueue, LenProperties
  <2>4. /\ send' \in [Clients -> Seq(Messages)]
        /\ \A e \in Clients : Len(send'[e]) <= SendCap
    <3>1. /\ send \in [Clients -> Seq(Messages)]
          /\ \A e \in Clients : Len(send[e]) <= SendCap
      BY <1>1 DEF ClientTypes, ClientTypeOK
    <3>8. SendCap \in Nat
      BY ConstantsAssumption
    <3>2. send' \in [Clients -> Seq(Messages)]
      BY <2>1, <2>3, <3>1
    <3>3. ASSUME NEW e \in Clients PROVE Len(send'[e]) <= SendCap
      <4>1. CASE e = c 
         BY <2>1, <2>3, <3>1, <3>8, <4>1
      <4>2. CASE e # c
         BY <2>1, <2>3, <3>1, <3>8, <4>2
      <4>3. QED BY <4>1, <4>2
    <3>4. QED
      BY <3>2, <3>3
  <2>5. /\ UNCHANGED <<hubVars, roomVars, roomOf, reader, sendClosed, castRoom,
                       castTodo, frames, broadcasts, panic>>
        /\ \/ UNCHANGED <<writer, conn>>
           \/ /\ writer' = [writer EXCEPT ![c] = "done"]
              /\ conn' = [conn EXCEPT ![c] = "down"]
    BY <1>9 DEF Writer, WriteMsg, WriteFail, WriteClosed, PingFail, WriterReturns
  <2>6. ClientTypes'
    BY <1>1, <2>4, <2>5 DEF ClientTypes, ClientTypeOK, ReaderLocals
  <2>7. RoomsKnown'
    BY <1>1, <2>5 DEF RoomsKnown, hubVars
  <2>8. QED
    BY <1>1, <2>5, <2>6, <2>7, HubFrame, RoomFrame DEF OtherTypes, Types
<1>10. QED
  BY <1>3, <1>4, <1>5, <1>6, <1>7, <1>8, <1>9 DEF AnswerReader
-----------------------------------------------------------------------------
\* The steps of a room's goroutine.
LEMMA RoomStepTypes ==
    ASSUME Types, NEW o \in RoomObjs, Room(o)
    PROVE  Types'
<1>1. HubTypes /\ RoomTypes /\ ClientTypes /\ OtherTypes /\ RoomsKnown
  BY DEF Types
<1>2. RoomTypeOK /\ RoomLocals /\ ClientTypeOK /\ ReaderLocals
  BY <1>1 DEF RoomTypes, ClientTypes
<1>3. UNCHANGED <<hubVars, roomOf, reader, writer, castRoom, castTodo, frames,
                  broadcasts, roomClosed>>
  BY DEF Room, RoomRegister, RoomUnregister, RoomReceive, RoomExit,
         RoomSnapshot, RoomSend, RoomEvict, RoomHangUp, CloseSend, clientVars
<1>4. HubTypes' /\ RoomsKnown'
  BY <1>1, <1>3, HubFrame, KnownFrame DEF hubVars
<1>5. OtherTypes'
  BY <1>1, <1>3
     DEF Room, RoomRegister, RoomUnregister, RoomReceive, RoomExit, RoomSnapshot,
         RoomSend, RoomEvict, RoomHangUp, CloseSend, OtherTypes, Panics
<1>6. ClientTypes'
  <2>1. /\ \/ send' = send
           \/ \E c \in Clients : /\ Len(send[c]) < SendCap
                                 /\ send' = [send EXCEPT ![c] = Append(@, SystemMessage)]
        /\ \/ sendClosed' = sendClosed
           \/ \E c \in Clients : sendClosed' = [sendClosed EXCEPT ![c] = TRUE]
        /\ \/ conn' = conn
           \/ \E c \in Clients : conn' = [conn EXCEPT ![c] = "down"]
    <3>1. roomUnreg[o] # <<>> => Head(roomUnreg[o]) \in Clients
      BY <1>2, TailQueue DEF RoomTypeOK
    <3>2. roomPC[o] \in {"evict", "hangup"} => roomVictim[o] \in Clients
      BY <1>2 DEF RoomLocals
    <3>3. QED
      BY <3>1, <3>2
         DEF Room, RoomRegister, RoomUnregister, RoomReceive, RoomExit,
             RoomSnapshot, RoomSend, RoomEvict, RoomHangUp, CloseSend, clientVars
  <2>2. /\ send' \in [Clients -> Seq(Messages)]
        /\ \A c \in Clients : Len(send'[c]) <= SendCap
    <3>1. /\ send \in [Clients -> Seq(Messages)]
          /\ \A c \in Clients : Len(send[c]) <= SendCap
          /\ SendCap \in Nat
      BY <1>2, ConstantsAssumption DEF ClientTypeOK
    <3>2. CASE send' = send
      BY <3>1, <3>2
    <3>3. ASSUME NEW c \in Clients, Len(send[c]) < SendCap,
                 send' = [send EXCEPT ![c] = Append(@, SystemMessage)]
          PROVE  /\ send' \in [Clients -> Seq(Messages)]
                 /\ \A d \in Clients : Len(send'[d]) <= SendCap
      <4>1. SystemMessage \in Messages
        BY DEF SystemMessage, Messages
      <4>2. /\ Append(send[c], SystemMessage) \in Seq(Messages)
            /\ Len(Append(send[c], SystemMessage)) = Len(send[c]) + 1
            /\ Len(send[c]) \in Nat
        BY <3>1, <4>1, AppendQueue, LenProperties
      <4>3. Len(Append(send[c], SystemMessage)) <= SendCap
        BY <3>1, <3>3, <4>2
      <4>4. QED
        BY <3>1, <3>3, <4>2, <4>3
    <3>4. QED
      BY <2>1, <3>2, <3>3
  <2>3. /\ sendClosed' \in [Clients -> BOOLEAN]
        /\ conn' \in [Clients -> {"new", "open", "down"}]
    BY <1>2, <2>1 DEF ClientTypeOK
  <2>4. QED
    BY <1>2, <1>3, <2>2, <2>3 DEF ClientTypes, ClientTypeOK, ReaderLocals
<1>7. RoomTypes'
  <2>1. CASE RoomRegister(o)
    <3>1. roomReg[o] \in Seq(Clients) /\ roomReg[o] # <<>>
      BY <1>2, <2>1 DEF RoomRegister, RoomTypeOK
    <3>2. /\ Head(roomReg[o]) \in Clients
          /\ Tail(roomReg[o]) \in Seq(Clients)
          /\ Len(Tail(roomReg[o])) = Len(roomReg[o]) - 1
          /\ Len(roomReg[o]) \in Nat
      BY <3>1, TailQueue, LenProperties
    <3>3. Len(Tail(roomReg[o])) <= RoomCap
      BY <1>2, <3>2, ConstantsAssumption DEF RoomTypeOK
    <3>4. QED
      BY <1>2, <2>1, <3>2, <3>3
         DEF RoomRegister, RoomTypes, RoomTypeOK, RoomLocals, With, Without
  <2>2. CASE RoomUnregister(o)
    <3>1. roomUnreg[o] \in Seq(Clients) /\ roomUnreg[o] # <<>>
      BY <1>2, <2>2 DEF RoomUnregister, RoomTypeOK
    <3>2. /\ Tail(roomUnreg[o]) \in Seq(Clients)
          /\ Len(Tail(roomUnreg[o])) = Len(roomUnreg[o]) - 1
          /\ Len(roomUnreg[o]) \in Nat
      BY <3>1, TailQueue, LenProperties
    <3>3. Len(Tail(roomUnreg[o])) <= RoomCap
      BY <1>2, <3>2, ConstantsAssumption DEF RoomTypeOK
    <3>4. QED
      BY <1>2, <2>2, <3>2, <3>3
         DEF RoomUnregister, RoomTypes, RoomTypeOK, RoomLocals, Without
  <2>3. CASE RoomReceive(o)
    BY <1>2, <2>3, ConstantsAssumption DEF RoomReceive, RoomTypes, RoomTypeOK, RoomLocals
  <2>4. CASE RoomExit(o)
    BY <1>2, <2>4 DEF RoomExit, RoomTypes, RoomTypeOK, RoomLocals
  <2>5. CASE RoomSnapshot(o)
    BY <1>2, <2>5 DEF RoomSnapshot, AfterSend, RoomTypes, RoomTypeOK, RoomLocals
  <2>6. ASSUME NEW c \in Clients, RoomSend(o, c)
        PROVE  RoomTypes'
    BY <1>2, <2>6 DEF RoomSend, AfterSend, RoomTypes, RoomTypeOK, RoomLocals
  <2>7. CASE RoomEvict(o)
    BY <1>2, <2>7 DEF RoomEvict, Without, RoomTypes, RoomTypeOK, RoomLocals
  <2>8. CASE RoomHangUp(o)
    BY <1>2, <2>8 DEF RoomHangUp, AfterSend, RoomTypes, RoomTypeOK, RoomLocals
  <2>9. QED
    BY <2>1, <2>2, <2>3, <2>4, <2>5, <2>6, <2>7, <2>8 DEF Room
<1>8. QED
  BY <1>4, <1>5, <1>6, <1>7 DEF Types

\* The steps of the hub's goroutine, of its callers, and of the clock.
LEMMA HubStepTypes ==
    ASSUME Types,
           Hub \/ Stop \/ (\E r \in RoomIds : Broadcast(r)) \/ \E o \in RoomObjs : Age(o)
    PROVE  Types'
<1>1. /\ HubTypes /\ RoomTypes /\ ClientTypes /\ OtherTypes /\ RoomsKnown
      /\ HubTypeOK /\ HubLocals /\ RoomTypeOK /\ RoomLocals
  BY DEF Types, HubTypes, RoomTypes
<1>2. ClientTypes' /\ UNCHANGED clientVars
  BY <1>1, ClientFrame
     DEF Hub, HubTakeRegister, HubCreateRoom, HubStoreRoom, HubTakeUnregister,
         HubTakeBroadcast, HubForward, HubSweep, HubStop, Stop, Broadcast, Age
<1>3. CASE HubTakeRegister
  <2>1. hubRegister \in Seq(Clients) /\ hubRegister # <<>>
    BY <1>1, <1>3 DEF HubTakeRegister, HubTypeOK
  <2>2. /\ Head(hubRegister) \in Clients
        /\ Tail(hubRegister) \in Seq(Clients)
        /\ Len(Tail(hubRegister)) = Len(hubRegister) - 1
        /\ Len(hubRegister) \in Nat
        /\ Head(hubRegister) \in InQueue(hubRegister)
        /\ InQueue(Tail(hubRegister)) \subseteq InQueue(hubRegister)
    BY <2>1, TailQueue, LenProperties
  <2>3. roomOf[Head(hubRegister)] \in RoomIds
    BY <1>1, <2>2 DEF RoomsKnown
  <2>4. Len(Tail(hubRegister)) <= HubCap
    BY <1>1, <2>2, ConstantsAssumption DEF HubTypeOK
  <2>5. hubReq' \in Requests /\ HubLocals'
    BY <1>1, <1>3, <2>2, <2>3 DEF HubTakeRegister, Requests, HubLocals
  <2>6. HubTypeOK'
    BY <1>1, <1>3, <2>2, <2>3, <2>4, <2>5 DEF HubTakeRegister, HubTypeOK
  <2>7. RoomsKnown'
    BY <1>1, <1>2, <1>3, <2>2 DEF HubTakeRegister, RoomsKnown, clientVars
  <2>8. QED
    BY <1>1, <1>2, <1>3, <2>5, <2>6, <2>7, RoomFrame
       DEF HubTakeRegister, OtherTypes, Types, HubTypes
<1>4. CASE HubCreateRoom
  <2>1. hubReq.room \in RoomIds
    BY <1>1, <1>4 DEF HubCreateRoom, HubLocals
  <2>2. PICK o \in RoomObjs \cup {Nil} :
            /\ hubRoom' = o
            /\ rooms' = rooms \/ rooms' = [rooms EXCEPT ![hubReq.room] = o]
            /\ \/ roomPC' = roomPC
               \/ o \in RoomObjs /\ roomPC' = [roomPC EXCEPT ![o] = "select"]
    BY <1>4 DEF HubCreateRoom, FreshRoom
  <2>3. HubTypes'
    BY <1>1, <1>4, <2>1, <2>2 DEF HubCreateRoom, HubTypes, HubTypeOK, HubLocals
  <2>4. RoomTypes'
    BY <1>1, <1>4, <2>2 DEF HubCreateRoom, RoomTypes, RoomTypeOK, RoomLocals
  <2>5. QED
    BY <1>1, <1>2, <1>4, <2>3, <2>4, KnownFrame
       DEF HubCreateRoom, OtherTypes, Types, clientVars
<1>5. CASE HubStoreRoom
  <2>1. HubTypes'
    BY <1>1, <1>5 DEF HubStoreRoom, HubTypes, HubTypeOK, HubLocals
  <2>2. QED
    BY <1>1, <1>2, <1>5, <2>1, RoomFrame, KnownFrame
       DEF HubStoreRoom, OtherTypes, Types, clientVars
<1>6. CASE HubTakeUnregister
  <2>1. hubUnregister \in Seq(Clients) /\ hubUnregister # <<>>
    BY <1>1, <1>6 DEF HubTakeUnregister, HubTypeOK
  <2>2. /\ Head(hubUnregister) \in Clients
        /\ Tail(hubUnregister) \in Seq(Clients)
        /\ Len(Tail(hubUnregister)) = Len(hubUnregister) - 1
        /\ Len(hubUnregister) \in Nat
        /\ Head(hubUnregister) \in InQueue(hubUnregister)
        /\ InQueue(Tail(hubUnregister)) \subseteq InQueue(hubUnregister)
    BY <2>1, TailQueue, LenProperties
  <2>3. roomOf[Head(hubUnregister)] \in RoomIds
    BY <1>1, <2>2 DEF RoomsKnown
  <2>4. Len(Tail(hubUnregister)) <= HubCap
    BY <1>1, <2>2, ConstantsAssumption DEF HubTypeOK
  <2>5. hubReq' \in Requests /\ HubLocals'
    BY <1>1, <1>6, <2>2, <2>3 DEF HubTakeUnregister, Requests, HubLocals, HubTypeOK
  <2>6. HubTypeOK'
    BY <1>1, <1>6, <2>2, <2>3, <2>4, <2>5 DEF HubTakeUnregister, HubTypeOK
  <2>7. RoomsKnown'
    BY <1>1, <1>2, <1>6, <2>2 DEF HubTakeUnregister, RoomsKnown, clientVars
  <2>8. QED
    BY <1>1, <1>2, <1>6, <2>5, <2>6, <2>7, RoomFrame
       DEF HubTakeUnregister, OtherTypes, Types, HubTypes
<1>7. CASE HubTakeBroadcast
  <2>1. hubBroadcast \in Seq(RoomIds) /\ hubBroadcast # <<>>
    BY <1>1, <1>7 DEF HubTakeBroadcast, HubTypeOK
  <2>2. /\ Head(hubBroadcast) \in RoomIds
        /\ Tail(hubBroadcast) \in Seq(RoomIds)
        /\ Len(Tail(hubBroadcast)) = Len(hubBroadcast) - 1
        /\ Len(hubBroadcast) \in Nat
    BY <2>1, TailQueue, LenProperties
  <2>3. Len(Tail(hubBroadcast)) <= HubCap
    BY <1>1, <2>2, ConstantsAssumption DEF HubTypeOK
  <2>4. hubReq' \in Requests /\ HubLocals'
    BY <1>1, <1>7, <2>2 DEF HubTakeBroadcast, Requests, HubLocals, HubTypeOK
  <2>5. HubTypeOK'
    BY <1>1, <1>7, <2>2, <2>3, <2>4 DEF HubTakeBroadcast, HubTypeOK
  <2>6. QED
    BY <1>1, <1>2, <1>7, <2>4, <2>5, RoomFrame, KnownFrame
       DEF HubTakeBroadcast, OtherTypes, Types, HubTypes, clientVars
<1>8. CASE HubForward
  <2>1. HubTypes'
    <3>1. NoRequest \in Requests /\ NoRequest.kind = "none"
      BY DEF NoRequest, Requests
    <3>2. QED
      BY <1>1, <1>8, <3>1 DEF HubForward, HubTypes, HubTypeOK, HubLocals
  <2>2. OtherTypes'
    BY <1>1, <1>8 DEF HubForward, OtherTypes, Panics
  <2>3. RoomTypes'
    <3>1. CASE UNCHANGED <<roomReg, roomUnreg, roomBcast>>
      BY <1>1, <1>8, <3>1, RoomFrame DEF HubForward, roomVars
    <3>2. CASE /\ hubRoom \in RoomObjs /\ hubReq.client \in Clients
               /\ Len(roomReg[hubRoom]) < RoomCap
               /\ roomReg' = [roomReg EXCEPT ![hubRoom] = Append(@, hubReq.client)]
               /\ UNCHANGED <<roomUnreg, roomBcast>>
      <4>1. roomReg[hubRoom] \in Seq(Clients)
        BY <1>1, <3>2 DEF RoomTypeOK
      <4>2. /\ Append(roomReg[hubRoom], hubReq.client) \in Seq(Clients)
            /\ Len(Append(roomReg[hubRoom], hubReq.client)) = Len(roomReg[hubRoom]) + 1
            /\ Len(roomReg[hubRoom]) \in Nat
        BY <3>2, <4>1, AppendQueue, LenProperties
      <4>3. Len(Append(roomReg[hubRoom], hubReq.client)) <= RoomCap
        BY <3>2, <4>2, ConstantsAssumption
      <4>4. QED
        BY <1>1, <1>8, <3>2, <4>2, <4>3
           DEF HubForward, RoomTypes, RoomTypeOK, RoomLocals
    <3>3. CASE /\ hubRoom \in RoomObjs /\ hubReq.client \in Clients
               /\ Len(roomUnreg[hubRoom]) < RoomCap
               /\ roomUnreg' = [roomUnreg EXCEPT ![hubRoom] = Append(@, hubReq.client)]
               /\ UNCHANGED <<roomReg, roomBcast>>
      <4>1. roomUnreg[hubRoom] \in Seq(Clients)
        BY <1>1, <3>3 DEF RoomTypeOK
      <4>2. /\ Append(roomUnreg[hubRoom], hubReq.client) \in Seq(Clients)
            /\ Len(Append(roomUnreg[hubRoom], hubReq.client)) = Len(roomUnreg[hubRoom]) + 1
            /\ Len(roomUnreg[hubRoom]) \in Nat
        BY <3>3, <4>1, AppendQueue, LenProperties
      <4>3. Len(Append(roomUnreg[hubRoom], hubReq.client)) <= RoomCap
        BY <3>3, <4>2, ConstantsAssumption
      <4>4. QED
        BY <1>1, <1>8, <3>3, <4>2, <4>3
           DEF HubForward, RoomTypes, RoomTypeOK, RoomLocals
    <3>4. CASE /\ hubRoom \in RoomObjs /\ roomBcast[hubRoom] < RoomCap
               /\ roomBcast' = [roomBcast EXCEPT ![hubRoom] = @ + 1]
               /\ UNCHANGED <<roomReg, roomUnreg>>
      <4>1. roomBcast \in [RoomObjs -> 0..RoomCap] /\ RoomCap \in Nat
        BY <1>1, ConstantsAssumption DEF RoomTypeOK
      <4>2. roomBcast' \in [RoomObjs -> 0..RoomCap]
        BY <3>4, <4>1
      <4>3. QED
        BY <1>1, <1>8, <3>4, <4>2 DEF HubForward, RoomTypes, RoomTypeOK, RoomLocals
    <3>5. QED
      BY <1>1, <1>8, <3>1, <3>2, <3>3, <3>4 DEF HubForward, HubTypeOK, HubLocals
  <2>4. QED
    BY <1>1, <1>2, <1>8, <2>1, <2>2, <2>3, KnownFrame DEF HubForward, Types, clientVars
<1>9. CASE HubSweep \/ HubStop
  <2>1. /\ rooms' \in [RoomIds -> RoomObjs \cup {Nil}]
        /\ roomClosed' \in [RoomObjs -> BOOLEAN]
    BY <1>1, <1>9 DEF HubSweep, HubStop, CloseRooms, HubTypeOK, RoomTypeOK
  <2>2. UNCHANGED <<hubRegister, hubUnregister, hubBroadcast, stopped, hubReq,
                    hubRoom, roomPC, members, roomReg, roomUnreg, roomBcast,
                    roomTodo, roomVictim, idle, broadcasts, panic>>
    BY <1>9 DEF HubSweep, HubStop
  <2>3. hubPC' \in {hubPC, "done"}
    BY <1>9 DEF HubSweep, HubStop
  <2>4. HubTypes'
    BY <1>1, <2>1, <2>2, <2>3 DEF HubTypes, HubTypeOK, HubLocals
  <2>5. RoomTypes'
    BY <1>1, <2>1, <2>2 DEF RoomTypes, RoomTypeOK, RoomLocals
  <2>6. QED
    BY <1>1, <1>2, <2>2, <2>4, <2>5, KnownFrame DEF OtherTypes, Types, clientVars
<1>10. CASE Stop
  <2>1. HubTypes'
    BY <1>1, <1>10 DEF Stop, HubTypes, HubTypeOK, HubLocals
  <2>2. QED
    BY <1>1, <1>2, <1>10, <2>1, RoomFrame, KnownFrame
       DEF Stop, OtherTypes, Types, clientVars
<1>11. ASSUME NEW r \in RoomIds, Broadcast(r)
       PROVE  Types'
  <2>1. hubBroadcast \in Seq(RoomIds)
    BY <1>1 DEF HubTypeOK
  <2>2. /\ Append(hubBroadcast, r) \in Seq(RoomIds)
        /\ Len(Append(hubBroadcast, r)) = Len(hubBroadcast) + 1
        /\ Len(hubBroadcast) \in Nat
    BY <2>1, AppendQueue, LenProperties
  <2>3. Len(Append(hubBroadcast, r)) <= HubCap
    BY <1>11, <2>2, ConstantsAssumption DEF Broadcast
  <2>4. HubTypes'
    BY <1>1, <1>11, <2>2, <2>3 DEF Broadcast, HubTypes, HubTypeOK, HubLocals
  <2>5. OtherTypes'
    BY <1>1, <1>11 DEF Broadcast, OtherTypes
  <2>6. QED
    BY <1>1, <1>2, <1>11, <2>4, <2>5, RoomFrame, KnownFrame
       DEF Broadcast, Types, clientVars
<1>12. ASSUME NEW o \in RoomObjs, Age(o)
       PROVE  Types'
  <2>1. RoomTypes'
    BY <1>1, <1>12 DEF Age, RoomTypes, RoomTypeOK, RoomLocals
  <2>2. QED
    BY <1>1, <1>2, <1>12, <2>1, HubFrame, KnownFrame
       DEF Age, OtherTypes, Types, hubVars, clientVars
<1>13. QED
  BY <1>3, <1>4, <1>5, <1>6, <1>7, <1>8, <1>9, <1>10, <1>11, <1>12 DEF Hub

LEMMA StepTypes == Types /\ [Next]_vars => Types'
<1> SUFFICES ASSUME Types, [Next]_vars PROVE Types'
  OBVIOUS
<1>1. CASE UNCHANGED vars
  BY <1>1, HubFrame, RoomFrame, ClientFrame, KnownFrame
     DEF Types, OtherTypes, vars, hubVars, clientVars
<1>2. CASE Next
  BY <1>2, PumpTypes, RoomStepTypes, HubStepTypes DEF Next, Environment
<1>3. QED
  BY <1>1, <1>2

\* Every variable keeps its type and every channel its capacity, however many
\* connections, rooms and messages there are; no handler reads a local variable
\* or a client's room before it is set.
THEOREM TypeCorrect == Spec => []TypeOK
<1>1. Types => TypeOK
  BY DEF Types, TypeOK, HubTypes, RoomTypes, ClientTypes, OtherTypes
<1>2. QED
  BY <1>1, InitTypes, StepTypes, PTL DEF Spec
=============================================================================
