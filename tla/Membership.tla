----------------------------- MODULE Membership -----------------------------
(***************************************************************************)
(* What the hub promises a client, without channels or goroutines: it is   *)
(* seated in at most one room, at most once; it leaves at most once, and   *)
(* exactly then its outgoing channel is closed; it is never seated again.  *)
(***************************************************************************)
CONSTANTS Clients, RoomObjs

VARIABLES seats,    \* the rooms each client is seated in
          left      \* the clients that have left

vars == <<seats, left>>

TypeOK == /\ seats \in [Clients -> SUBSET RoomObjs]
          /\ left \in SUBSET Clients

Init == /\ seats = [c \in Clients |-> {}]
        /\ left = {}

Join(c, o) ==
    /\ c \notin left
    /\ seats[c] = {}
    /\ seats' = [seats EXCEPT ![c] = {o}]
    /\ UNCHANGED left

Leave(c) ==
    /\ seats[c] # {}
    /\ seats' = [seats EXCEPT ![c] = {}]
    /\ left' = left \cup {c}

\* All the clients of a room leave at once.
Empty(o) ==
    /\ seats' = [c \in Clients |-> seats[c] \ {o}]
    /\ left' = left \cup {c \in Clients : o \in seats[c]}

Next ==
    \/ \E c \in Clients : Leave(c) \/ \E o \in RoomObjs : Join(c, o)
    \/ \E o \in RoomObjs : Empty(o)

Spec == Init /\ [][Next]_vars
-----------------------------------------------------------------------------
\* A client never sits in two rooms, and in none once it has left.
OneSeat ==
    \A c \in Clients : /\ \A o, p \in seats[c] : o = p
                       /\ c \in left => seats[c] = {}

\* A client's seat changes twice at most: it gets it before it has left, keeps to
\* that room, and loses it by leaving, for good.
SeatedOnce ==
    [][/\ left \subseteq left'
       /\ \A c \in Clients : seats'[c] # seats[c] =>
             \/ seats[c] = {} /\ c \notin left
             \/ seats'[c] = {} /\ c \in left']_vars
=============================================================================
