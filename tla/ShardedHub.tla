----------------------------- MODULE ShardedHub -----------------------------
(***************************************************************************)
(* ShardedHub: calls that start one goroutine per hub and wait for all of  *)
(* them, BroadcastToAll, GetStats and Stop, next to the hubs' own loops    *)
(* and to callers that create rooms.  What a hub does with a message or a  *)
(* client is the matter of ChatSystem; here a hub is the room left in its  *)
(* channel, the lock hub.mu, the WaitGroup hub.wg and its channel stop.    *)
(***************************************************************************)
EXTENDS Integers, FiniteSets

CONSTANTS HubSize,   \* sh.hubSize
          Calls,     \* the calls of a run
          MayCall,   \* which operations each call may be
          HubCap     \* capacity of hub.broadcast

ASSUME ShardAssumption ==
    /\ HubSize \in Nat \ {0}
    /\ HubCap \in Nat \ {0}
    /\ MayCall \in [Calls -> SUBSET {"broadcast", "stats", "stop"}]

Hubs == 0..(HubSize - 1)

VARIABLES
    queue,      \* messages in hub.broadcast
    loop,       \* where Hub.Run is
    creating,   \* who is in CreateRoom, with hub.mu locked and hub.wg at 1
    stopped,    \* hub.stop is closed
    op,         \* the operation of each call
    pos,        \* how many goroutines its loop has started
    task,       \* the goroutines of a call, one per hub
    reached,    \* how often it put its message into a hub's channel, has an
                \* entry of a hub in stats, or closed a hub's channel stop
    panic       \* what a goroutine panicked at, which ends the process

hubVars  == <<queue, loop, creating, stopped>>
callVars == <<op, pos, task, reached>>
vars     == <<hubVars, callVars, panic>>

TypeOK ==
    /\ queue \in [Hubs -> 0..HubCap]
    /\ loop \in [Hubs -> {"select", "register", "forward", "done"}]
    /\ creating \in [Hubs -> {"nobody", "run", "caller"}]
    /\ stopped \in [Hubs -> BOOLEAN]
    /\ op \in [Calls -> {"none", "broadcast", "stats", "stop"}]
    /\ pos \in [Calls -> 0..HubSize]
    /\ task \in [Calls -> [Hubs -> {"none", "ready", "blocked", "read", "closed",
                                    "asleep", "woken", "gave up", "done"}]]
    /\ reached \in [Calls -> [Hubs -> Nat]]
    /\ panic \in {"none", "close", "reuse"}

\* NewShardedHub: every loop runs and every channel is empty.
Init ==
    /\ queue = [h \in Hubs |-> 0]
    /\ loop = [h \in Hubs |-> "select"]
    /\ creating = [h \in Hubs |-> "nobody"]
    /\ stopped = [h \in Hubs |-> FALSE]
    /\ op = [k \in Calls |-> "none"]
    /\ pos = [k \in Calls |-> 0]
    /\ task = [k \in Calls |-> [h \in Hubs |-> "none"]]
    /\ reached = [k \in Calls |-> [h \in Hubs |-> 0]]
    /\ panic = "none"

Alive == panic = "none"

\* Mutant: the goroutines capture the variable of the loop.
Target_LoopVariable(k, i) == IF pos[k] = HubSize THEN HubSize - 1 ELSE pos[k]

\* The hub the i-th goroutine of a call works on: the argument it was given.
Target(k, i) == i

Goto(k, i, place) == task' = [task EXCEPT ![k][i] = place]

Reach(k, h) == reached' = [reached EXCEPT ![k][h] = @ + 1]

Returned(k) == pos[k] = HubSize /\ \A i \in Hubs : task[k][i] \in {"gave up", "done"}
-----------------------------------------------------------------------------
\* A caller enters one of the operations.
Call(k) ==
    /\ op[k] = "none"
    /\ \E o \in MayCall[k] : op' = [op EXCEPT ![k] = o]
    /\ UNCHANGED <<hubVars, pos, task, reached, panic>>

\* The loop of the operation starts its next goroutine.
Start(k) ==
    /\ op[k] # "none"
    /\ pos[k] < HubSize
    /\ Goto(k, pos[k], "ready")
    /\ pos' = [pos EXCEPT ![k] = @ + 1]
    /\ UNCHANGED <<hubVars, op, reached, panic>>
-----------------------------------------------------------------------------
\* Mutant: the capacity is not looked at.
Put_Unbounded(k, i) ==
    /\ op[k] = "broadcast"
    /\ task[k][i] \in {"ready", "blocked"}
    /\ queue' = [queue EXCEPT ![Target(k, i)] = @ + 1]
    /\ Reach(k, Target(k, i))
    /\ Goto(k, i, "done")
    /\ UNCHANGED <<loop, creating, stopped, op, pos, panic>>

\* Hub.Broadcast: there is room for the message.
Put(k, i) ==
    /\ op[k] = "broadcast"
    /\ task[k][i] \in {"ready", "blocked"}
    /\ queue[Target(k, i)] < HubCap
    /\ queue' = [queue EXCEPT ![Target(k, i)] = @ + 1]
    /\ Reach(k, Target(k, i))
    /\ Goto(k, i, "done")
    /\ UNCHANGED <<loop, creating, stopped, op, pos, panic>>

Block(k, i) ==
    /\ op[k] = "broadcast"
    /\ task[k][i] = "ready"
    /\ queue[Target(k, i)] = HubCap
    /\ Goto(k, i, "blocked")
    /\ UNCHANGED <<hubVars, op, pos, reached, panic>>

\* Mutant: the send has no other case.
BroadcastTimeout_Never(k, i) == FALSE /\ UNCHANGED vars

\* time.After of 3 seconds, whether or not there is room by now.
BroadcastTimeout(k, i) ==
    /\ task[k][i] = "blocked"
    /\ Goto(k, i, "gave up")
    /\ UNCHANGED <<hubVars, op, pos, reached, panic>>
-----------------------------------------------------------------------------
\* Hub.GetStats, under the read lock of hub.mu.
ReadStats(k, i) ==
    /\ op[k] = "stats"
    /\ task[k][i] = "ready"
    /\ creating[Target(k, i)] = "nobody"
    /\ Goto(k, i, "read")
    /\ UNCHANGED <<hubVars, op, pos, reached, panic>>

\* Mutant: without mu, an append may overwrite another one.
AppendStats_Unlocked(k, i) ==
    /\ task[k][i] = "read"
    /\ \/ Reach(k, Target(k, i))
       \/ \E h \in Hubs \ {Target(k, i)} :
             /\ reached[k][h] > 0
             /\ reached' = [reached EXCEPT ![k][h] = @ - 1,
                                           ![k][Target(k, i)] = @ + 1]
    /\ Goto(k, i, "done")
    /\ UNCHANGED <<hubVars, op, pos, panic>>

\* The append of its entry, under mu.
AppendStats(k, i) ==
    /\ task[k][i] = "read"
    /\ Reach(k, Target(k, i))
    /\ Goto(k, i, "done")
    /\ UNCHANGED <<hubVars, op, pos, panic>>
-----------------------------------------------------------------------------
\* Hub.Stop: close(h.stop), which panics when it is closed already.
CloseStop(k, i) ==
    /\ op[k] = "stop"
    /\ task[k][i] = "ready"
    /\ IF stopped[Target(k, i)]
         THEN /\ panic' = "close"
              /\ UNCHANGED <<stopped, task, reached>>
         ELSE /\ stopped' = [stopped EXCEPT ![Target(k, i)] = TRUE]
              /\ Reach(k, Target(k, i))
              /\ Goto(k, i, "closed")
              /\ UNCHANGED panic
    /\ UNCHANGED <<queue, loop, creating, op, pos>>

\* h.wg.Wait() returns at once unless somebody is in CreateRoom.
Wait(k, i) ==
    /\ task[k][i] = "closed"
    /\ Goto(k, i, IF creating[Target(k, i)] = "nobody" THEN "done" ELSE "asleep")
    /\ UNCHANGED <<hubVars, op, pos, reached, panic>>

\* Woken, it looks at the counter once more: a WaitGroup that is in use again
\* by now makes Wait panic.
WaitReturns(k, i) ==
    /\ task[k][i] = "woken"
    /\ IF creating[Target(k, i)] = "nobody"
         THEN Goto(k, i, "done") /\ UNCHANGED panic
         ELSE panic' = "reuse" /\ UNCHANGED task
    /\ UNCHANGED <<hubVars, op, pos, reached>>

Task(k, i) ==
    \/ Put(k, i) \/ Block(k, i) \/ BroadcastTimeout(k, i)
    \/ ReadStats(k, i) \/ AppendStats(k, i)
    \/ CloseStop(k, i) \/ Wait(k, i) \/ WaitReturns(k, i)
-----------------------------------------------------------------------------
\* Others call Hub.Broadcast of one hub, as long as there is room.
Broadcast(h) ==
    /\ queue[h] < HubCap
    /\ queue' = [queue EXCEPT ![h] = @ + 1]
    /\ UNCHANGED <<loop, creating, stopped, callVars, panic>>

\* Hub.Run takes a message and looks its room up, which may not be there.
TakeBroadcast(h) ==
    /\ loop[h] = "select"
    /\ queue[h] > 0
    /\ creating[h] = "nobody"
    /\ queue' = [queue EXCEPT ![h] = @ - 1]
    /\ \E to \in {"select", "forward"} : loop' = [loop EXCEPT ![h] = to]
    /\ UNCHANGED <<creating, stopped, callVars, panic>>

\* It takes a registration; the room is there, or is to be created.  (What a nil
\* room does to the loop, when a caller was faster, is shown in HubLoop.)
TakeRegister(h) ==
    /\ loop[h] = "select"
    /\ creating[h] = "nobody"
    /\ \E to \in {"register", "forward"} : loop' = [loop EXCEPT ![h] = to]
    /\ UNCHANGED <<queue, creating, stopped, callVars, panic>>

\* CreateRoom: hub.mu.Lock and, unless the id is taken, wg.Add(1).
EnterCreate(h, who) ==
    /\ creating[h] = "nobody"
    /\ who = "run" => loop[h] = "register"
    /\ creating' = [creating EXCEPT ![h] = who]
    /\ UNCHANGED <<queue, loop, stopped, callVars, panic>>

\* Mutant: CreateRoom returns before wg.Done, which wakes nobody.
LeaveCreate_WakesNobody(h) ==
    /\ creating[h] # "nobody"
    /\ creating' = [creating EXCEPT ![h] = "nobody"]
    /\ loop' = [loop EXCEPT ![h] = IF creating[h] = "run" THEN "forward" ELSE @]
    /\ UNCHANGED <<queue, stopped, callVars, panic>>

\* wg.Done() wakes who waits, and the lock is released.
LeaveCreate(h) ==
    /\ creating[h] # "nobody"
    /\ creating' = [creating EXCEPT ![h] = "nobody"]
    /\ loop' = [loop EXCEPT ![h] = IF creating[h] = "run" THEN "forward" ELSE @]
    /\ task' = [k \in Calls |-> [i \in Hubs |->
                  IF task[k][i] = "asleep" /\ Target(k, i) = h
                    THEN "woken" ELSE task[k][i]]]
    /\ UNCHANGED <<queue, stopped, op, pos, reached, panic>>

\* The channel of the room has taken what it was sent.
Forward(h) ==
    /\ loop[h] = "forward"
    /\ loop' = [loop EXCEPT ![h] = "select"]
    /\ UNCHANGED <<queue, creating, stopped, callVars, panic>>

\* case stop: cleanup, under hub.mu, and Run returns.
HubStop(h) ==
    /\ loop[h] = "select"
    /\ stopped[h]
    /\ creating[h] = "nobody"
    /\ loop' = [loop EXCEPT ![h] = "done"]
    /\ UNCHANGED <<queue, creating, stopped, callVars, panic>>

Run(h) ==
    \/ TakeBroadcast(h) \/ HubStop(h) \/ Forward(h)
    \/ EnterCreate(h, "run") \/ LeaveCreate(h)

\* What clients and other callers may do to a hub.
Environment(h) == Broadcast(h) \/ TakeRegister(h) \/ EnterCreate(h, "caller")

Next ==
    /\ Alive
    /\ \/ \E k \in Calls : Call(k) \/ Start(k) \/ \E i \in Hubs : Task(k, i)
       \/ \E h \in Hubs : Run(h) \/ Environment(h)

Spec == Init /\ [][Next]_vars

(***************************************************************************)
(* The goroutines of a call keep running, time.After fires, CreateRoom     *)
(* ends, and a RWMutex lets the readers that wait in before it is locked   *)
(* again.  Nothing is assumed of the hubs' loops: a room that takes        *)
(* nothing may hold one up for ever.                                       *)
(***************************************************************************)
Fairness ==
    /\ \A k \in Calls :
          /\ WF_vars(Alive /\ (Start(k) \/ \E i \in Hubs : Task(k, i)))
          /\ SF_vars(Alive /\ \E i \in Hubs : ReadStats(k, i))
    /\ \A h \in Hubs : WF_vars(Alive /\ LeaveCreate(h))

FairSpec == Spec /\ Fairness
-----------------------------------------------------------------------------
\* A call that returned has done its work once on every hub, in whatever order
\* its goroutines ran and with calls of all kinds beside it: the message is in
\* each channel once, unless that hub's goroutine gave up; stats has one entry
\* for each hub; each channel stop was closed by it.
OncePerHub ==
    \A k \in Calls : op[k] # "none" /\ Returned(k) =>
        \A h \in Hubs : reached[k][h] = IF task[k][h] = "gave up" THEN 0 ELSE 1

\* A channel stop is closed twice only when Stop was called twice: one call never
\* sends two goroutines to one hub.
CloseNeedsTwoStops ==
    panic = "close" => \E k, l \in Calls : k # l /\ op[k] = "stop" /\ op[l] = "stop"

\* A goroutine of Stop that sleeps in wg.Wait sleeps on a hub where somebody is in
\* CreateRoom: whoever comes and goes between its look at the counter and its
\* sleep, there is one left whose wg.Done will wake it.
NoLostWakeup ==
    \A k \in Calls : \A i \in Hubs :
        task[k][i] = "asleep" => creating[Target(k, i)] # "nobody"

\* Every call returns, also BroadcastToAll on hubs that were stopped or are stuck
\* with a full channel, and GetStats while rooms are created, unless the process
\* panicked.
CallsReturn == \A k \in Calls : op[k] # "none" ~> Returned(k) \/ ~Alive
=============================================================================
