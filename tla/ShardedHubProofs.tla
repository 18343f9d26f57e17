-------------------------- MODULE ShardedHubProofs --------------------------
(***************************************************************************)
(* ShardedHub for any number of hubs and calls and any capacity.  The      *)
(* argument: what a call has done to a hub can be read off the goroutine   *)
(* it started for that hub, and off no other; and a lock is only left by   *)
(* waking all that sleep on it.                                            *)
(***************************************************************************)
EXTENDS ShardedHub, TLAPS

\* Where a goroutine of a call stands before it has done its work, and after.
Before == {"none", "ready", "blocked", "read", "gave up"}
After  == {"closed", "asleep", "woken", "done"}

CallTypes ==
    /\ op \in [Calls -> {"none", "broadcast", "stats", "stop"}]
    /\ pos \in [Calls -> 0..HubSize]
    /\ task \in [Calls -> [Hubs -> Before \cup After]]
    /\ reached \in [Calls -> [Hubs -> Nat]]
    /\ stopped \in [Hubs -> BOOLEAN]

\* Each goroutine answers for its own hub.
ReachInv ==
    \A k \in Calls : \A h \in Hubs :
        reached[k][h] = IF task[k][h] \in Before THEN 0 ELSE 1

\* No goroutine runs that the loop of its call has not started.
StartInv ==
    \A k \in Calls : \A h \in Hubs : h >= pos[k] => task[k][h] = "none"

\* Whoever closed a channel stop is a call of Stop.
StopInv ==
    \A h \in Hubs : stopped[h] => \E k \in Calls : op[k] = "stop" /\ reached[k][h] = 1

ShardInv == CallTypes /\ ReachInv /\ StartInv /\ StopInv /\ CloseNeedsTwoStops

LEMMA InitShard == Init => ShardInv
BY ShardAssumption
   DEF Init, ShardInv, CallTypes, ReachInv, StartInv, StopInv, CloseNeedsTwoStops, Before,
       Hubs

\* A step that leaves the calls alone.
LEMMA FrameShard ==
    ASSUME ShardInv, UNCHANGED <<op, pos, task, reached, stopped>>, CloseNeedsTwoStops'
    PROVE  ShardInv'
<1>1. CallTypes' /\ ReachInv'
  BY DEF ShardInv, CallTypes, ReachInv
<1>2. StartInv' /\ StopInv'
  BY DEF ShardInv, StartInv, StopInv
<1>. QED BY <1>1, <1>2 DEF ShardInv

\* A step of one goroutine that stays on its side of the work it does.
LEMMA MoveShard ==
    ASSUME ShardInv, NEW k \in Calls, NEW i \in Hubs, NEW place \in Before \cup After,
           Goto(k, i, place), task[k][i] # "none",
           (place \in Before) <=> (task[k][i] \in Before),
           UNCHANGED <<op, pos, reached, stopped>>, panic' = panic \/ panic' # "close"
    PROVE  ShardInv'
<1>. USE DEF ShardInv, CallTypes, Goto
<1>1. CallTypes'
  OBVIOUS
<1>2. \A l \in Calls : \A h \in Hubs :
         task'[l][h] = IF l = k /\ h = i THEN place ELSE task[l][h]
  OBVIOUS
<1>3. ReachInv'
  BY <1>2 DEF ReachInv
<1>4. StartInv'
  BY <1>2 DEF StartInv
<1>5. StopInv'
  BY DEF StopInv
<1>6. CloseNeedsTwoStops'
  BY DEF CloseNeedsTwoStops
<1>. QED BY <1>1, <1>3, <1>4, <1>5, <1>6

\* The step with which a goroutine does its work.
LEMMA WorkShard ==
    ASSUME ShardInv, NEW k \in Calls, NEW i \in Hubs, NEW place \in After,
           Goto(k, i, place), Reach(k, i), task[k][i] \in Before \ {"none"},
           UNCHANGED <<op, pos, panic>>, stopped' \in [Hubs -> BOOLEAN],
           \A h \in Hubs : stopped'[h] => stopped[h] \/ (h = i /\ op[k] = "stop")
    PROVE  ShardInv'
<1>. USE DEF ShardInv, CallTypes, Goto, Reach
<1>1. CallTypes'
  OBVIOUS
<1>2. \A l \in Calls : \A h \in Hubs :
         /\ task'[l][h] = IF l = k /\ h = i THEN place ELSE task[l][h]
         /\ reached'[l][h] = IF l = k /\ h = i THEN reached[l][h] + 1
                                               ELSE reached[l][h]
  OBVIOUS
<1>3. reached[k][i] = 0
  BY DEF ReachInv
<1>4. ReachInv'
  <2>1. place \notin Before
    BY DEF Before, After
  <2>. QED BY <1>2, <1>3, <2>1 DEF ReachInv
<1>5. StartInv'
  <2>1. task[k][i] # "none"
    OBVIOUS
  <2>. QED BY <1>2, <2>1 DEF StartInv
<1>6. StopInv'
  <2>. SUFFICES ASSUME NEW h \in Hubs, stopped'[h]
                PROVE  \E l \in Calls : op[l] = "stop" /\ reached'[l][h] = 1
    BY DEF StopInv
  <2>1. CASE h = i /\ op[k] = "stop"
    BY <1>2, <1>3, <2>1
  <2>2. CASE stopped[h]
    <3>1. PICK l \in Calls : op[l] = "stop" /\ reached[l][h] = 1
      BY <2>2 DEF StopInv
    <3>2. reached'[l][h] = 1
      BY <1>2, <1>3, <3>1
    <3>. QED BY <3>1, <3>2
  <2>. QED BY <2>1, <2>2
<1>7. CloseNeedsTwoStops'
  BY DEF CloseNeedsTwoStops
<1>. QED BY <1>1, <1>4, <1>5, <1>6, <1>7

\* The goroutines, action by action.
LEMMA TaskShard ==
    ASSUME ShardInv, NEW k \in Calls, NEW i \in Hubs, Task(k, i)
    PROVE  ShardInv'
<1>. USE DEF Target, Before, After, hubVars
<1>. stopped \in [Hubs -> BOOLEAN]
  BY DEF ShardInv, CallTypes
<1>1. CASE Put(k, i)
  BY <1>1, WorkShard DEF Put
<1>2. CASE Block(k, i)
  BY <1>2, MoveShard DEF Block
<1>3. CASE BroadcastTimeout(k, i)
  BY <1>3, MoveShard DEF BroadcastTimeout
<1>4. CASE ReadStats(k, i)
  BY <1>4, MoveShard DEF ReadStats
<1>5. CASE AppendStats(k, i)
  BY <1>5, WorkShard DEF AppendStats
<1>6. CASE CloseStop(k, i) /\ ~stopped[i]
  BY <1>6, WorkShard DEF CloseStop
<1>7. CASE CloseStop(k, i) /\ stopped[i]
  <2>1. PICK l \in Calls : op[l] = "stop" /\ reached[l][i] = 1
    BY <1>7 DEF ShardInv, StopInv
  <2>2. reached[k][i] = 0 /\ op[k] = "stop"
    BY <1>7 DEF CloseStop, ShardInv, ReachInv
  <2>3. k # l
    BY <2>1, <2>2
  <2>4. UNCHANGED <<op, pos, task, reached, stopped>>
    BY <1>7 DEF CloseStop
  <2>5. CloseNeedsTwoStops'
    BY <2>1, <2>2, <2>3, <2>4 DEF CloseNeedsTwoStops
  <2>. QED BY <2>4, <2>5, FrameShard
<1>8. CASE Wait(k, i)
  BY <1>8, MoveShard DEF Wait
<1>9. CASE WaitReturns(k, i) /\ creating[i] = "nobody"
  BY <1>9, MoveShard DEF WaitReturns
<1>10. CASE WaitReturns(k, i) /\ creating[i] # "nobody"
  <2>1. UNCHANGED <<op, pos, task, reached, stopped>> /\ panic' = "reuse"
    BY <1>10 DEF WaitReturns
  <2>2. CloseNeedsTwoStops'
    BY <2>1 DEF CloseNeedsTwoStops
  <2>. QED BY <2>1, <2>2, FrameShard
<1>. QED BY <1>1, <1>2, <1>3, <1>4, <1>5, <1>6, <1>7, <1>8, <1>9, <1>10 DEF Task

\* The hubs' own steps and those of other callers: at most a goroutine is woken.
LEMMA HubShard ==
    ASSUME ShardInv, NEW h \in Hubs, Run(h) \/ Environment(h)
    PROVE  ShardInv'
<1>1. UNCHANGED <<op, pos, reached, stopped, panic>>
  BY DEF Run, Environment, TakeBroadcast, HubStop, Forward, EnterCreate, LeaveCreate,
         Broadcast, TakeRegister, callVars
<1>2. \/ task' = task
      \/ task' = [k \in Calls |-> [i \in Hubs |->
                    IF task[k][i] = "asleep" /\ Target(k, i) = h
                      THEN "woken" ELSE task[k][i]]]
  BY DEF Run, Environment, TakeBroadcast, HubStop, Forward, EnterCreate, LeaveCreate,
         Broadcast, TakeRegister, callVars
<1>3. \A k \in Calls : \A i \in Hubs :
         \/ task'[k][i] = task[k][i]
         \/ task[k][i] = "asleep" /\ task'[k][i] = "woken"
  BY <1>2
<1>4. task' \in [Calls -> [Hubs -> Before \cup After]]
  BY <1>2 DEF ShardInv, CallTypes, After
<1>5. CallTypes'
  BY <1>1, <1>4 DEF ShardInv, CallTypes
<1>6. ReachInv'
  BY <1>1, <1>3 DEF ShardInv, ReachInv, Before
<1>7. StartInv'
  BY <1>1, <1>3 DEF ShardInv, StartInv
<1>8. StopInv' /\ CloseNeedsTwoStops'
  BY <1>1 DEF ShardInv, StopInv, CloseNeedsTwoStops
<1>. QED BY <1>5, <1>6, <1>7, <1>8 DEF ShardInv

LEMMA StepShard == ShardInv /\ [Next]_vars => ShardInv'
<1>. SUFFICES ASSUME ShardInv, [Next]_vars PROVE ShardInv'
  OBVIOUS
<1>1. CASE UNCHANGED vars
  BY <1>1 DEF vars, hubVars, callVars, ShardInv, CallTypes, ReachInv, StartInv, StopInv,
              CloseNeedsTwoStops
<1>2. ASSUME NEW k \in Calls, Call(k) PROVE ShardInv'
  <2>. PICK o \in MayCall[k] : op' = [op EXCEPT ![k] = o]
    BY <1>2 DEF Call
  <2>1. o \in {"broadcast", "stats", "stop"} /\ op[k] = "none"
    BY <1>2, ShardAssumption DEF Call
  <2>2. /\ UNCHANGED <<pos, task, reached, stopped, panic>>
        /\ op' \in [Calls -> {"none", "broadcast", "stats", "stop"}]
        /\ \A l \in Calls : op[l] = "stop" => op'[l] = "stop"
    BY <1>2, <2>1 DEF Call, hubVars, ShardInv, CallTypes
  <2>. QED BY <2>2 DEF ShardInv, CallTypes, ReachInv, StartInv, StopInv, CloseNeedsTwoStops
<1>3. ASSUME NEW k \in Calls, Start(k) PROVE ShardInv'
  <2>1. pos[k] \in Hubs
    BY <1>3, ShardAssumption DEF Start, Hubs, ShardInv, CallTypes
  <2>2. task[k][pos[k]] = "none"
    BY <2>1 DEF ShardInv, StartInv, Hubs
  <2>3. /\ UNCHANGED <<op, reached, stopped, panic>>
        /\ pos' = [pos EXCEPT ![k] = @ + 1]
        /\ task' = [task EXCEPT ![k][pos[k]] = "ready"]
    BY <1>3 DEF Start, Goto, hubVars
  <2>4. CallTypes'
    <3>1. pos[k] + 1 \in 0..HubSize
      BY <2>1, ShardAssumption DEF Hubs
    <3>. QED BY <2>1, <2>3, <3>1 DEF ShardInv, CallTypes, Before
  <2>5. ReachInv'
    BY <2>1, <2>2, <2>3 DEF ShardInv, CallTypes, ReachInv, Before
  <2>6. StartInv'
    BY <2>1, <2>3 DEF ShardInv, CallTypes, StartInv, Hubs
  <2>. QED BY <2>3, <2>4, <2>5, <2>6 DEF ShardInv, StopInv, CloseNeedsTwoStops
<1>. QED BY <1>1, <1>2, <1>3, TaskShard, HubShard DEF Next
-----------------------------------------------------------------------------
\* Whatever the number of hubs and calls, a call that returned has reached each
\* hub once.
THEOREM OncePerHubAlways == Spec => []OncePerHub
<1>1. ShardInv => OncePerHub
  BY DEF ShardInv, ReachInv, OncePerHub, Returned, Before
<1>. QED BY <1>1, InitShard, StepShard, PTL DEF Spec

\* No single call of Stop closes a channel twice.
THEOREM CloseNeedsTwoStopsAlways == Spec => []CloseNeedsTwoStops
<1>1. ShardInv => CloseNeedsTwoStops
  BY DEF ShardInv
<1>. QED BY <1>1, InitShard, StepShard, PTL DEF Spec
-----------------------------------------------------------------------------
(***************************************************************************)
(* The hubs' side: what their loops and locks can be, and that wg.Wait     *)
(* only sleeps where a wg.Done is to come.  It needs of the calls nothing  *)
(* but their types, and is kept apart from the counting above.             *)
(***************************************************************************)
HubTypes ==
    /\ queue \in [Hubs -> 0..HubCap]
    /\ loop \in [Hubs -> {"select", "register", "forward", "done"}]
    /\ creating \in [Hubs -> {"nobody", "run", "caller"}]
    /\ panic \in {"none", "close", "reuse"}

WakeInv == HubTypes /\ NoLostWakeup

LEMMA InitWake == Init => WakeInv
BY ShardAssumption DEF Init, WakeInv, HubTypes, NoLostWakeup

\* A goroutine of a call takes no lock, and sleeps only where it saw one taken.
LEMMA TaskWake ==
    ASSUME CallTypes, WakeInv, NEW k \in Calls, NEW i \in Hubs, Task(k, i)
    PROVE  WakeInv'
<1>. USE DEF Target, WakeInv, CallTypes
<1>1. HubTypes'
  <2>1. queue' \in [Hubs -> 0..HubCap]
    <3>1. CASE queue' = queue
      BY <3>1 DEF HubTypes
    <3>2. CASE Put(k, i)
      <4>1. queue[i] + 1 \in 0..HubCap
        BY <3>2, ShardAssumption DEF Put, HubTypes
      <4>. QED BY <3>2, <4>1 DEF Put, HubTypes
    <3>. QED
      BY <3>1, <3>2 DEF Task, Block, BroadcastTimeout, ReadStats, AppendStats, CloseStop,
         Wait, WaitReturns, hubVars
  <2>2. UNCHANGED <<loop, creating>> /\ panic' \in {panic, "close", "reuse"}
    BY DEF Task, Put, Block, BroadcastTimeout, ReadStats, AppendStats, CloseStop, Wait,
           WaitReturns, hubVars
  <2>. QED BY <2>1, <2>2 DEF HubTypes
<1>2. creating' = creating
  BY DEF Task, Put, Block, BroadcastTimeout, ReadStats, AppendStats, CloseStop, Wait,
         WaitReturns, hubVars
<1>3. ASSUME NEW place, Goto(k, i, place), place = "asleep" => creating[i] # "nobody"
      PROVE  NoLostWakeup'
  <2>1. \A l \in Calls : \A h \in Hubs :
           task'[l][h] = IF l = k /\ h = i THEN place ELSE task[l][h]
    BY <1>3 DEF Goto
  <2>. QED BY <1>2, <1>3, <2>1 DEF NoLostWakeup
<1>4. ASSUME task' = task PROVE NoLostWakeup'
  BY <1>2, <1>4 DEF NoLostWakeup
<1>5. NoLostWakeup'
  BY <1>3, <1>4 DEF Task, Put, Block, BroadcastTimeout, ReadStats, AppendStats, CloseStop,
     Wait, WaitReturns
<1>. QED BY <1>1, <1>5

\* Whoever leaves CreateRoom wakes all that sleep there.
LEMMA HubWake ==
    ASSUME CallTypes, WakeInv, NEW h \in Hubs, Run(h) \/ Environment(h)
    PROVE  WakeInv'
<1>. USE DEF Target, WakeInv, CallTypes, HubTypes
<1>1. HubTypes'
  <2>1. CASE TakeBroadcast(h) \/ Broadcast(h)
    <3>1. queue'[h] \in 0..HubCap
      BY <2>1, ShardAssumption DEF TakeBroadcast, Broadcast
    <3>. QED BY <2>1, <3>1 DEF TakeBroadcast, Broadcast
  <2>2. CASE HubStop(h) \/ Forward(h) \/ TakeRegister(h)
    BY <2>2 DEF HubStop, Forward, TakeRegister
  <2>3. CASE EnterCreate(h, "run") \/ EnterCreate(h, "caller") \/ LeaveCreate(h)
    BY <2>3 DEF EnterCreate, LeaveCreate
  <2>. QED BY <2>1, <2>2, <2>3 DEF Run, Environment
<1>2. NoLostWakeup'
  <2>1. CASE UNCHANGED <<task, creating>>
    BY <2>1 DEF NoLostWakeup
  <2>2. CASE EnterCreate(h, "run") \/ EnterCreate(h, "caller")
    BY <2>2 DEF EnterCreate, callVars, NoLostWakeup
  <2>3. CASE LeaveCreate(h)
    BY <2>3 DEF LeaveCreate, NoLostWakeup
  <2>. QED
    BY <2>1, <2>2, <2>3 DEF Run, Environment, TakeBroadcast, HubStop, Forward, Broadcast,
       TakeRegister, callVars
<1>. QED BY <1>1, <1>2

LEMMA StepWake == ShardInv /\ WakeInv /\ [Next]_vars => WakeInv'
<1>. SUFFICES ASSUME ShardInv, WakeInv, [Next]_vars PROVE WakeInv'
  OBVIOUS
<1>0. CallTypes
  BY DEF ShardInv
<1>1. CASE UNCHANGED vars
  BY <1>1 DEF vars, hubVars, callVars, WakeInv, HubTypes, NoLostWakeup, Target
<1>2. ASSUME NEW k \in Calls, Call(k) PROVE WakeInv'
  BY <1>2 DEF Call, hubVars, WakeInv, HubTypes, NoLostWakeup, Target
<1>3. ASSUME NEW k \in Calls, Start(k) PROVE WakeInv'
  <2>1. UNCHANGED <<queue, loop, creating, panic>>
    BY <1>3 DEF Start, hubVars
  <2>2. \A l \in Calls : \A i \in Hubs : task'[l][i] = task[l][i] \/ task'[l][i] = "ready"
    BY <1>0, <1>3 DEF Start, Goto, CallTypes
  <2>. QED BY <2>1, <2>2 DEF WakeInv, HubTypes, NoLostWakeup, Target
<1>. QED BY <1>0, <1>1, <1>2, <1>3, TaskWake, HubWake DEF Next

\* No channel of a hub is filled over its capacity, no call counts more goroutines
\* than there are hubs, and every lock, loop and goroutine stays in its range.
THEOREM ShardTypesAlways == Spec => []TypeOK
<1>1. ShardInv /\ WakeInv => TypeOK
  BY DEF ShardInv, CallTypes, WakeInv, HubTypes, TypeOK, Before, After
<1>. QED BY <1>1, InitShard, StepShard, InitWake, StepWake, PTL DEF Spec

\* Whatever the number of hubs and of calls of Stop, none sleeps in wg.Wait with
\* nobody left to wake it.
THEOREM NoLostWakeupAlways == Spec => []NoLostWakeup
<1>1. WakeInv => NoLostWakeup
  BY DEF WakeInv
<1>. QED BY <1>1, InitShard, StepShard, InitWake, StepWake, PTL DEF Spec
=============================================================================
