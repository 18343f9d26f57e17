-------------------------- MODULE AppProcessProofs --------------------------
(***************************************************************************)
(* AppProcess for any number of requests and messages and any shard count. *)
(* The argument: the start opens a prefix of Order, every list of cleanups *)
(* is that prefix backwards, the log and the hub stay open through all of  *)
(* them, and the server runs only between the two, with the hubs the       *)
(* configuration asks for.                                                 *)
(***************************************************************************)
EXTENDS AppProcess, TLAPS

\* What has something to close.
Closing == {"db", "producer", "consumer", "redis"}

\* The lists of cleanups still to be called, and what each has still to close.
Remaining ==
    {<< <<>>, {} >>,
     << <<"log">>, {} >>,
     << <<"db", "log">>, {"db"} >>,
     << <<"producer", "db", "log">>, {"db", "producer"} >>,
     << <<"consumer", "producer", "db", "log">>, {"db", "producer", "consumer"} >>,
     << <<"redis", "consumer", "producer", "db", "log">>, Closing >>,
     << <<"hub", "redis", "consumer", "producer", "db", "log">>, Closing >>}

\* What is open when the first n resources were provided.
Opened(n) == {Order[i] : i \in 1..n}

\* Nothing is open that has something to close, or the log and a prefix of it.
OpenPrefix ==
    \/ open \cap Closing = {}
    \/ "log" \in open /\ \E n \in 1..6 : open \cap Closing = Opened(n) \cap Closing

\* What is open, by where main is.
OpenInv ==
    /\ main = "config" => open = {} /\ provided = 0
    /\ main = "provide" => provided < 6
    /\ main \in {"config", "provide"} => open = Opened(provided)
    /\ main \in {"setup", "wait", "shutdown"} => open = Resources
    /\ main \in {"unwind", "cleanup"} => /\ <<cleanups, open \cap Closing>> \in Remaining
                                         /\ "log" \in open
    /\ main = "cleanup" => "hub" \in open
    /\ main = "ended" =>
          \/ exit \in {"returned", "fatal", "panic"} /\ open \cap Closing = {}
          \/ exit = "crash" /\ OpenPrefix
          \/ exit = "timeout" /\ open = Resources

\* Requests are served between Setup and the last cleanup only.
ServeInv ==
    /\ server # "none" => main \notin {"config", "provide", "unwind", "setup"}
    /\ server \in {"starting", "listening"} => main \in {"wait", "ended"}
    /\ (\E q \in Requests : handler[q] # "new") => server # "none"
    /\ Awaited # {} => main \in {"wait", "shutdown", "ended"}

\* How main came to where it is.
ExitInv ==
    /\ main = "unwind" => exit = "fatal"
    /\ main = "cleanup" => exit \in {"panic", "returned"}

\* The hubs the file asks for.
Made == hubs = NewShardedHub(ShardCount(config))

\* They are made before the server starts.
HubsInv ==
    /\ main \in {"setup", "wait"} => Made
    /\ (\E q \in Requests : handler[q] # "new") => Made

AppTypes ==
    /\ AppTypeOK
    /\ provided \in 0..6

AppInv == AppTypes /\ OpenInv /\ ServeInv /\ ExitInv /\ HubsInv

\* What the handlers do to the rest of the process, all of them alike: only a
\* request that is new needs the server, and none becomes new again.
HandlerMoves ==
    /\ UNCHANGED <<settings, main, resources, exit, server, quit>>
    /\ \E q \in Requests, h \in {"running", "detached", "done"} :
          /\ handler' = [handler EXCEPT ![q] = h]
          /\ h = "running" => server = "listening"
          /\ h # "running" => handler[q] # "new"

LEMMA OrderIs ==
    /\ Len(Order) = 6 /\ DOMAIN Order = 1..6
    /\ Order[1] = "log" /\ Order[2] = "db" /\ Order[3] = "producer"
    /\ Order[4] = "consumer" /\ Order[5] = "redis" /\ Order[6] = "hub"
    /\ Resources = Opened(6)
    /\ \A i \in 1..6 : Closes(Order[i]) # {} <=> Order[i] \in Closing
BY DEF Order, Resources, Opened, Closes, Closing

\* What the start has opened, written out.
LEMMA OpenedIs ==
    /\ Opened(0) = {} /\ Opened(1) = {"log"} /\ Opened(2) = {"log", "db"}
    /\ Opened(3) = {"log", "db", "producer"}
    /\ Opened(4) = {"log", "db", "producer", "consumer"}
    /\ Opened(5) = {"log", "db", "producer", "consumer", "redis"}
    /\ Opened(6) = {"log", "db", "producer", "consumer", "redis", "hub"}
<1>1. \A n \in 0..6 : Opened(n) = {Order[i] : i \in {j \in 1..6 : j <= n}}
  BY DEF Opened
<1>. QED BY <1>1, OrderIs

LEMMA OpenedGrows ==
    \A n \in 0..5 : Opened(n + 1) = Opened(n) \cup {Order[n + 1]}
<1>1. \A n \in 0..5 : 1..(n + 1) = (1..n) \cup {n + 1}
  OBVIOUS
<1>. QED BY <1>1 DEF Opened

\* Every entry of Remaining is followed by one of Remaining.
LEMMA RemainingStep ==
    ASSUME NEW l, NEW o, <<l, o>> \in Remaining, l # <<>>
    PROVE  <<Tail(l), o \ Closes(Head(l))>> \in Remaining
<1>. USE DEF Closing
<1>1. CASE l = <<"log">> /\ o = {}
  BY <1>1 DEF Remaining, Closes
<1>2. CASE l = <<"db", "log">> /\ o = {"db"}
  BY <1>2 DEF Remaining, Closes
<1>3. CASE l = <<"producer", "db", "log">> /\ o = {"db", "producer"}
  BY <1>3 DEF Remaining, Closes
<1>4. CASE l = <<"consumer", "producer", "db", "log">>
           /\ o = {"db", "producer", "consumer"}
  BY <1>4 DEF Remaining, Closes
<1>5. CASE l = <<"redis", "consumer", "producer", "db", "log">> /\ o = Closing
  BY <1>5 DEF Remaining, Closes
<1>6. CASE l = <<"hub", "redis", "consumer", "producer", "db", "log">> /\ o = Closing
  BY <1>6 DEF Remaining, Closes
<1>. QED BY <1>1, <1>2, <1>3, <1>4, <1>5, <1>6 DEF Remaining

\* The only entry without cleanups has nothing to close.
LEMMA RemainingEmpty ==
    ASSUME NEW o, << <<>>, o >> \in Remaining
    PROVE  o = {}
<1>1. \A a, b, c, d, f, g : /\ <<>> # <<a>> /\ <<>> # <<a, b>> /\ <<>> # <<a, b, c>>
                            /\ <<>> # <<a, b, c, d>> /\ <<>> # <<a, b, c, d, f>>
                            /\ <<>> # <<a, b, c, d, f, g>>
  OBVIOUS
<1>. QED BY <1>1 DEF Remaining

\* What an entry has to close is a prefix of the start.
LEMMA RemainingOpened ==
    ASSUME NEW l, NEW o, <<l, o>> \in Remaining
    PROVE  \E n \in 1..6 : o = Opened(n) \cap Closing
<1>1. o \in {{}, {"db"}, {"db", "producer"}, {"db", "producer", "consumer"}, Closing}
  BY DEF Remaining
<1>2. /\ Opened(1) \cap Closing = {}
      /\ Opened(2) \cap Closing = {"db"}
      /\ Opened(3) \cap Closing = {"db", "producer"}
      /\ Opened(4) \cap Closing = {"db", "producer", "consumer"}
      /\ Opened(5) \cap Closing = Closing
  BY OpenedIs DEF Closing
<1>. QED BY <1>1, <1>2
-----------------------------------------------------------------------------
\* What is open is always a prefix of the order of the start, as far as it matters.
LEMMA OpenIsPrefix == AppInv => OpenPrefix
<1>. SUFFICES ASSUME AppInv PROVE OpenPrefix
  OBVIOUS
<1>1. ASSUME NEW n \in 0..6, open = Opened(n)
      PROVE  OpenPrefix
  <2>1. CASE n = 0
    BY <1>1, <2>1, OpenedIs DEF OpenPrefix
  <2>2. CASE n # 0
    <3>1. "log" \in Opened(n)
      BY <2>2, OrderIs DEF Opened
    <3>. QED BY <1>1, <2>2, <3>1 DEF OpenPrefix
  <2>. QED BY <2>1, <2>2
<1>2. CASE main \in {"unwind", "cleanup"}
  BY <1>2, RemainingOpened DEF AppInv, OpenInv, OpenPrefix
<1>3. CASE main \in {"config", "provide"}
  BY <1>1, <1>3 DEF AppInv, AppTypes, OpenInv
<1>4. CASE open = Resources
  BY <1>1, <1>4, OrderIs
<1>5. CASE main = "ended" /\ open # Resources
  BY <1>5 DEF AppInv, OpenInv, OpenPrefix
<1>. QED BY <1>2, <1>3, <1>4, <1>5 DEF AppInv, AppTypes, AppTypeOK, OpenInv

\* A file that does not ask for one hub gets at least two.
LEMMA MadeTwo ==
    ASSUME config \in Files, Made, config.shards # 1
    PROVE  HasHub(1)
<1>1. config.shards \in Int
  BY LifecycleAssumption DEF Files
<1>2. NewShardedHub(ShardCount(config)) > 1
  BY <1>1 DEF NewShardedHub, ShardCount
<1>. QED BY <1>2 DEF Made, HasHub
-----------------------------------------------------------------------------
LEMMA InitApp == Init => AppInv
<1>. SUFFICES ASSUME Init PROVE AppInv
  OBVIOUS
<1>. USE DEF Init, AppInit
<1>1. AppTypes
  <2>1. /\ provided \in 0..6 /\ open \in SUBSET Resources
        /\ handler \in [Requests -> {"new", "running", "detached", "done"}]
    OBVIOUS
  <2>2. cleanups = <<>> /\ hubs \in Nat /\ quit \in BOOLEAN
    OBVIOUS
  <2>3. <<>> \in Seq(Resources)
    OBVIOUS
  <2>. QED BY <2>1, <2>2, <2>3, OrderIs DEF AppTypes, AppTypeOK
<1>2. OpenInv
  BY OpenedIs DEF OpenInv
<1>3. ServeInv /\ ExitInv /\ HubsInv
  BY DEF ServeInv, ExitInv, HubsInv, Awaited
<1>. QED BY <1>1, <1>2, <1>3 DEF AppInv

\* The steps of main keep the types.
LEMMA MainTypes ==
    ASSUME AppInv, Main
    PROVE  AppTypes'
<1>. USE OrderIs DEF AppInv, AppTypes, AppTypeOK, settings, resources
<1>1. CASE ProvideConfig \/ ProvidePanics \/ Setup \/ End \/ Shutdown \/ ShutdownTimeout
  BY <1>1 DEF ProvideConfig, ProvidePanics, Setup, End, Shutdown, ShutdownTimeout
<1>2. CASE Provide
  <2>1. provided' \in 0..6 /\ open' \in SUBSET Resources
    BY <1>2 DEF Provide, OpenInv, Resources
  <2>2. hubs' \in Nat
    <3>1. config.shards \in Int
      BY LifecycleAssumption DEF Files
    <3>2. NewShardedHub(ShardCount(config)) \in Nat
      BY <3>1 DEF NewShardedHub, ShardCount
    <3>. QED BY <1>2, <3>2 DEF Provide
  <2>. QED BY <1>2, <2>1, <2>2 DEF Provide
<1>3. CASE ProvideError
  <2>1. cleanups' \in Seq(Resources)
    <3>1. {"producer", "db", "log"} \subseteq Resources
      BY OpenedIs
    <3>. QED BY <1>3, <3>1 DEF ProvideError, ErrorPath
  <2>. QED BY <1>3, <2>1 DEF ProvideError
<1>4. CASE SetupPanics \/ ShutdownReturns
  <2>1. cleanups' \in Seq(Resources)
    <3>1. {"hub", "redis", "consumer", "producer", "db", "log"} \subseteq Resources
      BY OpenedIs
    <3>2. Finish \in Seq(Resources)
      BY <3>1 DEF Finish
    <3>. QED BY <1>4, <3>2 DEF SetupPanics, ShutdownReturns
  <2>. QED BY <1>4, <2>1 DEF SetupPanics, ShutdownReturns
<1>5. CASE Cleanup
  BY <1>5 DEF Cleanup
<1>. QED BY <1>1, <1>2, <1>3, <1>4, <1>5 DEF Main

\* They keep what is open in line with where main is.
LEMMA MainOpen ==
    ASSUME AppInv, Main
    PROVE  OpenInv'
<1>. USE DEF AppInv, settings, resources
<1>1. CASE ProvideConfig
  BY <1>1, OpenedIs DEF ProvideConfig, OpenInv
<1>2. CASE Provide
  <2>1. open' = Opened(provided')
    BY <1>2, OpenedGrows, OrderIs DEF Provide, AppTypes, OpenInv
  <2>. QED BY <1>2, <2>1, OrderIs DEF Provide, AppTypes, OpenInv
<1>3. CASE ProvideError
  <2>1. provided \in 0..5 /\ (provided = 2 \/ provided = 3)
    BY <1>3, OrderIs DEF ProvideError, AppTypes, OpenInv, MayFail
  <2>2. CASE provided = 2
    <3>1. cleanups' = <<"db", "log">> /\ open' = {"log", "db"}
      BY <1>3, <2>2, OrderIs, OpenedIs DEF ProvideError, OpenInv, ErrorPath
    <3>2. open' \cap Closing = {"db"}
      BY <3>1 DEF Closing
    <3>. QED BY <1>3, <3>1, <3>2 DEF ProvideError, OpenInv, Remaining
  <2>3. CASE provided = 3
    <3>1. /\ cleanups' = <<"producer", "db", "log">>
          /\ open' = {"log", "db", "producer"}
      BY <1>3, <2>3, OrderIs, OpenedIs DEF ProvideError, OpenInv, ErrorPath
    <3>2. open' \cap Closing = {"db", "producer"}
      BY <3>1 DEF Closing
    <3>. QED BY <1>3, <3>1, <3>2 DEF ProvideError, OpenInv, Remaining
  <2>. QED BY <2>1, <2>2, <2>3
<1>4. CASE ProvidePanics
  BY <1>4, OpenIsPrefix DEF ProvidePanics, OpenInv, OpenPrefix
<1>5. CASE Setup \/ Shutdown \/ ShutdownTimeout
  BY <1>5 DEF Setup, Shutdown, ShutdownTimeout, OpenInv
<1>6. CASE SetupPanics \/ ShutdownReturns
  <2>1. open' = Resources /\ cleanups' = Finish
    BY <1>6 DEF SetupPanics, ShutdownReturns, OpenInv
  <2>2. /\ open' \cap Closing = Closing
        /\ "log" \in open' /\ "hub" \in open'
    BY <2>1, OrderIs, OpenedIs DEF Closing
  <2>. QED BY <1>6, <2>1, <2>2
       DEF SetupPanics, ShutdownReturns, OpenInv, Finish, Remaining
<1>7. CASE Cleanup
  <2>1. /\ open' = open \ Closes(Head(cleanups))
        /\ cleanups' = Tail(cleanups) /\ cleanups # <<>>
        /\ UNCHANGED main /\ main \in {"unwind", "cleanup"}
    BY <1>7 DEF Cleanup
  <2>2. open' \cap Closing = (open \cap Closing) \ Closes(Head(cleanups))
    BY <2>1
  <2>3. <<cleanups', open' \cap Closing>> \in Remaining
    BY <2>1, <2>2, RemainingStep DEF OpenInv
  <2>4. \A r \in {"hub", "log"} : r \in open => r \in open'
    BY <2>1 DEF Closes
  <2>. QED BY <2>1, <2>3, <2>4 DEF OpenInv
<1>8. CASE End
  <2>1. open \cap Closing = {}
    BY <1>8, RemainingEmpty DEF End, OpenInv
  <2>2. exit \in {"fatal", "panic", "returned"}
    BY <1>8 DEF End, ExitInv
  <2>. QED BY <1>8, <2>1, <2>2 DEF End, OpenInv
<1>. QED BY <1>1, <1>2, <1>3, <1>4, <1>5, <1>6, <1>7, <1>8 DEF Main

\* They keep the server, the way of the exit and the configuration in line.
LEMMA MainServe ==
    ASSUME AppInv, Main
    PROVE  ServeInv' /\ ExitInv' /\ HubsInv'
<1>. USE DEF AppInv, ServeInv, ExitInv, HubsInv, Awaited, settings, resources
<1>1. CASE ProvideConfig
  BY <1>1 DEF ProvideConfig, Made, OpenInv
<1>2. CASE Provide
  <2>1. UNCHANGED <<config, exit, server, handler>> /\ main' \in {"provide", "setup"}
    BY <1>2 DEF Provide
  <2>2. server = "none" /\ (\A q \in Requests : handler[q] = "new")
    BY <1>2 DEF Provide
  <2>3. main' = "setup" => Made'
    BY <1>2, OrderIs DEF Provide, Made, NewShardedHub, ShardCount, AppTypes
  <2>. QED BY <2>1, <2>2, <2>3
<1>3. CASE ProvideError \/ ProvidePanics
  BY <1>3 DEF ProvideError, ProvidePanics, Made
<1>4. CASE Setup \/ SetupPanics
  BY <1>4 DEF Setup, SetupPanics, Made
<1>5. CASE Cleanup \/ End
  BY <1>5 DEF Cleanup, End, Made
<1>6. CASE Shutdown
  BY <1>6 DEF Shutdown, Made
<1>7. CASE ShutdownReturns \/ ShutdownTimeout
  BY <1>7 DEF ShutdownReturns, ShutdownTimeout, Made
<1>. QED BY <1>1, <1>2, <1>3, <1>4, <1>5, <1>6, <1>7 DEF Main

\* What Handler and StartSubScribe do is a move of a handler, leaves the process
\* alone, or is the panic of a pump.
LEMMA HandlerStep ==
    ASSUME NEW q \in Requests, AppInv, Handler(q) \/ StartSubScribe(q)
    PROVE  \/ HandlerMoves
           \/ UNCHANGED appVars
           \/ PumpPanics(q)
<1>1. CASE Begin(q)
  BY <1>1 DEF Begin, HandlerMoves
<1>2. ASSUME NEW from \in {"running", "detached"}, Done(q, from)
      PROVE  HandlerMoves
  BY <1>2 DEF Done, HandlerMoves
<1>3. CASE Upgrade(q)
  BY <1>3 DEF Upgrade, HandlerMoves
<1>4. CASE PumpsReturn(q)
  BY <1>4 DEF PumpsReturn
<1>5. CASE Answer(q) \/ BindPanics(q) \/ UpgradeFails(q) \/ NoUserId(q)
           \/ GetHubPanics(q) \/ RegisterWs(q) \/ StartSubScribe(q)
  BY <1>2, <1>5 DEF Answer, BindPanics, UpgradeFails, NoUserId, GetHubPanics,
                    RegisterWs, StartSubScribe
<1>. QED BY <1>1, <1>3, <1>4, <1>5 DEF Handler

\* None of them disturbs the invariant.
LEMMA HandlerApp ==
    ASSUME NEW q \in Requests, AppInv, Alive, Handler(q) \/ StartSubScribe(q)
    PROVE  AppInv'
<1>. USE DEF settings, resources
<1>1. CASE HandlerMoves
  <2>. PICK p \in Requests, h \in {"running", "detached", "done"} :
              /\ handler' = [handler EXCEPT ![p] = h]
              /\ h = "running" => server = "listening"
              /\ h # "running" => handler[p] # "new"
    BY <1>1 DEF HandlerMoves
  <2>1. UNCHANGED <<config, hubs, main, provided, open, cleanups, exit, server, quit>>
    BY <1>1 DEF HandlerMoves
  <2>2. AppTypes'
    BY <2>1 DEF AppInv, AppTypes, AppTypeOK
  <2>3. OpenInv' /\ ExitInv'
    BY <2>1 DEF AppInv, OpenInv, OpenPrefix, ExitInv
  <2>4. handler \in [Requests -> {"new", "running", "detached", "done"}]
    BY DEF AppInv, AppTypes, AppTypeOK
  <2>5. ServeInv'
    <3>1. server = "listening" => main = "wait"
      BY DEF AppInv, ServeInv, Alive
    <3>2. h # "running" => Awaited' \subseteq Awaited
      BY <2>4 DEF Awaited
    <3>. QED BY <2>1, <3>1, <3>2 DEF AppInv, ServeInv
  <2>6. HubsInv'
    <3>1. server = "listening" => main = "wait"
      BY DEF AppInv, ServeInv, Alive
    <3>. QED BY <2>1, <3>1 DEF AppInv, HubsInv, Made
  <2>. QED BY <2>2, <2>3, <2>5, <2>6 DEF AppInv
<1>2. CASE UNCHANGED appVars
  BY <1>2 DEF appVars, AppInv, AppTypes, AppTypeOK, OpenInv, OpenPrefix, ServeInv, ExitInv,
              HubsInv, Made, Awaited
<1>3. CASE PumpPanics(q)
  <2>1. AppTypes'
    BY <1>3 DEF PumpPanics, AppInv, AppTypes, AppTypeOK
  <2>2. OpenInv'
    BY <1>3, OpenIsPrefix DEF PumpPanics, AppInv, OpenInv, OpenPrefix
  <2>. QED BY <1>3, <2>1, <2>2
       DEF PumpPanics, AppInv, ServeInv, ExitInv, HubsInv, Made, Awaited
<1>. QED BY <1>1, <1>2, <1>3, HandlerStep

LEMMA StepApp == AppInv /\ [Next]_vars => AppInv'
<1>. SUFFICES ASSUME AppInv, [Next]_vars PROVE AppInv'
  OBVIOUS
<1>1. CASE UNCHANGED appVars
  BY <1>1 DEF appVars, settings, resources, AppInv, AppTypes, AppTypeOK, OpenInv, OpenPrefix,
              ServeInv, ExitInv, HubsInv, Made, Awaited
<1>2. CASE MainStep
  BY <1>2, MainTypes, MainOpen, MainServe DEF MainStep, AppInv
<1>3. CASE Alive /\ (Listen \/ Signal)
  BY <1>3 DEF Listen, Signal, settings, resources, AppInv, AppTypes, AppTypeOK,
              OpenInv, OpenPrefix, ServeInv, ExitInv, HubsInv, Made, Awaited, Alive
<1>4. ASSUME NEW q \in Requests, Alive, Handler(q) \/ StartSubScribe(q)
      PROVE  AppInv'
  BY <1>4, HandlerApp
<1>5. ASSUME NEW q \in Requests,
             (Alive /\ Deliver(q) /\ UNCHANGED <<appVars, ws>>) \/ Subscriber(q)
      PROVE  AppInv'
  BY <1>1, <1>5 DEF Subscriber
<1>. QED BY <1>1, <1>2, <1>3, <1>4, <1>5 DEF Next, ServerStep, vars

THEOREM AppInvAlways == Spec => []AppInv
BY InitApp, StepApp, PTL DEF Spec
-----------------------------------------------------------------------------
(* Every way out of main that runs cleanups has closed all it can close.     *)
THEOREM NothingLeftOpenAlways == Spec => []NothingLeftOpen
<1>1. AppInv => NothingLeftOpen
  <2>. SUFFICES ASSUME AppInv, main = "ended",
                       exit \in {"returned", "fatal", "panic"}
                PROVE  open \subseteq {"hub", "log"}
    BY DEF NothingLeftOpen, Alive
  <2>1. open \cap Closing = {} /\ open \subseteq Opened(6)
    BY OrderIs DEF AppInv, AppTypes, AppTypeOK, OpenInv
  <2>. QED BY <2>1, OpenedIs DEF Closing
<1>. QED BY <1>1, AppInvAlways, PTL

(* Nothing that can be closed is open when something it may use is not.      *)
THEOREM ClosedInReverseAlways == Spec => []ClosedInReverse
<1>1. ASSUME OpenPrefix, NEW i \in 1..6, NEW j \in 1..6, i < j,
             Order[j] \in open, Order[j] \in Closing
      PROVE  Order[i] \in open
  <2>1. "log" \in open
    BY <1>1 DEF OpenPrefix
  <2>2. PICK n \in 1..6 : open \cap Closing = Opened(n) \cap Closing
    BY <1>1 DEF OpenPrefix
  <2>3. j \in 2..5
    <3>1. j \in {1, 2, 3, 4, 5, 6}
      OBVIOUS
    <3>. QED BY <1>1, <3>1, OrderIs DEF Closing
  <2>4. j <= n
    <3>1. n \in {1, 2, 3, 4, 5, 6} /\ j \in {2, 3, 4, 5}
      BY <2>3
    <3>2. Order[j] \in Opened(n)
      BY <1>1, <2>2
    <3>. QED BY <3>1, <3>2, OrderIs, OpenedIs
  <2>5. CASE i = 1
    BY <2>1, <2>5, OrderIs
  <2>6. CASE i # 1
    <3>1. i \in {2, 3, 4}
      BY <1>1, <2>3, <2>6
    <3>2. Order[i] \in Closing
      BY <3>1, OrderIs DEF Closing
    <3>3. Order[i] \in Opened(n)
      BY <1>1, <2>4 DEF Opened
    <3>. QED BY <2>2, <3>2, <3>3
  <2>. QED BY <2>5, <2>6
<1>2. AppInv => ClosedInReverse
  BY <1>1, OpenIsPrefix, OrderIs DEF ClosedInReverse
<1>. QED BY <1>2, AppInvAlways, PTL
-----------------------------------------------------------------------------
\* Only a request that was begun has a connection, and one that is open without
\* pumps is still in ServeWs, or GetHub panicked on it.
WsInv ==
    \A q \in Requests :
        /\ ws[q] # "none" => handler[q] \in {"detached", "done"}
        /\ ws[q] = "open" => \/ handler[q] = "detached"
                             \/ handler[q] = "done" /\ ~HasHub(1)

HttpInv == HttpTypeOK /\ WsInv

LEMMA InitHttp == Init => HttpInv
BY DEF Init, HttpInit, HttpInv, HttpTypeOK, WsInv

\* The steps of the handlers, one by one.
LEMMA HandlerHttp ==
    ASSUME NEW q \in Requests, AppInv, HttpInv, Handler(q)
    PROVE  HttpInv'
<1>. USE DEF HttpInv, HttpTypeOK, HasHub, WsInv, settings, resources
<1>. handler \in [Requests -> {"new", "running", "detached", "done"}]
  BY DEF AppInv, AppTypes, AppTypeOK
<1>1. CASE Begin(q)
  BY <1>1 DEF Begin
<1>2. CASE Answer(q) \/ BindPanics(q) \/ UpgradeFails(q)
  BY <1>2 DEF Answer, BindPanics, UpgradeFails, Done
<1>3. CASE Upgrade(q)
  BY <1>3 DEF Upgrade
<1>4. CASE NoUserId(q) \/ RegisterWs(q)
  BY <1>4 DEF NoUserId, RegisterWs, Done
<1>5. CASE GetHubPanics(q)
  BY <1>5 DEF GetHubPanics, Done
<1>6. CASE PumpsReturn(q)
  BY <1>6 DEF PumpsReturn, appVars
<1>7. CASE PumpPanics(q)
  BY <1>7 DEF PumpPanics
<1>. QED BY <1>1, <1>2, <1>3, <1>4, <1>5, <1>6, <1>7 DEF Handler

\* The hubs are made before the first handler runs.
LEMMA HubsFixed ==
    ASSUME AppInv, Main
    PROVE  handler' = handler /\ (hubs' = hubs \/ \A q \in Requests : handler[q] = "new")
<1>1. handler' = handler
  BY DEF Main, ProvideConfig, Provide, ProvideError, ProvidePanics, Setup,
         SetupPanics, Cleanup, End, Shutdown, ShutdownReturns, ShutdownTimeout
<1>2. CASE Provide
  BY <1>1, <1>2 DEF Provide, AppInv, ServeInv
<1>3. CASE ~Provide
  BY <1>1, <1>3 DEF Main, ProvideConfig, ProvideError, ProvidePanics, Setup,
         SetupPanics, Cleanup, End, Shutdown, ShutdownReturns, ShutdownTimeout, settings
<1>. QED BY <1>1, <1>2, <1>3

LEMMA StepHttp == AppInv /\ HttpInv /\ [Next]_vars => HttpInv'
<1>. SUFFICES ASSUME AppInv, HttpInv, [Next]_vars PROVE HttpInv'
  OBVIOUS
<1>. USE DEF HttpInv, HttpTypeOK, WsInv, HasHub
<1>1. CASE UNCHANGED <<appVars, ws>>
  BY <1>1 DEF appVars, settings
<1>2. CASE MainStep
  BY <1>2, HubsFixed DEF MainStep
<1>3. CASE (Listen \/ Signal) /\ UNCHANGED ws
  BY <1>3 DEF Listen, Signal, settings
<1>4. ASSUME NEW q \in Requests, Handler(q) PROVE HttpInv'
  BY <1>4, HandlerHttp
<1>5. ASSUME NEW q \in Requests, StartSubScribe(q) PROVE HttpInv'
  <2>1. handler \in [Requests -> {"new", "running", "detached", "done"}]
    BY DEF AppInv, AppTypes, AppTypeOK
  <2>. QED BY <1>5, <2>1 DEF StartSubScribe, Done, settings
<1>. QED BY <1>1, <1>2, <1>3, <1>4, <1>5 DEF Next, ServerStep, Subscriber, vars

THEOREM HttpInvAlways == Spec => [](AppInv /\ HttpInv)
BY InitApp, StepApp, InitHttp, StepHttp, PTL DEF Spec

(* No handler, no ServeWs beside the cleanups and no pump finds closed what  *)
(* it uses, whatever the number of requests and the moment of the signal.    *)
THEOREM HandlersHaveResourcesAlways == Spec => []HandlersHaveResources
<1>1. ASSUME AppInv, HttpInv, Alive, NEW q \in Requests
      PROVE  Uses(q) \subseteq open
  <2>1. handler[q] # "new" => main \in {"wait", "shutdown", "cleanup"}
    BY <1>1 DEF AppInv, AppTypes, AppTypeOK, ServeInv, Alive
  <2>2. CASE handler[q] = "running"
    <3>1. main \in {"wait", "shutdown"}
      BY <1>1, <2>2 DEF AppInv, ServeInv, Awaited, Alive
    <3>2. open = Resources /\ {"hub", "log"} \subseteq Resources
      BY <1>1, <3>1, OrderIs, OpenedIs DEF AppInv, OpenInv
    <3>. QED BY <3>2 DEF Uses
  <2>3. CASE handler[q] # "running" /\ (handler[q] = "detached" \/ ws[q] = "pumping")
    <3>1. main \in {"wait", "shutdown", "cleanup"}
      BY <1>1, <2>1, <2>3 DEF HttpInv, WsInv
    <3>2. {"hub", "log"} \subseteq open
      BY <1>1, <3>1, OrderIs, OpenedIs DEF AppInv, OpenInv
    <3>. QED BY <2>3, <3>2 DEF Uses
  <2>4. CASE handler[q] \notin {"running", "detached"} /\ ws[q] # "pumping"
    BY <2>4 DEF Uses
  <2>. QED BY <2>2, <2>3, <2>4
<1>2. AppInv /\ HttpInv => HandlersHaveResources
  BY <1>1 DEF HandlersHaveResources
<1>. QED BY <1>2, HttpInvAlways, PTL

(* No connection is left without an owner by ServeWs, for any number of      *)
(* requests and every shard count but one.                                   *)
THEOREM NoOrphanConnectionAlways == Spec => []NoOrphanConnection
<1>1. AppInv /\ HttpInv => NoOrphanConnection
  <2>. SUFFICES ASSUME AppInv, HttpInv, config.shards # 1,
                       NEW q \in Requests, handler[q] = "done"
                PROVE  ws[q] # "open"
    BY DEF NoOrphanConnection
  <2>1. config \in Files /\ Made
    BY DEF AppInv, AppTypes, AppTypeOK, HubsInv
  <2>2. HasHub(1)
    BY <2>1, MadeTwo
  <2>. QED BY <2>2 DEF HttpInv, WsInv
<1>. QED BY <1>1, HttpInvAlways, PTL
-----------------------------------------------------------------------------
\* A subscription's channel holds no more than Redis delivered.
SubInv ==
    /\ sub \in [Requests -> {"none", "open", "closed", "done"}]
    /\ buffered \in [Requests -> 0..MaxMessages]
    /\ delivered \in [Requests -> 0..MaxMessages]
    /\ \A q \in Requests : buffered[q] <= delivered[q]

LEMMA StepSub == SubInv /\ [Next]_vars => SubInv'
<1>. SUFFICES ASSUME SubInv, [Next]_vars PROVE SubInv'
  OBVIOUS
<1>. USE AppAssumption DEF SubInv
<1>1. CASE UNCHANGED subVars
  BY <1>1 DEF subVars
<1>2. ASSUME NEW q \in Requests, StartSubScribe(q) PROVE SubInv'
  BY <1>2 DEF StartSubScribe
<1>3. ASSUME NEW q \in Requests, Deliver(q) PROVE SubInv'
  BY <1>3 DEF Deliver
<1>4. ASSUME NEW q \in Requests, Handle(q) PROVE SubInv'
  BY <1>4 DEF Handle
<1>5. ASSUME NEW q \in Requests, TickerCloses(q) \/ ChannelClosed(q) PROVE SubInv'
  BY <1>5 DEF TickerCloses, ChannelClosed
<1>. QED BY <1>1, <1>2, <1>3, <1>4, <1>5 DEF Next, MainStep, ServerStep, Subscriber, vars

(* The types, for all constants: no channel counts below zero or beyond what *)
(* was delivered.                                                            *)
THEOREM TypesAlways == Spec => []TypeOK
<1>1. Init => SubInv
  BY AppAssumption DEF Init, SubInv
<1>2. AppInv /\ HttpInv /\ SubInv => TypeOK
  BY DEF AppInv, AppTypes, HttpInv, SubInv, TypeOK
<1>3. Spec => []SubInv
  BY <1>1, StepSub, PTL DEF Spec
<1>. QED BY <1>2, <1>3, HttpInvAlways, PTL
=============================================================================
