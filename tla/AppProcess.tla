----------------------------- MODULE AppProcess -----------------------------
(***************************************************************************)
(* The process: main with its server, the requests, and the goroutines     *)
(* StartSubScribe leaves behind when the handler that called it has        *)
(* returned.  Its case <-ctx.Done() never fires: the gin engine is made    *)
(* without ContextWithFallback, so the context it gets has no Done channel. *)
(***************************************************************************)
EXTENDS HttpServer

CONSTANT MaxMessages   \* bound: messages Redis delivers to a subscription

ASSUME AppAssumption == MaxMessages \in Nat

VARIABLES
    sub,        \* the subscription of a request and the goroutine serving it
    buffered,   \* messages in its Go channel
    delivered   \* messages delivered so far

subVars == <<sub, buffered, delivered>>
vars == <<appVars, ws, subVars>>

TypeOK ==
    /\ AppTypeOK
    /\ HttpTypeOK
    /\ sub \in [Requests -> {"none", "open", "closed", "done"}]
    /\ buffered \in [Requests -> 0..MaxMessages]
    /\ delivered \in [Requests -> 0..MaxMessages]

Init ==
    /\ AppInit
    /\ HttpInit
    /\ sub = [q \in Requests |-> "none"]
    /\ buffered = [q \in Requests |-> 0]
    /\ delivered = [q \in Requests |-> 0]
-----------------------------------------------------------------------------
\* StartSubScribe, called by the handler of q, which then returns.
StartSubScribe(q) ==
    /\ Done(q, "running")
    /\ sub' = [sub EXCEPT ![q] = "open"]
    /\ UNCHANGED <<ws, buffered, delivered>>

\* Redis delivers a message to the open subscription.
Deliver(q) ==
    /\ sub[q] = "open"
    /\ delivered[q] < MaxMessages
    /\ delivered' = [delivered EXCEPT ![q] = @ + 1]
    /\ buffered' = [buffered EXCEPT ![q] = @ + 1]
    /\ UNCHANGED sub

\* Mutant: the case goes on when the channel is closed.
Handle_IgnoresOk(q) ==
    /\ sub[q] \in {"open", "closed"}
    /\ buffered[q] > 0 \/ sub[q] = "closed"
    /\ buffered' = [buffered EXCEPT ![q] = @ - 1]
    /\ UNCHANGED <<sub, delivered>>

\* case msg: the handler of the message runs.
Handle(q) ==
    /\ sub[q] \in {"open", "closed"}
    /\ buffered[q] > 0
    /\ buffered' = [buffered EXCEPT ![q] = @ - 1]
    /\ UNCHANGED <<sub, delivered>>

\* Mutant: the ticker only logs.
TickerCloses_Logs(q) ==
    /\ sub[q] = "open"
    /\ UNCHANGED subVars

\* case <-ticker.C, 30 seconds on: pubsub.Close().  The goroutine goes on, for
\* the messages that are buffered; a later tick closes what is closed.
TickerCloses(q) ==
    /\ sub[q] = "open"
    /\ sub' = [sub EXCEPT ![q] = "closed"]
    /\ UNCHANGED <<buffered, delivered>>

\* The channel is closed and drained: the goroutine returns.
ChannelClosed(q) ==
    /\ sub[q] = "closed"
    /\ buffered[q] = 0
    /\ sub' = [sub EXCEPT ![q] = "done"]
    /\ UNCHANGED <<buffered, delivered>>
-----------------------------------------------------------------------------
Main ==
    \/ ProvideConfig \/ Provide \/ ProvideError \/ ProvidePanics
    \/ Setup \/ SetupPanics \/ Cleanup \/ End
    \/ Shutdown \/ ShutdownReturns \/ ShutdownTimeout

Alive == main # "ended"

MainStep == Alive /\ Main /\ UNCHANGED <<ws, subVars>>

\* The engine, the handlers and the pumps that outlive them.
Handler(q) ==
    \/ Begin(q) \/ Answer(q) \/ BindPanics(q)
    \/ Upgrade(q) \/ UpgradeFails(q) \/ NoUserId(q)
    \/ GetHubPanics(q) \/ RegisterWs(q) \/ PumpsReturn(q) \/ PumpPanics(q)

ServerStep ==
    /\ Alive
    /\ \/ (Listen \/ Signal) /\ UNCHANGED ws
       \/ \E q \in Requests : Handler(q)
    /\ UNCHANGED subVars

Subscriber(q) ==
    /\ Alive
    /\ Handle(q) \/ TickerCloses(q) \/ ChannelClosed(q)
    /\ UNCHANGED <<appVars, ws>>

Next ==
    \/ MainStep
    \/ ServerStep
    \/ \E q \in Requests :
          \/ Alive /\ StartSubScribe(q)
          \/ Alive /\ Deliver(q) /\ UNCHANGED <<appVars, ws>>
          \/ Subscriber(q)

Spec == Init /\ [][Next]_vars

(***************************************************************************)
(* main and the goroutines of subscriptions keep running, deadlines and    *)
(* tickers fire.  Nothing is assumed of handlers, signals or Redis.        *)
(***************************************************************************)
FairSpec ==
    /\ Spec
    /\ WF_vars(MainStep)
    /\ \A q \in Requests : WF_vars(Subscriber(q))
-----------------------------------------------------------------------------
\* What the goroutines of a request may use: the handler of an API route anything,
\* ServeWs after the upgrade and the pumps the hub and the log.
Uses(q) ==
    (IF handler[q] = "running" THEN Resources ELSE {})
    \cup (IF handler[q] = "detached" \/ ws[q] = "pumping" THEN {"hub", "log"} ELSE {})

\* No handler and no pump finds closed what it uses.  Shutdown waits for the
\* handlers of the server, and when it gives up the process ends without a
\* cleanup; it does not wait for ServeWs or the pumps, which run on beside the
\* cleanups, and may because those close neither the hub nor the log.
HandlersHaveResources == Alive => \A q \in Requests : Uses(q) \subseteq open

\* What has something to close is closed before anything that was provided before
\* it, and that it may use: at each step of the start and of every way out.
ClosedInReverse ==
    \A i, j \in DOMAIN Order :
        i < j /\ Order[j] \in open /\ Closes(Order[j]) # {} => Order[i] \in open

\* A process that ends by returning, by an error of the start, or by a panic
\* after the start, has closed every connection it opened, to the database, to
\* Kafka and to Redis; the log and the hubs, whose cleanups close nothing, end
\* with the process.  A panic of the start or of a pump and a shutdown that times
\* out leave all of it to the operating system.
NothingLeftOpen ==
    ~Alive /\ exit \in {"returned", "fatal", "panic"} => open \subseteq {"hub", "log"}

\* Once ServeWs has returned, the connection it took from the server is closed
\* or has its pumps, whatever shard count the file gives but 1: nobody else
\* would ever close it.
NoOrphanConnection ==
    config.shards # 1 =>
        \A q \in Requests : handler[q] = "done" => ws[q] # "open"

\* A signal ends the process, whatever handlers do.
SignalEnds == quit ~> ~Alive

\* A subscription ends, although the request that made it is long over and its
\* context never says so.
SubscriptionsEnd ==
    \A q \in Requests : sub[q] = "open" ~> sub[q] = "done" \/ ~Alive
=============================================================================
