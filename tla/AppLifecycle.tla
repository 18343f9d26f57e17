---------------------------- MODULE AppLifecycle ----------------------------
(***************************************************************************)
(* main(), the container it builds and the HTTP server it runs: what is    *)
(* opened in which order, what the configuration makes of it, the ways in  *)
(* which the start can fail, and the cleanup functions each way out of     *)
(* main calls (main.go, Provide.go, wire_gen.go, InitAppConfig.go).        *)
(***************************************************************************)
EXTENDS Integers, Sequences

CONSTANTS Requests,     \* the HTTP requests of a run
          ShardCounts   \* what a file may give as shard count, 0 when it gives none

ASSUME LifecycleAssumption == ShardCounts \subseteq Int

VARIABLES
    config,     \* what application.yaml says
    hubs,       \* how many hubs the sharded hub has
    main,       \* where main is
    provided,   \* how many resources InitializeContainer has provided
    open,       \* the resources that were provided and not closed
    cleanups,   \* the cleanup functions still to be called
    exit,       \* how the process ends
    server,     \* the goroutine of ListenAndServe
    quit,       \* the channel quit holds a signal
    handler     \* the goroutine of each request

settings  == <<config, hubs>>
resources == <<provided, open, cleanups>>
appVars   == <<settings, main, resources, exit, server, quit, handler>>
-----------------------------------------------------------------------------
\* What Validate and the start look at: whether there is an app.name, the driver,
\* the host and port of the database, and the shard count of the websocket section.
Files == [name : BOOLEAN, driver : {"", "mysql", "postgres", "other"},
          address : {"given", "no host", "no port"}, shards : ShardCounts]

\* config.Validate; a file without a driver passes.
Validate(f) == f.name /\ (f.driver # "" => f.address = "given")

\* What mysql.Open accepts of DSN().  The postgres form has no slash; no driver
\* and a driver DSN does not know give the empty string, which means the default
\* address, whatever host and port the file gives.
DSNParses(f) == f.driver # "postgres"

\* Mutant: one shard unless the file says otherwise.
ShardCount_One(f) == IF f.shards = 0 THEN 1 ELSE f.shards

\* LoadConfig: the shard count of a file that has none.
ShardCount(f) == IF f.shards = 0 THEN 16 ELSE f.shards

\* How many hubs NewShardedHub makes.
NewShardedHub(n) == IF n <= 0 THEN 8 ELSE n
-----------------------------------------------------------------------------
\* What InitializeContainer provides, in this order.
Order == <<"log", "db", "producer", "consumer", "redis", "hub">>
Resources == {Order[i] : i \in DOMAIN Order}

\* The functions that return an error, and those that panic instead.
MayFail  == {"producer", "consumer"}
MayPanic == {"log", "db", "redis"}

\* Mutant: the error paths forget the database.
ErrorPath_KeepsDB(r) == IF r = "producer" THEN <<"log">>
                                          ELSE <<"producer", "log">>

\* The cleanups InitializeContainer calls when providing r returns an error.
ErrorPath(r) == IF r = "producer" THEN <<"db", "log">>
                                  ELSE <<"producer", "db", "log">>

\* Mutant: the cleanups run in the order of the start.
Finish_InOrder == Order

\* The cleanups of the function it returns, which main defers.
Finish == <<"hub", "redis", "consumer", "producer", "db", "log">>

\* What the cleanup of a resource closes.  That of the log flushes it, and that of
\* the hub writes two lines: ShardedHub.Stop is not called.
Closes(r) == IF r \in {"log", "hub"} THEN {} ELSE {r}

AppTypeOK ==
    /\ config \in Files
    /\ hubs \in Nat
    /\ main \in {"config", "provide", "unwind", "setup", "wait", "shutdown",
                 "cleanup", "ended"}
    /\ provided \in 0..Len(Order)
    /\ open \in SUBSET Resources
    /\ cleanups \in Seq(Resources)
    /\ exit \in {"none", "fatal", "panic", "crash", "timeout", "returned"}
    /\ server \in {"none", "starting", "listening", "failed", "closed"}
    /\ quit \in BOOLEAN
    /\ handler \in [Requests -> {"new", "running", "detached", "done"}]

AppInit ==
    /\ config \in Files
    /\ hubs = 0
    /\ main = "config"
    /\ provided = 0
    /\ open = {}
    /\ cleanups = <<>>
    /\ exit = "none"
    /\ server = "none"
    /\ quit = FALSE
    /\ handler = [q \in Requests |-> "new"]

\* The handlers Shutdown waits for: a connection that was upgraded is no longer
\* the server's, and its handler runs on detached.
Awaited == {q \in Requests : handler[q] = "running"}
-----------------------------------------------------------------------------
\* ProvideConfig reads and validates the file, or ends the process with
\* log.Fatalf.
ProvideConfig ==
    /\ main = "config"
    /\ \/ Validate(config) /\ main' = "provide" /\ UNCHANGED exit
       \/ main' = "ended" /\ exit' = "fatal"
    /\ UNCHANGED <<settings, resources, server, quit, handler>>

\* The next resource is provided; after the last one main defers cleanup().
Provide ==
    /\ main = "provide"
    /\ Order[provided + 1] = "db" => DSNParses(config)
    /\ provided' = provided + 1
    /\ open' = open \cup {Order[provided + 1]}
    /\ main' = IF provided' = Len(Order) THEN "setup" ELSE "provide"
    /\ hubs' = IF Order[provided + 1] = "hub"
                 THEN NewShardedHub(ShardCount(config)) ELSE hubs
    /\ UNCHANGED <<config, cleanups, exit, server, quit, handler>>

\* It returns an error: InitializeContainer cleans up, and main ends the
\* process with log.Fatal.
ProvideError ==
    /\ main = "provide"
    /\ Order[provided + 1] \in MayFail
    /\ main' = "unwind"
    /\ cleanups' = ErrorPath(Order[provided + 1])
    /\ exit' = "fatal"
    /\ UNCHANGED <<settings, provided, open, server, quit, handler>>

\* It panics: nothing is deferred yet, and no cleanup runs.
ProvidePanics ==
    /\ main = "provide"
    /\ Order[provided + 1] \in MayPanic
    /\ main' = "ended"
    /\ exit' = "crash"
    /\ UNCHANGED <<settings, resources, server, quit, handler>>

\* i18n.Init, SetupRouter and NewServer, and the goroutine of the server.
Setup ==
    /\ main = "setup"
    /\ main' = "wait"
    /\ server' = "starting"
    /\ UNCHANGED <<settings, resources, exit, quit, handler>>

\* i18n.Init fails or the templates are missing: the panic runs cleanup().
SetupPanics ==
    /\ main = "setup"
    /\ main' = "cleanup"
    /\ cleanups' = Finish
    /\ exit' = "panic"
    /\ UNCHANGED <<settings, provided, open, server, quit, handler>>

\* One cleanup function, then the next one.
Cleanup ==
    /\ main \in {"unwind", "cleanup"}
    /\ cleanups # <<>>
    /\ open' = open \ Closes(Head(cleanups))
    /\ cleanups' = Tail(cleanups)
    /\ UNCHANGED <<settings, main, provided, exit, server, quit, handler>>

\* After the last one the process ends.
End ==
    /\ main \in {"unwind", "cleanup"}
    /\ cleanups = <<>>
    /\ main' = "ended"
    /\ UNCHANGED <<settings, resources, exit, server, quit, handler>>
-----------------------------------------------------------------------------
\* ListenAndServe gets the port, or fails, which is only logged.
Listen ==
    /\ server = "starting"
    /\ server' \in {"listening", "failed"}
    /\ UNCHANGED <<settings, main, resources, exit, quit, handler>>

\* SIGINT or SIGTERM once signal.Notify has run.
Signal ==
    /\ main = "wait"
    /\ ~quit
    /\ quit' = TRUE
    /\ UNCHANGED <<settings, main, resources, exit, server, handler>>

\* main receives it and calls Shutdown: from now on no request is accepted.
Shutdown ==
    /\ main = "wait"
    /\ quit
    /\ main' = "shutdown"
    /\ server' = "closed"
    /\ UNCHANGED <<settings, resources, exit, quit, handler>>

\* Shutdown returns once it waits for no handler; main returns through its defers.
ShutdownReturns ==
    /\ main = "shutdown"
    /\ Awaited = {}
    /\ main' = "cleanup"
    /\ cleanups' = Finish
    /\ exit' = "returned"
    /\ UNCHANGED <<settings, provided, open, server, quit, handler>>

\* Mutant: the error of Shutdown is logged with Error, and main goes on.
ShutdownTimeout_GoesOn ==
    /\ main = "shutdown"
    /\ Awaited # {}
    /\ main' = "cleanup"
    /\ cleanups' = Finish
    /\ exit' = "returned"
    /\ UNCHANGED <<settings, provided, open, server, quit, handler>>

\* Mutant: Shutdown gets a context without a deadline.
ShutdownTimeout_Never == FALSE /\ UNCHANGED appVars

\* Handlers still run after 10 seconds: logger.Fatal, which runs no defers.
ShutdownTimeout ==
    /\ main = "shutdown"
    /\ Awaited # {}
    /\ main' = "ended"
    /\ exit' = "timeout"
    /\ UNCHANGED <<settings, resources, server, quit, handler>>
=============================================================================
