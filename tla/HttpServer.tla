----------------------------- MODULE HttpServer -----------------------------
(***************************************************************************)
(* The requests of the gin engine: Recover around the handler of a route,  *)
(* and the connection /ws takes away from the server.  The only other      *)
(* middleware that is mounted, LanguageMiddleware, chooses the language of *)
(* an answer.  A handler may take for ever; what the services do behind it *)
(* is the matter of AuthSession, Registration and ChatSystem.              *)
(***************************************************************************)
EXTENDS AppLifecycle

VARIABLE ws     \* the connection of a request that was upgraded

HttpTypeOK == ws \in [Requests -> {"none", "open", "pumping", "closed"}]

HttpInit == ws = [q \in Requests |-> "none"]
-----------------------------------------------------------------------------
\* The server starts the handler of a request, which may use every resource.
Begin(q) ==
    /\ server = "listening"
    /\ handler[q] = "new"
    /\ handler' = [handler EXCEPT ![q] = "running"]
    /\ UNCHANGED <<settings, main, resources, exit, server, quit, ws>>

Done(q, from) ==
    /\ handler[q] = from
    /\ handler' = [handler EXCEPT ![q] = "done"]
    /\ UNCHANGED <<settings, main, resources, exit, server, quit>>

\* The handler of any route but /ws answers, whatever it says.
Answer(q) ==
    /\ Done(q, "running")
    /\ UNCHANGED ws

\* GetValidationMessage registers the tag function of gin's own validator while
\* the binding of another request reads it, without a lock: what that one finds
\* half written makes it panic, and Recover answers 500.
BindPanics(q) ==
    /\ \E p \in Requests \ {q} : handler[p] = "running"
    /\ Done(q, "running")
    /\ UNCHANGED ws
-----------------------------------------------------------------------------
\* ServeWs: Upgrade takes the connection from the server.
Upgrade(q) ==
    /\ handler[q] = "running"
    /\ handler' = [handler EXCEPT ![q] = "detached"]
    /\ ws' = [ws EXCEPT ![q] = "open"]
    /\ UNCHANGED <<settings, main, resources, exit, server, quit>>

\* A request that is no handshake: Upgrade answers it itself.
UpgradeFails(q) ==
    /\ Done(q, "running")
    /\ UNCHANGED ws

\* user_id is missing.
NoUserId(q) ==
    /\ Done(q, "detached")
    /\ ws' = [ws EXCEPT ![q] = "closed"]

\* sh.hubs[hubID] with hubId 1: an index from 0.
HasHub(i) == i < hubs

\* GetHub panics; Recover's answer cannot be written to a connection that was
\* taken, and nothing closes it.
GetHubPanics(q) ==
    /\ Done(q, "detached")
    /\ ~HasHub(1)
    /\ UNCHANGED ws

\* hub.Register succeeds and the pumps start, or times out.
RegisterWs(q) ==
    /\ Done(q, "detached")
    /\ HasHub(1)
    /\ \E to \in {"pumping", "closed"} : ws' = [ws EXCEPT ![q] = to]

\* Both pumps have returned.
PumpsReturn(q) ==
    /\ ws[q] = "pumping"
    /\ ws' = [ws EXCEPT ![q] = "closed"]
    /\ UNCHANGED appVars

\* A pump panics, as ChatSystem shows it may.  Recover guards the goroutine of
\* the handler only: the process ends where it is.
PumpPanics(q) ==
    /\ ws[q] = "pumping"
    /\ main' = "ended"
    /\ exit' = "crash"
    /\ UNCHANGED <<settings, resources, server, quit, handler, ws>>
=============================================================================
