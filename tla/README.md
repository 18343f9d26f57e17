# Formal model of go_chat_v1_test

TLA+ modules, TLC runs and TLAPS proofs for the chat server under
`src/go_chat_v1_test`. The modules are translated from the Go code; the paths
below are relative to `src/go_chat_v1_test/internal` unless they say otherwise.

- [The system](#the-system)
- [Modules and how they correspond to the code](#modules)
- [Runs](#runs)
- [Fairness](#fairness)
- [What is proved](#what-is-proved)
- [Disagreements between code and comments](#findings)
- [Not modelled](#not-modelled)
- [Plan](#plan)

## The system

One process serves HTTP with gin. It has two large parts with state of their own,
the chat hub and the auth service, and a ring of thin services around MySQL,
Redis and Kafka.

| Component | State | Operations | Interacts with |
|---|---|---|---|
| `Hub` (`chat/ChatHubServices.go`) | `rooms` under `hub.mu`; channels `register`, `unregister`, `broadcast` (100 each), `stop` | the goroutine `Run`; `Register`, `Unregister`, `Broadcast`, `BroadcastToRoom`, `CreateRoom`, `DeleteRoom`, `Stop`, `GetRoom`, `ListRooms`, `GetStats` on the caller's goroutine | sends to the channels of its rooms; is called by `ServeWs` and `ReadPump` |
| `Room` (`chat/ChatRoomServices.go`) | `clients` and `lastActive` under `room.mu`; three channels | the goroutine `Run`, `broadcastToClients` | sends to, closes and hangs up clients |
| Client pumps (`chat/ChatClientServices.go`) | the connection, `send` (a channel of 50), `roomID` | the goroutines `ReadPump` and `WritePump`; `Send`, `SendJSON`, `Close` | call the hub; read and write the websocket |
| WebSocket handler (`chat/ChatWebSocketHandler.go`) | none | `ServeWs` | makes a client, registers it with hub 1, starts its pumps |
| `ShardedHub` (`chat/ChatSharHubServices.go`) | a slice of hubs, never changed | `GetHub`, forwarding, and `BroadcastToAll`, `GetStats`, `Stop`, which start a goroutine per hub | all hubs, or one |
| Auth service (`services/impl/AuthServiceImpl.go`, `auth/Claims.go`) | the Redis keys `refresh:<user>:<jti>` and `blacklist:<jti>` | `Login`, `Refresh`, `Logout` | Redis, the user repository, `JwtMiddleware` |
| Redis service (`services/impl/RedisServiceImpl.go`) | none (a client) | `Set`, `Get`, `Exists`, `Delete`, `StartSubScribe`, `PublishMessage` | auth, phone code, registration |
| User service, phone code, repositories | rows of `user_basic`, the Redis key `PHONE:<number>` | registration, update, search | MySQL, Redis |
| Container, `cmd/app/main.go` | the cleanup functions | start, signal, shutdown | everything |
| Configuration (`config/InitAppConfig.go`) | read once | `LoadConfig`, `Validate`, `DSN` | decides how the start goes and how many hubs there are |
| Router, middlewares | the one validator of gin, whose tag function i18n replaces | the handlers of the routes around their services | everything |
| i18n (`i18n/`) | the messages of the locales, never changed | the text of an answer in a language | the handlers, the validator |
| Logging, validation, Kafka, DTOs | none that changes | - | - |

What is hard, and what must hold:

- **Chat.** Every connection has two goroutines, every room one, the hub one.
  They share maps under locks that are released before the result is used, and
  talk through bounded channels which several parties may close; other callers
  may create and delete rooms, or start a goroutine on every hub at once. A send
  on a closed channel, or a second close, ends the whole process. Correctness: the
  hub's map and the running rooms agree; a room holds only clients whose
  channel is open; a client is seated until it is closed, and closed once;
  neither `Run` loop panics; nothing waits in a cycle; dead connections lose
  both pumps; a sender's messages keep their order; a call to all hubs reaches
  each of them once and returns.
- **Auth.** Every request is a sequence of separate Redis calls, interleaved
  with other requests, with the clock, and with failures the code mostly
  ignores. Correctness: a refresh never loses a session; a token rotated away
  never comes back; a revoked access token stays revoked; in short, what a pair
  is good for is granted once and then only withdrawn.
- **Registration.** A code is drawn, stored and answered in three steps, beside
  other requests for the same number; it is compared once and acted upon later,
  after the clock, a new code or a failure. Correctness: a row rests on a code
  that was live for its own number; a code that was answered is the one that is
  compared; one that was replaced confirms nothing.
- **Lifecycle.** Resources are opened one by one, by functions that may fail,
  used by handlers, and closed by lists of cleanups, one for each way out; the
  cleanups of the hub and of the log close nothing. A websocket leaves its
  server behind, and its goroutines outlive the shutdown. Correctness: nothing is
  closed under its users, nothing that can be closed is forgotten, no connection
  is left without an owner, and a signal ends the process.

`PROJECT.json` lists each hazard at its line with the properties that cover it.

## Modules

### Chat

| Module | Models | Variables |
|---|---|---|
| `ChatModels` | the structs and channels of `ChatModels.go`, the constants, `TypeOK`, and the three map operations of `room.clients` | all |
| `ClientPumps` | `ServeWs`, `ReadPump`, `WritePump`, `Send`, and what `Register`, `Unregister` and `BroadcastToRoom` do on the reader's goroutine | `conn`, `roomOf`, `reader`, `writer`, `send`, `sendClosed`, `castRoom`, `castTodo`, `frames` |
| `RoomLoop` | `Room.Run` and `broadcastToClients` | `roomPC`, `members`, `roomReg`, `roomUnreg`, `roomBcast`, `roomTodo`, `roomVictim`, `idle`, `roomClosed` |
| `HubLoop` | `Hub.Run`, `CreateRoom`, both cleanups, `Stop`, `Broadcast` | `rooms`, `hubRegister`, `hubUnregister`, `hubBroadcast`, `stopped`, `hubPC`, `hubReq`, `hubRoom` |
| `Membership` | abstract: who is seated where and who left for good | `seats`, `left` |
| `ChatSystem` | the composition, its properties, and the refinement of `Membership` | |
| `ChatAdmin` | `ChatSystem` with a caller of `CreateRoom` and `DeleteRoom` beside the hub's loop | |
| `MCChat` | instances for TLC | |
| `ChatSystemProofs`, `ChatSafetyProofs`, `ChatRefinementProofs` | types; safety and order; the refinement of `Membership` | |

A goroutine is a program counter (`hubPC`, `roomPC[o]`, `reader[c]`,
`writer[c]`), whose value `"select"` is its `select` statement. One action is
the code between two points where another goroutine can act: a channel
operation, or a critical section of a lock. So the lookup in `hub.rooms`
(`HubTakeRegister`) and the forward to the room (`HubForward`) are two actions,
and the snapshot of `broadcastToClients` and each of its sends are separate.

A buffered channel is a sequence with a capacity. A send waits (the action is
disabled) while it is full, and a `time.After` beside it is an action of its
own, enabled only when the channel is full. `close()` sets a flag; a send to a
closed channel and a second close set `panic`, which disables everything, as
no goroutine of the package recovers. `roomBcast` is a count, because no
property looks at what the hub broadcasts. Room objects are values of their
own (`RoomObjs`), apart from room ids, so that a room that is deleted and
recreated is another object. `members[o]` is a set of clients keyed through
`ClientId`, so that two clients with one id share an entry as they do in the
Go map.

`panic` distinguishes `"broadcast"` and `"pong"` (a reader's send) from
`"hub"`, `"nil"`, `"room"` and `"reclose"` (the loops).

Abstractions to know about:

- One hub. `ServeWs` sets `hubId := 1` for every connection and hubs share
  no variable. `ShardedHub` has all of them.
- Time. `idle[o]` is "more than 10 minutes since lastActive". `Age` sets it
  only when no join or leave for the hub or that room is in a channel:
  a message does not wait for 10 minutes in a channel of a running hub and
  room. `HubSweep` and the join that arrives after `Age` still interleave.
- A frame that is not JSON, or has no room, changes nothing and is left out.
- `ReadError` may happen whenever the reader reads: the peer may go away, and
  the deadline may pass.

`ChatAdmin` adds a caller on a goroutine of its own. `CreateRoom` and
`DeleteRoom` each run under `hub.mu`, which is one action; what they do not
hold is the lookup `Hub.Run` made before, so the loop may forward to a room that
is gone, or store it again. Nothing in the repository calls them at this commit.
A run of `ChatAdmin` ends at the first panic, and there are several on the way:
`HubForward` to a deleted room, a nil room when the caller was faster with
the id, `RoomSend` and `RoomEvict` on a client `DeleteRoom` closed. So
`RunLoopsNeverPanic` and `MapTracksRunning` are properties of the program as
it is called, not of the package; the membership contract holds either way.
`SeatedOrStranded` says what happens to a registration until then: its client
has a seat, or some loop still carries it, or it lies in a channel whose reader
has returned, which only a stopped hub's or a closed room's has. The last case
is real: `DeleteRoom` closes the three channels of a room that has a registration
buffered, and `Room.Run` returns as soon as its `select` picks one of the other
two, which are closed and empty. Such a client has its pumps and never a seat.

### Sharded hub

| Module | Models | Variables |
|---|---|---|
| `ShardedHub` | `BroadcastToAll`, `GetStats` and `Stop` with the goroutine each starts per hub; of a hub what those touch: its channel `broadcast`, `hub.mu`, `hub.wg`, `stop` and where `Run` is | `queue`, `loop`, `creating`, `stopped`, `op`, `pos`, `task`, `reached`, `panic` |
| `MCShard` | the instance for TLC | |
| `ShardedHubProofs` | the safety theorems | |

A call is `op[k]`; `pos[k]` is how far its `for` has come and `task[k][h]` where
its goroutine for hub `h` is. `creating[h]` says who is in `CreateRoom`, which
is when `hub.mu` is held and `hub.wg` is one: `GetStats` waits for the first,
`Stop` for the second. A `WaitGroup` that is counted up again between the wake
of a waiter and its return panics (`"reuse"`), and so does a second `Stop`
(`"close"`). `reached` counts what each call did to each hub and is read by the
properties only. `Hub.Run` here may stay in a room's channel for ever
(`"forward"`): what happens there is in `ChatSystem`.

`GetHub` indexes from 0 while the ids run from 1; that is in `HttpServer`
(`HasHub`), where `ServeWs` asks for hub 1.

### Auth

| Module | Models |
|---|---|
| `AuthSession` | `Login`, `Refresh`, `Logout` of `AuthServiceImpl`, the guard of `JwtMiddleware`, `GenerateTokens`, `ParseToken`, Redis keys with lifetimes, failures and crashes |
| `SessionContract` | abstract: which pairs were handed out, and which of them can be renewed or admitted |
| `MCAuth` | the instance for TLC |
| `AuthSessionProofs`, `AuthContractProofs` | the theorems, and the refinement of `SessionContract` |

A request in progress is `pc[k]`, with its local variables `old[k]`, `new[k]`
and `ttl[k]`. Each Redis call is one action, which either answers or fails as
the code handles it: `Store`, `DeleteOld` and `Blacklist` go on after an error,
`CheckActive` refuses, `Renew` takes a failed blacklist lookup for "not
blacklisted". `Crash` loses every request and keeps Redis. One user is enough,
as keys carry the user id.

`Logout` is modelled with `JwtMiddleware` in front, which the handler expects:
it reads the claims the middleware stores. The router (`router/Routers.go:35`)
mounts the route without it at this commit, so over HTTP `Logout` answers 401
(`controllers/AuthController.go:89-93`) and the blacklist stays empty.

`SessionContract` maps `renewable` to the pairs whose key is in Redis and whose
refresh token has not expired, and `admitted` to those whose access token has
not expired and is not on the blacklist. A delivery is a `Grant`; everything
else withdraws or shows nothing.

### Registration

| Module | Models |
|---|---|
| `Registration` | `SendPhoneCode` (handler and service), `CreateUser` (handler and service), `FindByPhone`, `Create`, the Redis key of a phone number |
| `MCRegistration` | the instance for TLC |
| `RegistrationProofs` | the theorems |

A request of `SendPhoneCode` is `stage[s]`: it draws its code, `Set` puts it into
Redis, and the handler answers it, each a step of its own, so two requests for
one number may store in one order and answer in the other. `Set` ignores its
error, and a call that fails may have reached Redis or be sent again by the
client. A request of `CreateUser` is `pc[k]`; the comparison with the code in
Redis, the lookup of the number, the hash and the insert are one action each.
`user_basic` holds the requests that have a row. `bcrypt` refuses a password
over 72 bytes each time, so a refused hash is an outcome and not a failure.

`FindByPhone` counts the table of `dto.UserResponse` (`user_responses` in GORM's
naming), which nothing in the repository creates or writes, while the rows go to
`user_basic`; so the lookup finds nothing, `ErrDuplicPhone` is never returned,
and a number that has a row gets another. The model has this as it is, and no
property asks for it; see [below](#findings). Two branches cannot be reached and
are not modelled: the 500 answer for a failed `Get`, because the failed `Get`
returns `""`, which differs from any valid code and is refused before; and the
empty name, which the validator refuses. `stores` (which request wrote its key,
and when), `before` (what was answered when a request for a code arrived) and
`checkedAt` are history, read by the properties only.

`Replaced` and `AnsweredCodeLive` speak of requests that do not overlap, and have
to: of two that do, the code answered last may be the one stored first.

### Lifecycle

| Module | Models |
|---|---|
| `AppLifecycle` | `main`, the configuration, `InitializeContainer` with its error paths, `ListenAndServe`, the signal, `Shutdown`, the cleanups |
| `HttpServer` | the handlers of the routes, `Recover`, `ServeWs` and the connection it takes over |
| `AppProcess` | the two, with the goroutines `StartSubScribe` leaves behind; specification and properties |
| `MCApp` | the instance for TLC |
| `AppProcessProofs` | the theorems |

`main` says where the main goroutine is, `provided` how far the start got, `open` what
is open and `cleanups` what will be called next. `Closes` is what a cleanup does
to its resource: that of the hub writes two lines and never calls
`ShardedHub.Stop`, that of the log only flushes, so both stay open to the end of
the process. `MayFail` are the functions of
`Provide.go` that return an error, `MayPanic` those that panic instead: the
generated code has an error path for each, and only those of Kafka can be
taken. A panic after `defer cleanup()` runs the cleanups; `log.Fatal` and
`logger.Fatal` do not.

`config` is what `application.yaml` may say, as far as `Validate`, `DSN` and
`NewShardedHub` tell the files apart, a driver that `DSN` does not know
(`"other"`) included; `hubs` is what comes of its shard count.

A handler is `handler[q]`; it may use every resource while it runs, and may
hang. What a route answers, and in which language, is not modelled. `Upgrade`
hijacks the connection: from then on `Shutdown` does not wait for the handler
(`"detached"`, so it is not `Awaited`), and `ws[q]` is the connection's own state.
A detached handler and the pumps run on beside the cleanups; what they use then
is the hub and the log (`Uses`), which is why that does no harm. A pump that panics
ends the process without a cleanup. The context `SubMessage` hands to `StartSubScribe` is the gin
context, whose `Done()` is nil as the engine is made without
`ContextWithFallback`; so that case of the `select` is never taken, and the
ticker is what ends a subscription. A signal before `signal.Notify` kills the
process as it would any other and is not modelled.

## Runs

All constants are in the `.cfg` files. Deadlock is not checked: connections
end, frames run out, the clock stops at its bound, and a panic ends the
process; `HubReturns` and the other liveness properties state the absence of
the blocking that matters.

| Run | What it asks | Result |
|---|---|---|
| `chat_core` | two connections, one room id, two room objects, channels of 1 and send buffers of 2, two frames from one peer, `Stop` possible | holds: `TypeOK`, `MapTracksRunning`, `MembersOpen`, `RunLoopsNeverPanic`, `SeatedUntilClosed`, `HubWaitsOnReader`, `SenderOrder`, `ImplementsMembership` |
| `chat_admin` | the same connections and rooms, no frames, one hub broadcast, all capacities 1, a caller that creates and deletes rooms | holds: `MembersOpen`, `SeatedOrStranded`, `ImplementsMembership` |
| `chat_live` | one frame from one peer, fair goroutines | holds: `RegistrationSettles`, `HubReturns`, `PumpsStop`, `ClosedRoomsExit` |
| `shard_calls` | two hubs with channels of 1, two calls (see `MCShard` for which), callers of `Broadcast`, `Register` and `CreateRoom` beside them | holds: `TypeOK`, `OncePerHub`, `CloseNeedsTwoStops`, `NoLostWakeup`, `CallsReturn` |
| `send_panic`, `ghost_member`, `sweep_join` | see [below](#findings) | violated |
| `auth_core` | two requests at a time, three pairs, access tokens of 2 ticks, refresh tokens of 3, clock to 3, one fault | holds: `TypeOK`, `SessionSurvives`, `ReplacedIsSpent`, `RevokedUntilExpiry`, `NoRevival`, `ContractKept` |
| `auth_rotation`, `auth_logout` | see [below](#findings) | violated |
| `registration` | three requests for a code and one registration, two numbers, two codes, lifetime of 2 ticks, clock to 3, one failure | holds: `ConfirmedByCode`, `AnsweredCodeLive`, `ReplacedCodeRefused` |
| `app_life` | every configuration, every way to start and end, two requests of any route, which may upgrade or subscribe, two messages each | holds: `TypeOK`, `HandlersHaveResources`, `ClosedInReverse`, `NothingLeftOpen`, `NoOrphanConnection`, `SignalEnds`, `SubscriptionsEnd` |

Why the bounds are enough for the hazards:

- *Capacity 1* makes every channel both full and empty within a step, which is
  where blocking, timeouts and eviction happen. The code's 100 and 50 only
  delay them. `ghost_member` uses a hub capacity of 2.
- *Two connections* give a snapshot a second member, and a sender and a victim;
  *two room objects* let a swept room be recreated under its id once. A second
  room id adds no interaction: rooms share only the hub's loop.
- *Two frames from one peer and buffers of 2* let that peer hold one snapshot
  across another goroutine's eviction or leave, and put two of its messages next
  to each other in a buffer, which is what order needs. `chat_admin` needs no
  frames: the room's own broadcast is what runs into `DeleteRoom`.
- *Two hubs and two calls* let the goroutines of a call work on different hubs
  while another call is on the same ones, in the opposite order.
- *Three pairs* cover a login, a refresh, and a second refresh of either;
  *two requests* the races between them; the lifetimes let access tokens,
  refresh tokens and their keys expire in the run and at different ticks.
- *Two numbers and two codes* let a request carry another number's code, and a
  code be replaced by another or by itself; *three requests for a code* let two
  overlap and a third replace what they left; *one registration* is enough, as
  registrations share nothing but the table, which no step of theirs looks at
  (`FindByPhone`); a *lifetime of 2 in a clock of 3* lets a key expire before and
  after the comparison.
- *Two requests* of the server let one handler end while another hangs, one
  subscription be drained while another is open, and a signal come while one
  connection has pumps and another is being registered. The *shard counts* are
  in `MCApp`: none, a negative one, and the one that is too small.

Clients, requests, numbers and codes are interchangeable where `SYMMETRY` is used; the runs
with liveness and the instances that name a client do without it.

Mutants: for every property of a passing run the module holds a definition
marked `Mutant:`, a plausible bug of the code, under which TLC finds that
property violated.

## Fairness

`ChatSystem!FairSpec` assumes weak fairness of each goroutine: the steps of
`ServeWs`/`ReadPump` that wait for nobody (`AnswerReader`), `WritePump`, each
`Room.Run`, and `Hub.Run`. This is what the Go scheduler gives a runnable
goroutine; a timeout beside a full channel is part of its goroutine. Two steps
of the environment are fair only when the connection is down: a read on a
closed connection fails, and so does the next 30-second ping. Nothing is
assumed of peers, the network, `Stop`, `Broadcast` or the clock.

The fairness is that of whole goroutines, not of branches of a `select`. Where
Go picks at random among ready channels, TLC may pick the same one for ever;
in the bounded runs the other channels run dry, so this costs nothing.

`ShardedHub!FairSpec` lets the goroutines of each call run on, `time.After` fire
and `CreateRoom` end, weakly; reading statistics is strongly fair, because an
`RWMutex` lets the readers that wait in before it can be locked again. Nothing
is assumed of the hubs' loops, so the calls return with hubs that are stuck.

`AppProcess!FairSpec` lets `main` and the goroutine of each subscription go on,
which includes the 10-second deadline of `Shutdown` and the 30-second ticker.
Nothing is assumed of handlers, which may hang for ever, of signals, or of Redis.
The modules of auth and registration state no liveness and assume none.

## What is proved

For every value of the constants that satisfies the named assumptions:

| Theorem | Module | From |
|---|---|---|
| `TypeCorrect`: `[]TypeOK` | `ChatSystemProofs` | `ConstantsAssumption` |
| `MapTracksRunningAlways`, `HubWaitsOnReaderAlways`, `SenderOrderAlways` | `ChatSafetyProofs` | `ConstantsAssumption` |
| `MembersOpenAlways`, `RunLoopsNeverPanicAlways`, `SeatedUntilClosedAlways` | `ChatSafetyProofs` | and `UniqueIds` |
| `ImplementsMembershipAlways` | `ChatRefinementProofs` | and `UniqueIds` |
| of `ChatAdmin`'s `AdminSpec`: `AdminImplementsMembership`, `AdminMembersOpen`, `SeatedOrStrandedAlways`, `OneSeatAlways` | `ChatRefinementProofs` | and `UniqueIds` |
| `ShardTypesAlways`, `OncePerHubAlways`, `CloseNeedsTwoStopsAlways`, `NoLostWakeupAlways` | `ShardedHubProofs` | `ShardAssumption` |
| `AuthTypeCorrect`, `RevokedUntilExpiryAlways`, `SessionSurvivesAlways`, `ReplacedIsSpentAlways`, `NoRevivalAlways` | `AuthSessionProofs` | `AuthAssumption` |
| `ContractKeptAlways` | `AuthContractProofs` | `AuthAssumption` |
| `RegistrationTypeCorrect`, `ConfirmedByCodeAlways`, `ReplacedCodeRefusedAlways`, `AnsweredCodeLiveAlways` | `RegistrationProofs` | `RegistrationAssumption` |
| `TypesAlways`, `HandlersHaveResourcesAlways`, `NothingLeftOpenAlways`, `ClosedInReverseAlways`, `NoOrphanConnectionAlways` | `AppProcessProofs` | `LifecycleAssumption`, `AppAssumption` |

`UniqueIds` says that `ClientId` is injective. It is an explicit hypothesis of
those theorems, because the code's ids are readings of the clock. Without it they
are false: two clients of one reading share an entry of the room's map, the
second takes it from the first, and the first to leave deletes the other's, which
then waits at its pumps without a seat (`SeatedUntilClosed`; give `ClientId` one
value for both clients in `MCChat` to see it).

**Chat.** `TypeOK` is not inductive: `Head` of a channel is a client, and the
room a client forwards to is in range, only because of where the goroutine is.
`Types` adds what each program counter promises of its local variables. For
safety, `SafetyInv` adds

- `JoinInv`: a client is in at most one place on its way in (the hub's channel,
  the hub's hand, a room's channel, a room's map), each place only before its
  channel is closed. This is why a client is never closed twice and never
  seated again after it left.
- `CastInv`: what a room's goroutine still has to send to is in its map, so
  only the room's own goroutine can close it, and does not before the send.
- `LookupInv`: what `Hub.Run` looked up is the room its map holds, because only
  `Hub.Run` itself changes the map. This is why neither a sweep nor a stop can
  come between a lookup and its forward; the mutant `HubSweep_Concurrent`, a
  sweep beside the loop, breaks it.

The refinement maps `seats` to the maps of the rooms and `left` to the clients
whose channel is closed. A served registration is a `Join`, a leave and an
eviction are a `Leave`, except that an eviction whose client is gone already
cannot happen, and every other step stutters.

`HubWaitsOnReader` is the safety half of `HubReturns`, and proved where liveness
cannot be: the hub only ever waits on a room that runs (`LookupInv`) and that can
go on to its `select` (`TodoInv`). No sweep, stop or eviction leaves it on a
channel that nobody reads.

With a caller of `CreateRoom` and `DeleteRoom` (`AdminSpec`), `LookupInv` and
`CastInv` are false: a looked-up room may be gone, and a room may be about to
send to a client that is closed already. What is left, and is inductive, is
`AdminInv`: `Types`, `JoinInv`, and `TargetsInv`, which only says that whom a
room sends to or evicts is in its map or closed. That is enough for the
contract, as the eviction of a closed client panics and moves nobody, and
`DeleteRoom` is one `Empty`. A registration can now be lost in two
ways: in a forward that panics, so `PlaceInv` holds until then (`AdminPlaceInv`),
and in the channel of a closed room that nobody reads any more. `RoomLife` says
which rooms those are: one that has returned was closed, one that was never
started has nothing in its channel, and neither the map nor `Hub.Run` names a
room that was never started. The two give `SeatedOrStranded`. `OneSeatAlways` says what the contract is worth to a
client: it has one seat at most, in one room, before its channel is closed and
never after. It is proved from `Membership` alone and carried over.

`SeatedUntilClosed` needs more than that nothing is in two places: that an
accepted client is in one (`PlaceInv`). The step that could lose it is the
hub's, between taking a registration and forwarding it, so `PlaceInv` also says
that the hub holds none when it is back at its `select`. `SenderOrder` follows
from `OrderInv`: a reader numbers its frames, no message in any buffer has a
number beyond its sender's counter, and one with the counter's own number is
only where the sender has nothing left to send.

**Sharded hub.** `ShardInv` reads off the place of a goroutine what its call has
done to that hub (`ReachInv`), and off `pos` which goroutines there are
(`StartInv`); whoever closed a `stop` is a call of `Stop` (`StopInv`). `WakeInv`
is kept apart, as it needs of the calls only their types: a channel never holds
more than its capacity, and a goroutine goes to sleep in `wg.Wait` only where it
saw somebody in `CreateRoom`, who wakes all sleepers when leaving. That is what
`CallsReturn` rests on for `Stop`.

**Auth.** `AuthInv` says that the request that generated a pair is alone in
holding it until it hands it out (`CallInv`), and writes its key no earlier than
it generated it. From this: a key never ends before its refresh token unless a
refresh is replacing it or has replaced it (`SessionInv`), an entry never ends
before the access token (`BlackInv`), and no step but the delivery of a pair
writes its key (`NoRevival`). `ReplacedIsSpent` needs two facts more: a pair
descends from one that was handed out (`Lineage`), and a refresh about to store
the new pair has deleted the old key, which nobody writes again (`SpentInv`). It
bounds the double exchange of `auth_rotation`: only a refresh that passed its
check before can still hand out a second pair. The contract is refined from the same invariant:
four actions show, the delivery of a pair, the deletion of a key, a blacklist
entry, and the clock.

**Registration.** What a key holds has to be traced back to the request that
stored it. `KeyInv` says that every key that was written holds the code of some
store for its number and ends a lifetime after it, and that without failures
this store is the last one (`Last`): no request that arrived after its answer has
stored. Two requests that overlap may both be last. `SendInv` and `StoreInv` tie
the history to the places of the requests, and `PassInv` keeps for a request past
the comparison what the comparison saw.

**Lifecycle.** What is open follows from where `main` is: the start opens a
prefix of `Order`, and every list of cleanups is what is left to close of such a
prefix, backwards (`Remaining`, over the resources whose cleanup closes
something; `OpenInv`). The server runs between the two, and `Shutdown` returns
only when nobody is awaited (`ServeInv`); the hub and the log stay open after the
first handler began, which is what detached handlers and pumps rest on. `HubsInv`
adds that whoever serves has the hubs of the file, `WsInv` what a connection owes
to the place of its handler.

Only model-checked: the liveness properties (`RegistrationSettles`, `HubReturns`,
`PumpsStop`, `ClosedRoomsExit`, `CallsReturn`, `SignalEnds`,
`SubscriptionsEnd`), as the prover does not do fairness. Every invariant and every
action property of the runs that pass is a theorem.

## Findings

Each is a run TLC stops with a trace; `PROJECT.json` quotes the comment.

- `send_panic`. `BroadcastToRoom` and `Send` send without a lock to a channel
  the room may have closed. The panic is on a goroutine nothing recovers.
- `ghost_member`. A leave may overtake the join of the same client, in the hub
  or in the room; the client is then seated with its connection down.
- `sweep_join`. A room swept with a join in its channel seats the client after
  it left the hub's map.
- `auth_rotation`. Two refreshes of one token both succeed.
- `auth_logout`. A logout leaves the refresh token usable once the access
  token has expired.

Met while modelling, and visible without a run:

- With a shard count of 1, `GetHub(1)` indexes past the slice, after the upgrade
  (`ChatSharHubServices.go:51`); `NoOrphanConnection` names the case. The key
  `shard_count` is bound by a `yaml` tag, which viper does not read, so it is
  ignored and the count is 16 unless the file spells the key `shardCount`.
- A number registers twice, although the service has a check for it
  (`UserBasicServiceImpl.go:33`, "检查电话是否已存在") and the locales a message
  (`DUPLIC_PHONE`): `FindByPhone` looks into a table nothing writes. The two need
  not even be concurrent.
- Of two requests for a code of one number that overlap, the code answered last
  may be the one stored first, which is then refused (`CommonService.go:32-34`).
  A code whose `Set` failed is answered all the same.
- `Logout` is mounted without `JwtMiddleware` and answers 401.
- `getUserList2` binds into a pointer to a pointer, which the validator refuses:
  it answers 400 to every request.
- `Login` looks `USER_NOT_FOUND_IN_DB` up at the top level of the locale,
  while the message is under `errors`: the client gets the key.
- The `postgres` driver passes `Validate`, has a DSN, and can never be opened
  by `mysql.Open`; an empty driver passes too, and so does a name `DSN` does not
  know: both give an empty DSN, which means MySQL at its default address, whatever
  host the file gives (`InitAppConfig.go:57-58`).
- The cleanup of the hub only logs (`container/Provide.go:37`), although `main`
  speaks of a graceful shutdown (`main.go:82`, "优雅关闭"): nothing calls
  `ShardedHub.Stop`, so the rooms and pumps end with the process and no peer gets
  a close frame.
- A body that is not JSON is answered in Chinese to any language
  (`Validator.go:56`, `:82`); a field without a translation is named by its bare
  key (`GetFieldName`); and `Accept-Language` is looked up as it comes
  (`middleware.go:40`), so `en-US,en;q=0.9` falls back to Chinese.
- A token lifetime that does not parse is taken for 0, without a message.

## Not modelled

- `SendJSON` and `Close` of a client, with `c.mu` and the ping that is written
  without it: nothing calls them, and what two writers do to one websocket is
  the library's matter.
- `UpdateUser` reads and saves a row in two calls; no handler calls it. The
  searches and the pagination read.
- `GetRoom`, `ListRooms`, the accessors of `Room` and `IsAlive`: they read.
  `client.lastPing` is only read by `IsAlive`.
- `PubMessage`'s goroutine and the gin context it keeps: it depends on gin's pool.
- The texts of the answers and their languages (`i18n`, `LanguageMiddleware`,
  `Validator.go`): tables without a state. What they leave to a race, the tag
  function of the validator, is `BindPanics`.
- The goroutine of a subscription after the cleanup of Redis: it may run on until
  its 30 seconds are over or the process ends, and what its handler of messages
  may use then is not a property (`Uses` is about handlers and pumps).
- MySQL, JWT signatures, JSON and websocket framing: taken to work. Which body
  a validator accepts.
- Kafka, logging, DTOs, the chat room service and its repository (both empty):
  no state, or nothing calls them.

## Plan

Done, in this order: `ChatModels`, `ClientPumps`, `RoomLoop`, `HubLoop`,
`Membership`, `ChatSystem` with its runs, the three chat proof modules;
`AuthSession`, `AppLifecycle` with `AppProcess`, and `Registration`, each with
its run and its proofs; `SessionContract` and its refinement; `HttpServer` and
the configuration; `ShardedHub` and its proofs; `ChatAdmin`; the proofs
of `SeatedUntilClosed`, `SenderOrder` and the type invariant of `AppProcess`; the
proofs of `ChatAdmin`, of the types and the wake-up of `ShardedHub`, and of
`HubWaitsOnReader` and `ReplacedIsSpent`.

Next:

1. `UserRecords`: `UpdateUser`, its two calls against deletes and other updates.
2. `SendJSON` and `Close`: `c.mu`, the closed flag and the ping of `WritePump`.
3. `Pagination`: the page window against a reference definition.
4. The safety halves of the other liveness properties, as `HubWaitsOnReader` is of
   `HubReturns`: what every pump, subscription and call waits on can still come.
