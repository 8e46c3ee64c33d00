# A verification of automation-remote-controller

TLA+ modules of the core of the repository, TLC configurations that
check them, and TLAPS proofs. `PROJECT.json` maps every definition to the lines
of the source it models.

Run a check with `tlc -config pool.cfg MCConnPool`, the proofs with
`tlapm ConnPoolProofs.tla`.

## 1. The system

Three programs and a few shared packages:

    telegram user <-> rc-tg-bot <-gRPC stream-> remote-control-client <-> PLC
                          |
                      PostgreSQL  <->  user-account-api <- HTTP (registration)

| component | state | operations | shared with |
|---|---|---|---|
| PLC connection pool (`plc/connpool.go`) | `numOpen`, `maxOpen`, `connRequests`, `closed`, one channel per request | `conn`, `releaseConn`, `Close`, the three calls around them | the reading and the writing goroutine of the poller |
| PLC poller (`plc/plc.go`) | rise triggers, the position in the list of tags | `continuousRead`, `continuousWrite` | channels `sendChan` (1) and `receiveChan` (0) with the server stream |
| server stream of the client (`client/client.go`) | `s.stream`, unprotected | `continuousSend`, `continuousRecv`, `reconnect` | the bot server; the poller's channels |
| streams in the bot server (`event_bistream.go`, `client_events.go`) | per stream: `Recv`, `Send`, `Err`, `IsNotify`, `chatID`; for all: `clientsMap` | `EventStreaming`, its reader, `ContinuousReadAndNotify`, `SendAction` | the bot (through the map), the notifier (channel of 1) |
| the bot (`bot.go`, `handlers.go`, `utils.go`) | one goroutine, last message per user | `/menu`, `/start`, `/stop`, status, lamps; routing | the map; the database |
| accounts (`internal/user-account`) | tables `users`, `clients` | register, authenticate, register a client | the database |
| processes (`cmd/*/main.go`, `configs/config.go`, `grpc.go`, `user-account/server/server.go`) | the configuration, a signal, the servers' connections, the timers of requests and shutdown | configure, start, serve, stop, release; give up a request | everything each of them starts |
| actions (`pkg/model/event.go`) | none | name to number and back | the bot's buttons, the payload of a command, the client's configuration |
| certificates and tokens (`pkg/auth`) | none | generate, parse | the client's configuration, `X-Username`, `X-ClientID` |
| collections (`pkg/collections`) | map under an RWMutex | `Get`, `Put`; iterators without a caller | the bot server |

What is hard in it:

- **concurrency**: callers of the pool leave its lock for network calls; three
  goroutines per stream meet on unbuffered channels; one goroutine serves all
  users; two goroutines of the client reconnect the same field;
- **failure**: dials, closes and sends fail or time out; clients disconnect;
  `logger.Fatal` and nil dereferences end the process, and only the database is
  left afterwards;
- **ordering**: streams are replaced in the map while they are in use; the
  database row, the map and the flag of a stream are written one after another;
- **time**: a request is given up while its goroutine goes on; a shutdown waits for
  requests and streams, but not for ever;
- **waiting**: queued callers of the pool, `SendAction`, the channel of
  notifications and `GracefulStop` wait without a timeout of their own.

What makes each part correct:

- pool: every slot and every request is accounted for in every interleaving;
  the limit is kept; waiting callers are served as long as slots remain;
- bot server: a command reaches a client of the user who gave it and no other;
  `/stop` silences the streams it can find; an error or a lost client ends its handler; the bot comes
  back for the next update;
- bot menus: every button that is shown can be served; the bot cleans up its own
  messages and nobody else's;
- client: a lost stream is replaced, and not by ever more of them; commands
  arrive; an edge of a tag is reported once, a command reaches every device;
- processes: a signal ends them; what they had begun is finished before their
  resources are closed;
- accounts and certificates: a certificate that was handed out is served by the
  bot server, and as its owner's.

## 2. What is modelled

| module | models | proofs | TLC instance |
|---|---|---|---|
| `ConnPool` | `plc/connpool.go` | `ConnPoolProofs` | `MCConnPool` |
| `ConnLimiter` | what the pool promises its callers | (refined by `ConnPool`) | |
| `EventHub` | `event_bistream.go`, `client_events.go`, the handlers that use streams | `EventHubProofs` | `MCEventHub` |
| `Switchboard` | what the bot server promises its users | (refined by `EventHub`) | |
| `StreamServer` | the bot server as one user's client meets it | (refined by `EventHub`, extended by `RemoteClient`) | |
| `BotMenu` | `handlers.go` (menus), routing, chat binding | `BotMenuProofs` | `MCBotMenu` |
| `RemoteClient` | `client/client.go`, with `StreamServer` | `RemoteClientProofs` | `MCRemoteClient` |
| `PlcPoll` | `plc/plc.go` | `PlcPollProofs` | `MCPlcPoll` |
| `EventTypes` | `pkg/model/event.go` | `BotMenuProofs` | `MCBotMenu`, with `MCEventTypes` |
| `ClientApp` | `cmd/remote-control-client`: `PlcPoll` and `RemoteClient` composed | `ClientAppProofs` | `MCClientApp` |
| `Config` | the three `configs/config.go` | `ProcessProofs` | `MCProcess` |
| `Process` | the three `main.go`, `grpc.go`, the limits of `user-account/server` | `ProcessProofs` | `MCProcess` |
| `Accounts` | `internal/user-account`, certificates, identification | `AccountsProofs` | `MCAccounts` |
| `Registry` | what accounts and identification promise together | (refined by `Accounts`) | |

### ConnPool, with ConnLimiter

`ConnPool` models `plc/connpool.go` completely. A variable stands for each
field of the struct (`maxOpen`, `numOpen`, `connRequests`, `closed`), `request`
for the channel each caller made, `pc` for the place of each goroutine, and
two ghost counters for what the code loses track of: `leaked` (slots counted in
`numOpen` that nobody owns) and `orphans` (open connections that nobody knows).
`panicked` is the end of the process.

A step is one stretch between two unlocks, or one network call:

    conn:         Refuse | Enqueue -> ReceiveConn | ReceiveErr | ReceiveClosed
                         | LetThrough -> OpenOk | OpenFail
    operation:    Use
    releaseConn:  CloseFail | Release | TakeRequest -> HandoffOk | HandoffErr
                                                     | HandoffPanic
    Close, SetMaxOpenConns

Timeouts are the nondeterminism of `OpenFail`, `CloseFail` and `HandoffErr`.
A dial given up may still produce a connection (`LateConnection`).

`ConnLimiter` is what the pool promises: callers take, pass on, give back or
lose one slot at a time, and slots taken stay under the limit plus a constant.
`ConnPool` implements it with `holders <- Owners`, `taken <- |Owners| + leaked`
(not `numOpen`: what the code counts is shown to be the same number by
`SlotAccounting`) and an overshoot of the number of callers.

### EventHub

`EventHub` models the bot server around its map of streams. Per stream,
`handler` is the goroutine of `EventStreaming`, `reader` the one that loops on
`stream.Recv`, `forwarder` the one of `ContinuousReadAndNotify`; `bot` is the
single goroutine of updates, `queued` the notification channel. `Recv`, `Send`
and `Err` are unbuffered, so a send and its receive are one step of both
goroutines (`TakeEvent`, `TakeCommand`, `TakeReaderError`,
`TakeForwarderError`). `/start` and `/stop` are three steps (`SetNotification`,
`LookupStream`, `SetFlag`), lampSwitch two (`LampSwitch`, `TakeCommand`).

A stream's `owner` is the user of the row that the client id in its metadata leads
to, its `name` the user name in the same metadata. Both come from the certificate as
the client sends them; the server compares one with the other, and neither with the
certificate of the TLS connection (`event_bistream.go:51-65`). `unreached` is a ghost:
the streams that the last `/start` or `/stop` of their user had no way to, because
they were opened before it and were not in the map when it looked.

A panic or `logger.Fatal` ends the process (`Die`). What a crash leaves is the
column `notify_enabled`, and the next process (`Restart`) starts with it.

The hub is shown to implement two abstract specifications, one for each side.

`Switchboard` is what the server promises its users: one is served at a time, a
wish to be notified reaches a session of his, a command is carried to a session of
his, and the server panics only over a user who has had no session since it
started. There are no names in it and no map. `EventHub` implements it with the
streams as sessions, connected from their registration on.

`StreamServer` is what the client application of one user meets: streams are
opened, registered in any order, and fail; the bot looks up the stream registered
last and writes to that one, which may have been replaced since (`target`). A
stream whose client has gone before its handler got to the map is registered
nevertheless (`dropped`), because `EventStreaming` looks its user up under the
server's context and not under the stream's. `ImplementsServer` instantiates it
once for every user, and what the other users do is a stutter there.

Left out of this module: menus and last messages and the routing of updates (all in
`BotMenu`), the chat a stream posts to, and the `ctx.Done` branches: the context
is cancelled when no stream is served (the guard of `Release` in `Process`).

### BotMenu

`BotMenu` models the other handlers of the bot and the routing of updates to
them. One goroutine handles all updates, so a handler is one step. `chat` is the
column `chat_id`, `lastMsg` the map of last messages, `connected` says for whom the
map of streams has an entry: a row needs a chat for that (`Connect`), and never
loses it again. The rest of the state is telegram:
the messages that a chat shows (`shown`, numbered per chat by `sent`), and
the pages it has ever shown (`posted`), because their buttons can be pressed at
any later time and by anybody in the chat. `strays` is a ghost that counts the
messages left behind.

Buttons carry the data that the handlers format into them; `Route` and `Needs`
are what `ParseReqHandler` and `ParseReqParams` make of these. Every answer may
fail, which ends the process (`Fatal`, `ForgetAll`), every deletion may fail
unseen, and a failing query makes anybody a stranger (`IsUserExists`, the second
disjunct of `MenuHandler`). A command without a stream ends the process as well.

### RemoteClient

`sender` and `receiver` are the two goroutines of `client.go`, `stream` the field
they share, `senderUses` and `receiverUses` what each has read out of it. The module
extends `StreamServer`: every step of the server is one that the hub was shown to
take, joined with what it means for the client. `opened` are the streams that
the client has opened, `inbox` the commands on their way to it.

    continuousSend: TakeNotification -> SendOk | SendErr -> SenderReconnect
    continuousRecv: CheckStream -> RecvOk -> Deliver
                                 | RecvErr -> ReceiverReconnect
    network:        ServerAlone (Accept, LookUp, Up), Command (Write),
                    Break (Fail, Down)

A dial fails while the server is away, and may fail while it is there. A
reconnection stores a new stream and closes nothing. Streams register in any
order, because each has a connection of its own. The first store of the
field can tear (`TornUse`): an interface value is two words, and both goroutines
access them without a lock.

### PlcPoll

`reader`, `pos` and `riseTrig` are `continuousRead`, its place in the list of
notifications and its memory of the tags; `command` and `done` are
`continuousWrite`. `memory` is the controller's and changes at any time. The pool
appears with what `ConnPool` shows of it: a call returns as long as fewer than
`MaxOpen` slots are lost (`PoolServes`), and a call may lose one: when it fails, and
after it has succeeded, when its connection cannot be closed. Two
ghosts serve the properties: `rested`, whether a tag was low since its last
report, and `attempted`, the devices a command was written to.

`EventTypes` is where the action of a command comes from. A button's text is
parsed without case to a number, an unknown one to `Empty`; the number travels,
and the client looks its name up in lower case among the values of the device.
Lower case itself (`ToLower`) is a parameter.

### ClientApp

`PlcPoll` and `RemoteClient` were each specified with the other as environment:
`PlcPoll` has actions `Taken` and `Receive`, `RemoteClient` has `Notify` and
`Deliver`. `ClientApp` instantiates both, with one variable `queued` for `sendChan`,
and makes every one of these a step of both sides:

    Report:      Poller!SendRise and Client!Notify
    ReportTaken: Poller!Taken and Client!TakeNotification
    HandOver(c): Client!Deliver and Poller!Receive(c)    (no buffer: one step)

The other steps leave the other side alone. Fairness is that of the four
goroutines, and no more: what one side assumed of the other has to follow.

### Config and Process

`Config` has, for each program, the tables that its `configs/config.go` consists
of, and the precedence in which viper looks a key up (`Source`). A value is
abstracted to where it comes from, which is all that validation
needs; `settings` of `Process` holds the flags, the environment and the
file that a program was started with. That viper writes the names of variables in capitals
(`BindEnv`), and that `postProcessing` comes after `Unmarshal` (`newConfig`), are in it.

`Process` is the life of each of the three processes. `phase` follows `main` and
the goroutine that waits for the signal:

    configuring -> starting -> running -> serving -> stopping -> releasing -> ended
                \-> failed (Fatal, anywhere)              \-> forced <-/

`stopping` is `e.Shutdown`, `grpcServer.GracefulStop` or `conn.Close`; `releasing` is
`db.Close` and `serverStopCtx`. `conn` is what the server has of each connection: held
by its client, handled, or abandoned after the time limit of the middleware, whose
goroutine goes on. `age` and `grace` count ticks of a request and of the shutdown; a
tick waits for every timer that is due. What a stream of the bot does is `EventHub`;
here it is held by its client until that leaves it.

### Accounts

The tables `users` (`tgUser`, `hasChat`) and `clients` are what is kept. `call`
holds the concurrent registrations of clients: `FindTGName`, `SaveClient` and
`GenerateCert` are the three steps of `NewClient`, each of which can fail (`Fail`,
also after the row was written), be given up by the HTTP server (`Timeout`) or
be cut off by the end of the process (`Restart`). A certificate is the pair that
`GenerateCert` writes and the client sends on as `X-Username` and `X-ClientID`;
`Identified` is what the bot server answers to it.

`Registry` is what both programs promise together: owners register, become
reachable, and are granted certificates with ids of their own, which are served
from then on. Nothing that is stored takes that back; the ten years for which the
certificate itself is valid (`pkg/auth/auth.go:109`) belong to TLS and are outside. Calls, failures and time limits are stutters of it.

## 3. Runs

| run | instance | states | shows |
|---|---|---|---|
| `pool` | 3 callers; limits none, 1, 2, 4; 2 lost slots, 1 late connection | 10,261 | the pool's invariants, `AnswerTakenByWaiter`, refinement of `ConnLimiter`, `QueueMoves`, `CloseReleasesWaiters` |
| `hub_safety` | 2 users, 2 streams, channel of 1 | 1,038,113 | `HandlerEndsForCause`, `FlagMissesOnlyUnreached`, refinement of `Switchboard` and, per user, of `StreamServer` |
| `hub_liveness` | 1 user, 2 streams | 45,678 | `ErrorEndsHandler`, `DisconnectEndsHandler`, `BotWaitsOnlyForEnded` |
| `bot_menu` | 2 users, 2 chats, 1 lamp; 4 and 1 messages | 325,474 | `ButtonsServed`, `MessagesBounded`, `OwnMessagesDeleted` |
| `client` | 4 streams, 1 failure | 428,838 | `StreamsBounded`, `ClientReconnects`, `NotificationsLeave` |
| `plc` | 2 tags, one configured twice; 3 devices, two of one name; 2 slots | 40,140 | `ReportsAreRises`, `EveryDeviceAttempted`, `RisesReported` |
| `client_app` | 1 tag, 1 lamp, pool of 1; 2 streams, 1 failure | 241,760 | `CommandsTaken`, `RisesReported` |
| `process` | 2 connections; 15 s, 25 s, 30 s in ticks of 5 s; the shipped files | 12,654 | `InProgressAnswered`, `SignalEndsProcess` |
| `account_safety` | 2 users, 2 clients, 2 calls, 3 ids | 4,570 | `IssuedServed`, refinement of `Registry` |
| `pool_late_open` | 2 callers, limit 4 (as shipped), 4 late connections | | violated: `PlcLimit` |
| `hub_bot_stuck` | 1 user, 1 stream | | violated: `BotServesUpdates` |
| `client_commands_lost` | 4 streams, 1 failure | | violated: `CommandsArrive` |

Every passing run but `hub_liveness` and `client_app` also checks the `TypeOK` of
its module. `OvershootBound`, `StrandedOnlyByLeak`, `CommandToOwner` and
`OwnersDistinct` are in no run: they are proved, and what the runs check
implies them or says more.

**Pool.** `SlotAccounting` (`numOpen` is owners plus losses), `QueueOnlyWhenFull`,
`ImplementsLimiter` (the race of check and count passes the limit by less than the
number of callers), `RequestNotLost` (an unanswered request is in the map or with
exactly one goroutine), `QueueNeedsLosses` (the shipped sizing, four slots for two
callers, never queues and never panics before three slots are lost),
`AnswerTakenByWaiter` (an answer meets its waiter before anything else happens to
its channel).

**Hub.** `ImplementsSwitchboard`: a command is written only to a stream identified
as one of the user who gave it, however often streams replace each other between
the lookup and the send, and the nil pointer of an unknown user is met only by one
who has had no stream. `ImplementsServer`: no client meets anything that
`RemoteClient` did not expect, whatever the other clients do. A handler returns only for an error or a lost client, and does return
then. `FlagMissesOnlyUnreached`: through reconnections,
replacements, late registrations and crashes between the row and the flag, the flag of
a stream agrees with the row of its user outside `/start` and `/stop`, unless
the last of these could not find the stream. The next one that does, or the end of the
stream, ends the exception; a stream opened after the command never falls under it.

**Menus.** `ButtonsServed`: a button pressed at any later time finds a handler and
every parameter that handler indexes. `MessagesBounded`: of the menus' messages (answers
to `/start` and `/stop` and notifications are not counted), at most one per
user stays in the chats, plus one for every status, failed deletion, change
of chat and restart. `OwnMessagesDeleted`: the last message is remembered by
user, without its chat, and deleted in the chat of the update; it is the user's
own unless the user has changed chats.

**Client.** Each failure adds at most one stream to the ones open; with a server
that stays up the receiver ends up listening to a working stream; the poller is
never held up for ever by a notification.

**Poller.** A tag is reported once for every rise, also after failed reads and with
a tag configured twice; a command ends when every device of its name was
written to, whichever write failed; on a controller that goes on answering a rise
that lasts is reported, as long as the pool has slots.

**Client application.** `PlcPoll` and `RemoteClient` each took something of the other
for granted; here nothing is. `CommandsTaken` is what `RemoteClient` assumed of the
writer: it takes every command, until the pool has lost its slots. Then the writer
hangs in a call, the receiver behind it, and the client no longer renews its stream.
`RisesReported` is what `PlcPoll` assumed of the sender, end to end: a rise that lasts
is put into the channel, however often dials and sends fail and also while the receiver
hangs, as long as the controller answers and the pool has slots.

**Processes.** `InProgressAnswered`: a request that is handled when the signal comes
gets its answer, if only 503, before the process ends, forced or not.
`SignalEndsProcess`: a signal ends the process whatever clients and handlers do.

**Accounts.** Whatever fails or is retried, a certificate a user holds has its row
and is served once the owner has a chat. `ImplementsRegistry`: no two certificates
have the same id, certificates of two users' clients name two telegram users, and
whoever is served once is not refused later.

### Findings

The violated properties are sentences of the repository, quoted with the
findings in `PROJECT.json`:

- connections that open after the dial timed out are never closed and pass the
  limit, without any race;
- a command to a disconnected client blocks the bot for all users;
- after a failure that both goroutines of the client notice, the server may send
  commands to a stream that the client does not read. The same comes of a stream
  whose client has gone, registered over its successor (`dropped`), and of a
  command looked up before the client reconnected (`target`).

Modelled (but for the chats of streams), and not stated as properties, because no
sentence of the repository promises otherwise, or one request or one start shows it:

- a slot whose close or handoff failed is lost (`connpool.go:113`, `:131`), and after
  `maxOpen` losses a caller waits for ever: the exceptions in `QueueMoves` and
  `CommandsTaken`;
- `/stop` reaches only the stream that it finds in the map (`handlers.go:94-102`).
  A stream that has read the row (`event_bistream.go:58`) before the command wrote it
  and is put into the map (74) after the command looked there keeps the old flag: it may
  be its user's only stream, and goes on posting after `/stop`. So does a stream that
  another had replaced. These are the exceptions in `FlagMissesOnlyUnreached`;
- with a client connected, `GracefulStop` of the bot returns only when the client
  leaves: the context that would end its stream is cancelled afterwards
  (`rc-tg-bot/main.go:66-68`), and the process is forced to end after 30 s;
- a signal before the bot serves lets `Serve` fail, and `Fatal` race with the
  regular end (`StopEarly`); a second signal has no effect;
- a handler that was given up after 15 s may meet a closed database
  (`user-account-api/main.go:59`): `Release` waits for what is owed an answer only;
- `DOMAIN_NAME`, which the comments document (`user-account/configs/config.go:18`, `:60`),
  has no effect: it becomes an alias after the configuration was read. Nor has
  `SERVER_PKey` (`tg-bot/configs/config.go:19`), which viper looks for in capitals
  (`newConfig`, `BindEnv` of `Config`);
- a command, `/start` or `/stop` of a user without a stream dereferences nil and
  ends the server (`handlers.go:77`, `:102`, `:270`): `Panic` of `Switchboard`, which
  needs a user without any stream since the start;
- a user whose `chat_id` is NULL gets "Internal error" and not "please register
  with telegram": the scan into `int64` fails first (`event_bistream.go:58-70`);
- the row of a client is written before its certificate is made: after a failure
  or a timeout the name stays taken (`clients/service.go:46-68`);
- the chat of a stream is read once (`event_bistream.go:58`) and used from the
  registration (74) on: the stream goes on posting into a chat its user has left, which
  another user may have taken since, even between the two. The chats of streams are
  not modelled;
- a device without a value for an action is written an empty one
  (`plc.go:83-88`).

### Bounds

Pool: `MaxLeaked` and `MaxOrphans` cap ghost counters and bound only failures.
Three callers are enough for the pool's races: one in the gap, one queued and
one releasing, which is every pair of roles and a bystander; the theorems cover
any number. Limits below, at and above the number of callers, and a negative one,
make the queue used, unused and absent.

Hub: `Streams` bounds the number of connections in each process of the server: two
are enough for one stream to replace another, of the same or of another user.
`NotifyCap` is the code's own 1. `Settings` restricts what users ask for, where
the question is not about it.

Menus: `MaxMessages` bounds the messages of the bot in each chat. Four in one
chat reach every page (menu, light, lamp, switch); one in the other lets a user
change chats or two users swap them. Messages are numbered in each chat, as in
supergroups: with numbers unique across chats a message of another user could
never be hit. One lamp stands for the three of `lightControl`. `Strangers` is
empty in the run, because a failing query makes a user a stranger; the proofs
keep it arbitrary.

Client: `MaxBreaks` failures can open at most `2 + 2 * MaxBreaks` streams, which is
the size of `Streams`, so a dial never fails for want of one.

Poller: `MaxOpen` is 2 and not the shipped 4, which shortens the way to a pool
without slots; no action depends on the number otherwise. The configuration has a
tag twice, two devices of one name on one register, and a device without a
value for an action.

Client application: two streams, the first and one reconnection by either goroutine;
when both are open, dials only fail, which is how the sender and the receiver meet
a server that is gone for good. Which stream a dial gives does not matter, so they are opened
in order, and states in which the server registers a dead stream, remembers a replaced
one or looks a command up beside a registration are cut off (`InOrder`): the client does not see the
difference, and the run `client` has them. `RemoteClientProofs` and `ClientAppProofs` have no such
bound. One slot in the pool makes `PoolServes` fail after one loss.

Process: one connection is enough for each property; two let one be abandoned
while another is handled. The tick divides all three limits. The settings are the
files of the repository, with and without the token, so that validation fails in some.

Accounts: two users and two calls are every pair of concurrent registrations;
three ids allow one of them to be retried.

Deadlock is not checked for the pool, the hub, the client and the processes, where
the process may end and every client be gone.

### Fairness

Pool: weak fairness of every step of a call that has begun. The Go scheduler
runs every runnable goroutine, and no network call outlasts `connTimeout`,
which is 5 s or 3 s, never zero. Nothing makes a goroutine start a call.
Which request is served is up to the iteration of a Go map, so no fairness among
requests is assumed, and `QueueMoves` speaks of the queue, not of a request.

Hub: weak fairness of each goroutine's own steps. Strong fairness where Go gives
it: a `select` with several ready cases picks at random, so `Err` is not starved
by `Send`; blocked senders of a channel are served in order, so a forwarder gets
its turn on the notification channel; a client that is gone sent finitely many
events, so `Recv` ends in its error. Clients, users and failures have no
fairness, and nobody has to start the server again.

Client: weak fairness of both goroutines: a dial ends, a send ends, and the
controller's writer takes what it is given. Strong fairness of the receiver's
successful reconnection: dials to a server that is there do not fail for ever. The server, the network and the
poller need not do anything; `ClientReconnects` is conditional on a server that
stays up.

Poller: weak fairness of both goroutines and of `Taken`, the server stream that
empties the channel, which is what `NotificationsLeave` of `RemoteClient` shows.
Neither the controller nor the commands are fair; `RisesReported` is conditional
on a controller that goes on answering.

Client application: weak fairness of the four goroutines, reader, writer, sender and
receiver, each as a whole. It does not follow from that of the parts, and
`CommandsTaken` is checked for that reason.

Process: weak fairness of main and its goroutines (each of their steps ends by
itself or is bounded by the timer), of time and of the middleware's timer. Clients
and handlers have none.

`BotMenu` and `Accounts` have safety properties only.

## 4. Proofs

Each proof module shows that an inductive invariant holds, and draws the
properties from it. All of them hold for any values of the constants under the
named assumptions of the modules, which say of the sets no more than that the
none values are apart, of bounds that they are numbers, and of configurations
that they are well formed.

**`ConnPoolProofs`** (`CallersFinite`, `LimitsAreInts`, `BoundsAreNats`,
`NoCallerIsNone`). `SlotAccounting` alone is not inductive: a handoff to a caller
that already owns a slot would count one owner twice. `RequestProtocol` excludes
it: a channel that can be answered belongs to a waiting caller, requests in the
map and requests being served are disjoint, and no two goroutines serve the same
one. `FreshBeforeSetup` is needed because the limit changes once, and
`HandoffNeedsLosses` extends `QueueNeedsLosses` to the moment between queue and
panic. The inductive invariant is

    IndInv == TypeOK /\ RequestProtocol /\ FreshBeforeSetup /\ SlotAccounting
              /\ QueueOnlyWhenFull /\ OvershootBound /\ HandoffNeedsLosses

Lemma `OwnersStep` says what each action does to the set of slot owners (adds,
removes or exchanges one); the cardinality theorems of the library turn that
into the accounting. The named invariants, `AnswerTakenByWaiter` and the
refinement (`PoolImplementsLimiter`) follow.

**`EventHubProofs`.** `CommandToOwner` speaks of one moment; what makes it true is
that an owner is given to a stream once, with the name it is registered under
(`OwnersNamed`), so the map (`MapLeadsToOwn`) and whatever the bot still remembers
of it (`BotRemembers`) lead only to streams of the right user.
`FlagsFollow` says the same of flags: what a stream has read from the row holds until a
command writes it, which makes every stream of the user unreached; the lookup takes
the one it found out again, and from there to `SetFlag` the bot remembers both the stream
and the flag it is about to get.
`HubImplementsSwitchboard` needs two more parts: a user who ever had a stream in the
map still has one (`MapComplete`), so a panic is over a user without a session, and
a handler has a command in hand exactly while it sends (`SendsCommands`).
`HubImplementsServer` is proved for an arbitrary user: a step on a stream is a step of
its owner's server and a stutter of every other one; a command in the bot's
hands is its user's only (`BotRemembers`). A stream nobody has opened cannot have
failed, the last conjunct of `OwnersNamed`, without which `Open` could not be shown.

**`BotMenuProofs`.** Whatever a handler does in between, it ends by answering
below what it kept of its chat, or with the process (`Ends`). `BotInv` says that
every number of a chat is used
once (`NumbersUsed`) and that the message kept for a user, where it is
still shown in that chat, is the user's (`LastMsgOwned`).
`ButtonsServed` is a matter of the data of the buttons alone (`ButtonData`); that
their actions parse rests on lemmas about `EventTypes`: for any text the number
made of it has a name, and a text that parses reaches the value that the client's
file gives under it.
For `MessagesBounded`, `LeftCounted` counts the messages that the user's handlers will
no longer delete (`Left`, all but the last): a step adds at most one and counts it.

**`RemoteClientProofs`.** `StreamsBounded` is not inductive: two goroutines about
to reconnect may each open a stream. `ReconnectionsOwed` counts those
reconnections with the streams; a goroutine that opens one pays with what it owed,
and a failure closes one stream and makes each goroutine owe at most one.

**`PlcPollProofs`.** The poller's memory is older than the controller's, so the
invariant is not that a tag remembered as low is low, but that it has been low
since its last report, unless it is the one about to be reported
(`LowIsRemembered`, `LowHasRested`). For `EveryDeviceAttempted` the devices written to
are those of the command's name before the place of the writer (`AttemptedSoFar`).

**`ClientAppProofs`.** Every step of the client is a step or a
stutter of the poller and of the connection (lemmas `StepIsPollerStep`, `StepIsClientStep`),
which is how `ClientApp` was built.
The proof modules of the two are instantiated as well, and their theorems carried
over: `AppTypeCorrect`, `AppStreamsBounded`, `AppReportsRises` and
`AppAttemptsEveryDevice` are statements about the client as a whole. An instance's
specification is to the prover a formula of its own, hence `SamePoller` and
`SameClient`. With `HubImplementsServer` the chain is closed: the poller's
environment is the connection, the connection's is the hub.

**`ProcessProofs`** (`TimesAreNats`, `RequestsEndInGrace`: a request's limit is less
than the shutdown's). A request found by the shutdown is at least as old as the
shutdown (`CaughtAreOld`), and no age passes the limit, so none is left when the time
is over (`GraceCounts`).

**`AccountsProofs`.** A certificate is made for a row that was saved under the same
id for the same user (`CallsInOrder`), the name in it is the one in the user's
row, and neither row ever changes (`UniqueColumns`, `IssuedBacked`). For the
refinement of `Registry` the ids must also be shown to be granted once
(`IdsUnique`), against two calls that save the same one, and a chat to be a registered
user's (`ChatsOfUsers`).

Only model-checked: every liveness property (fairness and ENABLED are out of the
prover's reach), and the violated properties, whose counterexamples TLC gives. Every
invariant, action property and refinement of the passing runs is a theorem; the
theorems about `CommandToOwner`, `OvershootBound`, `StrandedOnlyByLeak`,
`OwnersDistinct` and the client's `App...` have no run of their own.

## 5. Plan

1. An abstract specification of the poller (rises in, commands out), refined by
   `PlcPoll`.
2. An abstract channel of commands between one user and his client, end to end: the
   bot's lookup, the stream, the pool. It can lose commands at the places that
   the findings name, and what remains to be said is what it never does (another
   device, another user's, twice).
3. The chats of streams: the row read by `Identify` and the chats of `BotMenu` with
   `Post`, as the other end of `RemoteClient`'s notifications.

## 6. Not modelled

Loggers and interceptors, the keys of the logger in the configuration, the
generated gRPC and swagger code, Docker and Makefile: no state of the system's own. TLS, X.509 and
JWT cryptography, PostgreSQL and the telegram and plc4x libraries are outside;
what the code assumes of them is part of the actions that call them. Except for
the torn first store in `RemoteClient`, data races on `bool` and pointer fields are
taken as atomic reads and writes in some order.
