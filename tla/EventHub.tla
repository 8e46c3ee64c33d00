------------------------------ MODULE EventHub ------------------------------
(***************************************************************************)
(* The telegram bot server: the gRPC streams of the client applications,   *)
(* the map that finds a user's stream, the bot that runs the users'        *)
(* commands, and the notifier that posts to their chats                    *)
(* (internal/tg-bot and cmd/rc-tg-bot).                                    *)
(*                                                                         *)
(* Every stream has three goroutines.  The handler (EventStreaming)        *)
(* selects between the stream's Err and Send channels, the reader passes   *)
(* received events to Recv, and the forwarder (ContinuousReadAndNotify)    *)
(* takes them from Recv and posts notifications.  All three channels are   *)
(* unbuffered: a send and its receive are one step.  One goroutine serves  *)
(* the updates of all users, one after another, and one drains the channel *)
(* of notifications.                                                       *)
(*                                                                         *)
(* A crash loses everything but the database, and the server is started    *)
(* again with what it finds there.  Shutdown is not part of this module:   *)
(* serverCtx is cancelled after every handler has returned                 *)
(* (cmd/rc-tg-bot/main.go:66-68), so the ctx.Done branches of the loops    *)
(* have nothing left to do.                                                *)
(***************************************************************************)
EXTENDS Integers

CONSTANTS
    Users,              \* telegram users with a row in the database
    Streams,            \* calls of EventStreaming: a bound on their number
    NotifyCap,          \* capacity of the notification channel
    Settings,           \* bound: what /start and /stop may set, of BOOLEAN
    None                \* no user, no stream

ASSUME NoneIsNone == None \notin Users \union Streams
ASSUME SettingsAreFlags == Settings \subseteq BOOLEAN
ASSUME NotifyCapPositive == NotifyCap \in Nat \ {0}

VARIABLES
    notifyEnabled,      \* column notify_enabled of table users
    \* the map clientsMap, and per stream its ClientEvents
    clients,            \* user -> last registered stream
    owner,              \* user whom the client id in the metadata belongs to
    name,               \* user name the client claims, the key in the map
    isNotify,           \* field IsNotify
    \* goroutines
    handler,            \* EventStreaming
    sending,            \* user whose command the handler is sending
    reader,             \* the goroutine in EventStreaming, or the event it offers
    forwarder,          \* ContinuousReadAndNotify
    broken,             \* the client has gone
    bot,                \* ServeAndNotify, first goroutine
    queued,             \* notifications in channel notification
    phase,              \* of the process
    \* history: streams that their user's last /start or /stop did not find
    unreached

streamVars == <<owner, name, isNotify, handler, sending, reader, forwarder,
                broken>>
vars == <<notifyEnabled, clients, streamVars, bot, queued, phase, unreached>>

\* Groups of variables, for UNCHANGED.
ids == <<owner, name>>
server == <<notifyEnabled, clients, bot, queued, phase, unreached>>

\* What a client sends: a notification, or one whose payload does not parse.
\* Events of other kinds are dropped like unwanted notifications.
Events == {"note", "badNote"}

Alive == phase = "running"

\* The memory of a new process.
NoStreams == [u \in Users |-> None]
ToAll(v) == [s \in Streams |-> v]
BotIdle == [at |-> "idle", user |-> None, stream |-> None, on |-> FALSE]

----------------------------------------------------------------------------
Init ==
    /\ notifyEnabled \in [Users -> BOOLEAN]
    /\ clients = NoStreams
    /\ owner = ToAll(None)
    /\ name = ToAll(None)
    /\ isNotify = ToAll(FALSE)
    /\ handler = ToAll("none")
    /\ sending = ToAll(None)
    /\ reader = ToAll("none")
    /\ forwarder = ToAll("none")
    /\ broken = ToAll(FALSE)
    /\ bot = BotIdle
    /\ queued = 0
    /\ phase = "running"
    /\ unreached = {}

\* The process ends: its memory and its streams are gone.
Die(p) ==
    /\ clients' = NoStreams
    /\ owner' = ToAll(None)
    /\ name' = ToAll(None)
    /\ isNotify' = ToAll(FALSE)
    /\ handler' = ToAll("none")
    /\ sending' = ToAll(None)
    /\ reader' = ToAll("none")
    /\ forwarder' = ToAll("none")
    /\ broken' = ToAll(FALSE)
    /\ bot' = BotIdle
    /\ queued' = 0
    /\ phase' = p
    /\ unreached' = {}
    /\ UNCHANGED notifyEnabled

(* Mutations of the actions below, each a mistake that code could plausibly *)
(* contain; no specification uses them.                                    *)
IdentifyAnyName(s, u, n) ==     \* the claimed name is not compared
    /\ Alive
    /\ handler[s] = "none"
    /\ handler' = [handler EXCEPT ![s] = "identified"]
    /\ owner' = [owner EXCEPT ![s] = u]
    /\ name' = [name EXCEPT ![s] = n]
    /\ isNotify' = [isNotify EXCEPT ![s] = notifyEnabled[u]]
    /\ UNCHANGED <<server, sending, reader, forwarder, broken>>

PostUnbounded(s) ==             \* the channel has no capacity
    /\ Alive
    /\ forwarder[s] = "posting"
    /\ queued' = queued + 1
    /\ forwarder' = [forwarder EXCEPT ![s] = "waiting"]
    /\ UNCHANGED <<notifyEnabled, clients, ids, isNotify, handler, sending,
                   reader, broken, bot, phase, unreached>>

IgnoreReaderError(s) ==         \* the reader tries again
    /\ Alive
    /\ handler[s] = "serving"
    /\ reader[s] = "failing"
    /\ reader' = [reader EXCEPT ![s] = "reading"]
    /\ UNCHANGED <<server, ids, isNotify, handler, sending, forwarder, broken>>

LogForwarderError(s) ==         \* the error is logged, the stream goes on
    /\ Alive
    /\ handler[s] = "serving"
    /\ forwarder[s] = "failing"
    /\ forwarder' = [forwarder EXCEPT ![s] = "done"]
    /\ UNCHANGED <<server, ids, isNotify, handler, sending, reader, broken>>

UnmapUser(s) ==                 \* the handler deletes its user's map entry
    /\ Alive
    /\ handler[s] = "serving"
    /\ reader[s] = "failing"
    /\ reader' = [reader EXCEPT ![s] = "done"]
    /\ handler' = [handler EXCEPT ![s] = "done"]
    /\ clients' = [clients EXCEPT ![name[s]] = None]
    /\ UNCHANGED <<notifyEnabled, ids, isNotify, sending, forwarder, broken, bot,
                   queued, phase, unreached>>

TakeCommandIfCurrent(s) ==      \* a replaced stream takes no commands
    /\ Alive
    /\ handler[s] = "serving"
    /\ bot.at = "sending" /\ bot.stream = s
    /\ clients[name[s]] = s
    /\ handler' = [handler EXCEPT ![s] = "sending"]
    /\ sending' = [sending EXCEPT ![s] = bot.user]
    /\ bot' = BotIdle
    /\ UNCHANGED <<notifyEnabled, clients, ids, isNotify, reader, forwarder,
                   broken, queued, phase, unreached>>

SendOnce(s) ==                  \* the handler does not loop
    /\ Alive
    /\ handler[s] = "sending"
    /\ handler' = [handler EXCEPT ![s] = "done"]
    /\ sending' = [sending EXCEPT ![s] = None]
    /\ UNCHANGED <<server, ids, isNotify, reader, forwarder, broken>>

KeepFlag ==                     \* the row is written, the flag is not
    /\ Alive
    /\ bot.at = "found"
    /\ bot' = BotIdle
    /\ UNCHANGED <<notifyEnabled, clients, streamVars, queued, phase, unreached>>

(* A stream comes up, and the client behind it goes away.                  *)

\* EventStreaming reads the row of user u, to whom the client id in the
\* metadata belongs, and compares the name the client claims with it.  The
\* certificate of the connection is not compared with the client id.  A client
\* that is turned away leaves nothing behind; the chat of the user is another
\* module's matter.
Identify(s, u, n) ==
    /\ Alive
    /\ handler[s] = "none"
    /\ n = u
    /\ handler' = [handler EXCEPT ![s] = "identified"]
    /\ owner' = [owner EXCEPT ![s] = u]
    /\ name' = [name EXCEPT ![s] = n]
    /\ isNotify' = [isNotify EXCEPT ![s] = notifyEnabled[u]]
    /\ UNCHANGED <<server, sending, reader, forwarder, broken>>

\* The forwarder starts, the stream is put into the map under the claimed
\* name, the reader starts.
Register(s) ==
    /\ Alive
    /\ handler[s] = "identified"
    /\ handler' = [handler EXCEPT ![s] = "serving"]
    /\ forwarder' = [forwarder EXCEPT ![s] = "waiting"]
    /\ clients' = [clients EXCEPT ![name[s]] = s]
    /\ reader' = [reader EXCEPT ![s] = "reading"]
    /\ UNCHANGED <<notifyEnabled, ids, isNotify, sending, broken, bot, queued,
                   phase, unreached>>

Disconnect(s) ==
    /\ Alive
    /\ handler[s] \in {"identified", "serving", "sending"}
    /\ ~broken[s]
    /\ broken' = [broken EXCEPT ![s] = TRUE]
    /\ UNCHANGED <<server, ids, isNotify, handler, sending, reader, forwarder>>

(* The reader: stream.Recv, then the send to Recv.                         *)

\* Events the client sent before it went away may still be read.
ReadEvent(s, e) ==
    /\ Alive
    /\ reader[s] = "reading"
    /\ reader' = [reader EXCEPT ![s] = e]
    /\ UNCHANGED <<server, ids, isNotify, handler, sending, forwarder, broken>>

ReadError(s) ==
    /\ Alive
    /\ reader[s] = "reading"
    /\ broken[s] \/ handler[s] = "done"
    /\ reader' = [reader EXCEPT ![s] = "failing"]
    /\ UNCHANGED <<server, ids, isNotify, handler, sending, forwarder, broken>>

(* The forwarder.                                                          *)

Forwarded(e, wanted) ==
    IF ~wanted THEN "waiting"
    ELSE IF e = "badNote" THEN "failing" ELSE "posting"

TakeEvent(s) ==
    /\ Alive
    /\ reader[s] \in Events
    /\ forwarder[s] = "waiting"
    /\ reader' = [reader EXCEPT ![s] = "reading"]
    /\ forwarder' = [forwarder EXCEPT ![s] = Forwarded(reader[s], isNotify[s])]
    /\ UNCHANGED <<server, ids, isNotify, handler, sending, broken>>

Post(s) ==
    /\ Alive
    /\ forwarder[s] = "posting"
    /\ queued < NotifyCap
    /\ queued' = queued + 1
    /\ forwarder' = [forwarder EXCEPT ![s] = "waiting"]
    /\ UNCHANGED <<notifyEnabled, clients, ids, isNotify, handler, sending,
                   reader, broken, bot, phase, unreached>>

(* The handler: one error ends it, and whoever sent that error.            *)
EndHandler(s) ==
    /\ handler' = [handler EXCEPT ![s] = "done"]
    /\ sending' = [sending EXCEPT ![s] = None]

TakeReaderError(s) ==
    /\ Alive
    /\ handler[s] = "serving"
    /\ reader[s] = "failing"
    /\ reader' = [reader EXCEPT ![s] = "done"]
    /\ EndHandler(s)
    /\ UNCHANGED <<server, ids, isNotify, forwarder, broken>>

TakeForwarderError(s) ==
    /\ Alive
    /\ handler[s] = "serving"
    /\ forwarder[s] = "failing"
    /\ forwarder' = [forwarder EXCEPT ![s] = "done"]
    /\ EndHandler(s)
    /\ UNCHANGED <<server, ids, isNotify, reader, broken>>

\* The send of SendAction meets the handler's select.
TakeCommand(s) ==
    /\ Alive
    /\ handler[s] = "serving"
    /\ bot.at = "sending" /\ bot.stream = s
    /\ handler' = [handler EXCEPT ![s] = "sending"]
    /\ sending' = [sending EXCEPT ![s] = bot.user]
    /\ bot' = BotIdle
    /\ UNCHANGED <<notifyEnabled, clients, ids, isNotify, reader, forwarder,
                   broken, queued, phase, unreached>>

\* stream.Send fails only when the client has gone, and may not notice.
SendOk(s) ==
    /\ Alive
    /\ handler[s] = "sending"
    /\ handler' = [handler EXCEPT ![s] = "serving"]
    /\ sending' = [sending EXCEPT ![s] = None]
    /\ UNCHANGED <<server, ids, isNotify, reader, forwarder, broken>>

SendFail(s) ==
    /\ Alive
    /\ handler[s] = "sending"
    /\ broken[s]
    /\ EndHandler(s)
    /\ UNCHANGED <<server, ids, isNotify, reader, forwarder, broken>>

(* The bot.  A handler ends by answering its user; the answer is part of   *)
(* its last step.  Handlers that touch none of this module's state, and    *)
(* those whose user the database does not find, do nothing but answer.     *)

\* logger.Fatal when telegram does not take the answer.
ReplyFails ==
    /\ Alive
    /\ bot.at = "idle"
    /\ Die("down")

\* StartNotificationsHandler and StopNotificationsHandler: the row, then the
\* map, then the flag of the stream found.
SetNotification(u, on) ==
    /\ Alive
    /\ bot.at = "idle"
    /\ notifyEnabled' = [notifyEnabled EXCEPT ![u] = on]
    /\ bot' = [at |-> "lookup", user |-> u, stream |-> None, on |-> on]
    /\ unreached' = unreached \union {s \in Streams : owner[s] = u}
    /\ UNCHANGED <<clients, streamVars, queued, phase>>

LookupStream ==
    /\ Alive
    /\ bot.at = "lookup"
    /\ clients[bot.user] # None
    /\ bot' = [bot EXCEPT !.at = "found", !.stream = clients[bot.user]]
    /\ unreached' = unreached \ {clients[bot.user]}
    /\ UNCHANGED <<notifyEnabled, clients, streamVars, queued, phase>>

SetFlag ==
    /\ Alive
    /\ bot.at = "found"
    /\ isNotify' = [isNotify EXCEPT ![bot.stream] = bot.on]
    /\ bot' = BotIdle
    /\ UNCHANGED <<notifyEnabled, clients, ids, handler, sending, reader,
                   forwarder, broken, queued, phase, unreached>>

\* LampSwitchHandler: the map, then the blocking SendAction.
LampSwitch(u) ==
    /\ Alive
    /\ bot.at = "idle"
    /\ clients[u] # None
    /\ bot' = [at |-> "sending", user |-> u, stream |-> clients[u], on |-> FALSE]
    /\ UNCHANGED <<notifyEnabled, clients, streamVars, queued, phase, unreached>>

\* A user without a stream: the error is logged, and the nil pointer the map
\* returned is dereferenced.  Nothing recovers the bot's goroutine.
LookupNil ==
    /\ Alive
    /\ bot.at = "lookup"
    /\ clients[bot.user] = None
    /\ Die("panicked")

LampSwitchNil(u) ==
    /\ Alive
    /\ bot.at = "idle"
    /\ clients[u] = None
    /\ Die("panicked")

\* The notifier; telegram's error is logged and the notification is gone.
Notify ==
    /\ Alive
    /\ queued > 0
    /\ queued' = queued - 1
    /\ UNCHANGED <<notifyEnabled, clients, streamVars, bot, phase, unreached>>

\* The server is started again.  Its memory is that of a new process since the
\* old one died (Die), and the rows are as they were left.
Restart ==
    /\ ~Alive
    /\ phase' = "running"
    /\ UNCHANGED <<notifyEnabled, clients, streamVars, bot, queued, unreached>>

----------------------------------------------------------------------------
StreamStep(s) ==
    \/ \E u, n \in Users : Identify(s, u, n)
    \/ Register(s)
    \/ Disconnect(s)
    \/ \E e \in Events : ReadEvent(s, e)
    \/ ReadError(s)
    \/ TakeEvent(s) \/ Post(s)
    \/ TakeReaderError(s) \/ TakeForwarderError(s)
    \/ TakeCommand(s) \/ SendOk(s) \/ SendFail(s)

\* The bot's goroutine inside a handler.
BotContinues == LookupStream \/ LookupNil \/ SetFlag

BotStep ==
    \/ \E u \in Users, on \in Settings : SetNotification(u, on)
    \/ \E u \in Users : LampSwitch(u) \/ LampSwitchNil(u)
    \/ BotContinues
    \/ ReplyFails

Next ==
    \/ \E s \in Streams : StreamStep(s)
    \/ BotStep
    \/ Notify
    \/ Restart

Spec == Init /\ [][Next]_vars

(* The scheduler runs goroutines that can run; database and telegram calls *)
(* return.  Clients and users need not do anything, and nobody needs to    *)
(* start the server again.  Strong fairness:                               *)
(*  - a select with several ready cases picks one at random, so Err is not *)
(*    passed over for ever;                                                *)
(*  - a client that has gone sent finitely many events;                    *)
(*  - a Go channel serves its blocked senders in order.                    *)
Fairness ==
    /\ \A s \in Streams :
        /\ WF_vars(Register(s))
        /\ WF_vars(SendOk(s) \/ SendFail(s))
        /\ WF_vars(TakeEvent(s))
        /\ WF_vars(TakeCommand(s))
        /\ SF_vars(TakeReaderError(s) \/ TakeForwarderError(s))
        /\ SF_vars(ReadError(s))
        /\ SF_vars(Post(s))
    /\ WF_vars(BotContinues)
    /\ WF_vars(Notify)

FairSpec == Spec /\ Fairness

----------------------------------------------------------------------------
(* Safety.                                                                 *)

TypeOK ==
    /\ notifyEnabled \in [Users -> BOOLEAN]
    /\ clients \in [Users -> Streams \union {None}]
    /\ owner \in [Streams -> Users \union {None}]
    /\ name \in [Streams -> Users \union {None}]
    /\ isNotify \in [Streams -> BOOLEAN]
    /\ handler \in [Streams ->
                      {"none", "identified", "serving", "sending", "done"}]
    /\ sending \in [Streams -> Users \union {None}]
    /\ reader \in [Streams ->
                     {"none", "reading", "failing", "done"} \union Events]
    /\ forwarder \in [Streams ->
                        {"none", "waiting", "posting", "failing", "done"}]
    /\ broken \in [Streams -> BOOLEAN]
    /\ bot \in [at : {"idle", "lookup", "found", "sending"},
                user : Users \union {None}, stream : Streams \union {None},
                on : BOOLEAN]
    /\ queued \in 0..NotifyCap
    /\ phase \in {"running", "panicked", "down"}
    /\ unreached \subseteq Streams

\* A command is only ever written to a stream whose client id belongs to the
\* user who gave it, although the streams are found by the name the client
\* claims and may have been replaced since the bot looked them up.
CommandToOwner ==
    \A s \in Streams : handler[s] = "sending" => sending[s] = owner[s]

\* A handler returns for a reason: one of its goroutines reported an error
\* or the client has gone.
HandlerEndsForCause ==
    \A s \in Streams : handler[s] = "done" =>
        reader[s] = "done" \/ forwarder[s] = "done" \/ broken[s]

\* The bot is not inside /start or /stop of user u.
Settled(u) == ~(bot.user = u /\ bot.at \in {"lookup", "found"})

\* The flag of a stream is the one in its user's row, however many streams
\* reconnect, replace each other, end or crash, except for a stream that the
\* user's last /start or /stop found no way to: opened before the command
\* wrote the row, and not the one in the map when the command looked, be it
\* that another had replaced it or that it was registered only afterwards.
FlagMissesOnlyUnreached ==
    \A s \in Streams :
        handler[s] \in {"identified", "serving", "sending"} /\ Settled(owner[s])
            => isNotify[s] = notifyEnabled[owner[s]] \/ s \in unreached

Registered(s) == handler[s] \in {"serving", "sending", "done"}

(* What the hub promises to its users, Switchboard: a session is a stream, *)
(* it is connected from its registration on.  The bot is at a wish from    *)
(* the write of the row until the flag is set.                             *)
BotTask ==
    [user |-> bot.user,
     kind |-> CASE bot.at = "idle" -> "none"
                [] bot.at \in {"lookup", "found"} -> "wish"
                [] bot.at = "sending" -> "command"]

Board ==
    INSTANCE Switchboard WITH
        Sessions <- Streams,
        wish <- notifyEnabled,
        caller <- owner,
        connected <- {s \in Streams : Registered(s)},
        over <- {s \in Streams : handler[s] = "done"},
        told <- isNotify,
        task <- BotTask,
        carrying <- sending

\* Map, names and what the bot remembers connect each user with streams of
\* his own only, and the nil pointer of a user whom the map does not know
\* (handlers.go:77, 102 and 270) is met only by one whose client never
\* connected to this process: a stream stays in the map when it has ended
\* or was replaced.
ImplementsSwitchboard == Board!BoardSpec

(* What the client application of a user meets, StreamServer.              *)
Working(u, places) ==
    {s \in Streams : owner[s] = u /\ handler[s] \in places /\ ~broken[s]}

Line(u) ==
    INSTANCE StreamServer WITH
        up <- Alive,
        pending <- Working(u, {"identified"}),
        dropped <- {s \in Streams : /\ owner[s] = u
                                    /\ handler[s] = "identified"
                                    /\ broken[s]},
        served <- Working(u, {"serving", "sending"}),
        registered <- clients[u],
        target <- IF bot.at = "sending" /\ bot.user = u THEN bot.stream ELSE None

\* Each user's client meets the server it was specified with, whatever the
\* other users do: RemoteClient takes StreamServer for its environment.  In
\* particular the map of a running server forgets no stream, and a command
\* goes to the stream that was the last one when the bot looked.
ImplementsServer ==
    /\ \A u \in Users : Line(u)!ServerInit
    /\ [][\A u \in Users : [Line(u)!ServerNext]_(Line(u)!serverVars)]_vars

(* The inductive invariant of EventHubProofs.                              *)

\* A stream has an owner from its identification on, and carries its name; no
\* client leaves a stream before that.
OwnersNamed ==
    \A s \in Streams :
        /\ name[s] = owner[s]
        /\ owner[s] = None <=> handler[s] = "none"
        /\ broken[s] => handler[s] # "none"

\* The map leads to registered streams of the user asked for.
MapLeadsToOwn ==
    \A u \in Users : clients[u] # None =>
        owner[clients[u]] = u /\ Registered(clients[u])

\* A user who ever had a stream in the map has one.
MapComplete ==
    \A s \in Streams : Registered(s) => clients[owner[s]] # None

\* What the bot remembers inside a handler is still true.
BotRemembers ==
    /\ bot.at = "idle" <=> bot.user = None
    /\ bot.at \in {"lookup", "found"} =>
        bot.user \in Users /\ bot.on = notifyEnabled[bot.user]
    /\ bot.at \in {"found", "sending"} =>
        /\ bot.stream \in Streams
        /\ bot.user \in Users
        /\ owner[bot.stream] = bot.user
        /\ Registered(bot.stream)

\* A handler has a command in hand while it sends, and only then.
SendsCommands ==
    \A s \in Streams : handler[s] = "sending" <=> sending[s] # None

\* A stream has the flag of its user's row from its identification on, unless
\* the last command did not find it or is on its way to it.
FlagsFollow ==
    /\ \A s \in Streams : handler[s] # "none" =>
        \/ isNotify[s] = notifyEnabled[owner[s]]
        \/ s \in unreached
        \/ bot.at = "found" /\ bot.stream = s
    /\ \A s \in unreached : handler[s] # "none"

HubInv ==
    /\ TypeOK
    /\ OwnersNamed
    /\ MapLeadsToOwn
    /\ MapComplete
    /\ SendsCommands
    /\ BotRemembers
    /\ CommandToOwner
    /\ HandlerEndsForCause
    /\ FlagsFollow

----------------------------------------------------------------------------
(* Liveness, under FairSpec; the process may always end.                   *)

Ended == ~Alive

\* An error in Err closes the client's stream (client_events.go:22), be it
\* the reader's or the forwarder's, however many commands compete with it.
ErrorEndsHandler ==
    \A s \in Streams :
        reader[s] = "failing" \/ forwarder[s] = "failing"
            ~> handler[s] = "done" \/ Ended

\* A client that goes away ends its handler, also when its last events are
\* still on their way through a full notification channel.
DisconnectEndsHandler ==
    \A s \in Streams : broken[s] ~> handler[s] = "done" \/ Ended

\* The bot waits in SendAction only for a stream whose handler has returned.
BotWaitsOnlyForEnded ==
    \A s \in Streams :
        bot.at = "sending" /\ bot.stream = s
            ~> bot.at # "sending" \/ handler[s] = "done" \/ Ended

----------------------------------------------------------------------------
(* What the repository says of the program.                                *)

\* "ServeAndNotify runs a cyclic poll of the updates of the telegram api"
\* (server/bot.go:36): the bot comes back for the next update.
BotServesUpdates == bot.at # "idle" ~> bot.at = "idle" \/ Ended

============================================================================
