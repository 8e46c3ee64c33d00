--------------------------- MODULE EventHubProofs ---------------------------
(***************************************************************************)
(* Proofs about EventHub, for any users, any number of streams and any     *)
(* capacity of the notification channel: the inductive invariant HubInv    *)
(* and the safety properties of the hub.                                   *)
(*                                                                         *)
(* The argument: an owner is given once, with the name the stream is       *)
(* registered under, so the map and what the bot remembers of it lead only *)
(* to streams of the right user, however old the memory is; and a stream   *)
(* that exists when a command writes the row is either the one the command *)
(* finds, whose flag it sets, or is counted as unreached.                  *)
(***************************************************************************)
EXTENDS EventHub, TLAPS

(* Every process of the server starts and ends the same way.               *)

\* The memory a process starts with satisfies the invariant, whatever the
\* database holds.
LEMMA InitHubInv == Init => HubInv
<1> SUFFICES ASSUME Init PROVE HubInv
  OBVIOUS
<1> USE DEF Init, NoStreams, ToAll, BotIdle
<1>1. TypeOK
  BY NotifyCapPositive DEF TypeOK, Events
<1>2. OwnersNamed /\ MapLeadsToOwn /\ MapComplete /\ BotRemembers
  BY NoneIsNone
     DEF OwnersNamed, MapLeadsToOwn, MapComplete, BotRemembers, Registered
<1>3. /\ SendsCommands /\ CommandToOwner /\ HandlerEndsForCause
      /\ FlagsFollow
  BY DEF SendsCommands, CommandToOwner, HandlerEndsForCause,
         FlagsFollow
<1> QED
  BY <1>1, <1>2, <1>3 DEF HubInv

\* A process that ends leaves nothing the invariant could miss.
LEMMA DieHubInv ==
    ASSUME TypeOK, NEW p \in {"panicked", "down"}, Die(p)
    PROVE  HubInv'
<1> USE DEF Die, NoStreams, ToAll, BotIdle
<1>1. TypeOK'
  BY NotifyCapPositive DEF TypeOK, Events
<1>2. OwnersNamed' /\ MapLeadsToOwn' /\ MapComplete' /\ BotRemembers'
  BY NoneIsNone
     DEF OwnersNamed, MapLeadsToOwn, MapComplete, BotRemembers, Registered
<1>3. /\ SendsCommands' /\ CommandToOwner' /\ HandlerEndsForCause'
      /\ FlagsFollow'
  BY DEF SendsCommands, CommandToOwner, HandlerEndsForCause,
         FlagsFollow
<1> QED
  BY <1>1, <1>2, <1>3 DEF HubInv

(* Steps, grouped by the goroutine that takes them.                        *)

\* Steps of a stream that leave owners, names, flags and the bot alone.
StreamRuns(s) ==
    \/ Disconnect(s)
    \/ \E e \in Events : ReadEvent(s, e)
    \/ ReadError(s)
    \/ TakeEvent(s) \/ Post(s)
    \/ TakeReaderError(s) \/ TakeForwarderError(s)
    \/ SendOk(s) \/ SendFail(s)

\* Identification gives a stream its owner, its name and the row's flag.
LEMMA IdentifyStep ==
    ASSUME HubInv, NEW s \in Streams, NEW u \in Users, NEW n \in Users,
           Identify(s, u, n)
    PROVE  HubInv'
<1> USE NoneIsNone DEF HubInv, TypeOK, Identify, server
<1>1. TypeOK'
  OBVIOUS
<1>2. OwnersNamed'
  BY DEF OwnersNamed
<1>3. MapLeadsToOwn' /\ MapComplete'
  BY DEF MapLeadsToOwn, MapComplete, OwnersNamed, Registered
<1>4. BotRemembers'
  BY DEF BotRemembers, Registered
<1>5. SendsCommands' /\ CommandToOwner' /\ HandlerEndsForCause'
  BY DEF SendsCommands, CommandToOwner, HandlerEndsForCause
<1>6. FlagsFollow'
  BY DEF FlagsFollow, OwnersNamed, MapLeadsToOwn, Registered, Settled
<1> QED
  BY <1>1, <1>2, <1>3, <1>4, <1>5, <1>6

\* Registration puts the stream under its owner's name.
LEMMA RegisterStep ==
    ASSUME HubInv, NEW s \in Streams, Register(s)
    PROVE  HubInv'
<1> USE NoneIsNone DEF HubInv, TypeOK, Register, ids
<1>1. TypeOK'
  BY DEF OwnersNamed
<1>2. OwnersNamed'
  BY DEF OwnersNamed
<1>3. MapLeadsToOwn' /\ MapComplete'
  BY DEF MapLeadsToOwn, MapComplete, OwnersNamed, Registered
<1>4. BotRemembers'
  BY DEF BotRemembers, Registered
<1>5. SendsCommands' /\ CommandToOwner' /\ HandlerEndsForCause'
  BY DEF SendsCommands, CommandToOwner, HandlerEndsForCause
<1>6. FlagsFollow'
  BY DEF FlagsFollow, OwnersNamed, Registered, Settled
<1> QED
  BY <1>1, <1>2, <1>3, <1>4, <1>5, <1>6

\* A running stream keeps its owner, its flag and its place in the map.
LEMMA StreamRunsStep ==
    ASSUME HubInv, NEW s \in Streams, StreamRuns(s)
    PROVE  HubInv'
<1>1. /\ UNCHANGED <<notifyEnabled, clients, owner, name, isNotify, bot,
                   unreached>>
      /\ \A t \in Streams : handler'[t] = "none" <=> handler[t] = "none"
      /\ \A t \in Streams : broken'[t] => broken[t] \/ handler[t] # "none"
      /\ \A t \in Streams : Registered(t)' <=> Registered(t)
  BY DEF StreamRuns, Disconnect, ReadEvent, ReadError, TakeEvent, Post,
         TakeReaderError, TakeForwarderError, SendOk, SendFail, EndHandler,
         server, ids, HubInv, TypeOK, Registered
<1>2. TypeOK'
  <2> USE DEF HubInv, TypeOK, server, ids
  <2>1. CASE Disconnect(s) \/ ReadError(s) \/ TakeEvent(s)
    BY <2>1 DEF Disconnect, ReadError, TakeEvent, Forwarded, Events
  <2>2. ASSUME NEW e \in Events, ReadEvent(s, e) PROVE TypeOK'
    BY <2>2 DEF ReadEvent
  <2>3. CASE Post(s)
    BY <2>3, NotifyCapPositive DEF Post
  <2>4. CASE TakeReaderError(s) \/ TakeForwarderError(s) \/ SendFail(s)
    BY <2>4 DEF TakeReaderError, TakeForwarderError, SendFail, EndHandler
  <2>5. CASE SendOk(s)
    BY <2>5 DEF SendOk
  <2> QED
    BY <2>1, <2>2, <2>3, <2>4, <2>5 DEF StreamRuns
<1>3. OwnersNamed' /\ MapLeadsToOwn' /\ MapComplete' /\ BotRemembers'
  BY <1>1 DEF HubInv, TypeOK, OwnersNamed, MapLeadsToOwn, MapComplete,
              BotRemembers
<1>4. FlagsFollow'
  BY <1>1 DEF HubInv, TypeOK, FlagsFollow, Settled
<1>5. SendsCommands' /\ CommandToOwner'
  BY DEF StreamRuns, Disconnect, ReadEvent, ReadError, TakeEvent, Post,
         TakeReaderError, TakeForwarderError, SendOk, SendFail, EndHandler,
         server, ids, HubInv, TypeOK, CommandToOwner, SendsCommands
<1>6. HandlerEndsForCause'
  <2> USE DEF HubInv, TypeOK, HandlerEndsForCause, server, ids
  <2>1. CASE Disconnect(s) \/ ReadError(s)
             \/ \E e \in Events : ReadEvent(s, e)
    BY <2>1 DEF Disconnect, ReadError, ReadEvent
  <2>2. CASE TakeEvent(s) \/ Post(s)
    BY <2>2 DEF TakeEvent, Post, Events
  <2>3. CASE TakeReaderError(s) \/ TakeForwarderError(s) \/ SendFail(s)
    BY <2>3 DEF TakeReaderError, TakeForwarderError, SendFail, EndHandler
  <2>4. CASE SendOk(s)
    BY <2>4 DEF SendOk
  <2> QED
    BY <2>1, <2>2, <2>3, <2>4 DEF StreamRuns
<1> QED
  BY <1>2, <1>3, <1>4, <1>5, <1>6 DEF HubInv

\* The handler takes the command of the user the bot serves.
LEMMA TakeCommandStep ==
    ASSUME HubInv, NEW s \in Streams, TakeCommand(s)
    PROVE  HubInv'
<1> USE NoneIsNone DEF HubInv, TypeOK, TakeCommand, BotIdle, ids
<1>1. TypeOK'
  BY DEF BotRemembers
<1>2. OwnersNamed' /\ MapLeadsToOwn' /\ MapComplete' /\ BotRemembers'
  BY DEF OwnersNamed, MapLeadsToOwn, MapComplete, BotRemembers, Registered
<1>3. SendsCommands' /\ CommandToOwner' /\ HandlerEndsForCause'
  BY DEF SendsCommands, CommandToOwner, HandlerEndsForCause, BotRemembers
<1>4. FlagsFollow'
  BY DEF FlagsFollow, Registered, Settled
<1> QED
  BY <1>1, <1>2, <1>3, <1>4

\* The bot's steps up to the flag remember what they have done.
LEMMA BotLooksStep ==
    ASSUME HubInv,
           \/ \E u \in Users, on \in Settings : SetNotification(u, on)
           \/ LookupStream
           \/ \E u \in Users : LampSwitch(u)
    PROVE  HubInv'
<1>1. UNCHANGED <<clients, streamVars, queued, phase>>
  BY DEF SetNotification, LookupStream, LampSwitch
<1> USE <1>1, NoneIsNone DEF HubInv, TypeOK, streamVars
<1>2. ASSUME NEW u \in Users, NEW on \in Settings, SetNotification(u, on)
      PROVE  HubInv'
  <2> USE <1>2, SettingsAreFlags DEF SetNotification
  <2>1. TypeOK'
    OBVIOUS
  <2>2. OwnersNamed' /\ MapLeadsToOwn' /\ MapComplete' /\ BotRemembers'
    BY DEF OwnersNamed, MapLeadsToOwn, MapComplete, BotRemembers, Registered
  <2>3. SendsCommands' /\ CommandToOwner' /\ HandlerEndsForCause'
    BY DEF SendsCommands, CommandToOwner, HandlerEndsForCause
  <2>4. FlagsFollow'
    BY DEF FlagsFollow, OwnersNamed, Registered, Settled
  <2> QED
    BY <2>1, <2>2, <2>3, <2>4
<1>3. CASE LookupStream
  <2> USE <1>3 DEF LookupStream
  <2>1. TypeOK'
    BY DEF BotRemembers
  <2>2. OwnersNamed' /\ MapLeadsToOwn' /\ MapComplete' /\ BotRemembers'
    BY DEF OwnersNamed, MapLeadsToOwn, MapComplete, BotRemembers, Registered
  <2>3. SendsCommands' /\ CommandToOwner' /\ HandlerEndsForCause'
    BY DEF SendsCommands, CommandToOwner, HandlerEndsForCause
  <2>4. FlagsFollow'
    BY DEF FlagsFollow, Registered, Settled
  <2> QED
    BY <2>1, <2>2, <2>3, <2>4
<1>4. ASSUME NEW u \in Users, LampSwitch(u) PROVE HubInv'
  <2> USE <1>4 DEF LampSwitch
  <2>1. TypeOK'
    OBVIOUS
  <2>2. OwnersNamed' /\ MapLeadsToOwn' /\ MapComplete' /\ BotRemembers'
    BY DEF OwnersNamed, MapLeadsToOwn, MapComplete, BotRemembers, Registered
  <2>3. SendsCommands' /\ CommandToOwner' /\ HandlerEndsForCause'
    BY DEF SendsCommands, CommandToOwner, HandlerEndsForCause
  <2>4. FlagsFollow'
    BY DEF FlagsFollow, Registered, Settled
  <2> QED
    BY <2>1, <2>2, <2>3, <2>4
<1> QED
  BY <1>2, <1>3, <1>4

\* The flag goes to the stream of the user the bot serves, with the value
\* of the row.
LEMMA SetFlagStep ==
    ASSUME HubInv, SetFlag
    PROVE  HubInv'
<1> USE NoneIsNone DEF HubInv, TypeOK, SetFlag, BotIdle, ids
<1>1. TypeOK'
  BY DEF BotRemembers
<1>2. OwnersNamed' /\ MapLeadsToOwn' /\ MapComplete' /\ BotRemembers'
  BY DEF OwnersNamed, MapLeadsToOwn, MapComplete, BotRemembers, Registered
<1>3. SendsCommands' /\ CommandToOwner' /\ HandlerEndsForCause'
  BY DEF SendsCommands, CommandToOwner, HandlerEndsForCause
<1>4. FlagsFollow'
  BY DEF FlagsFollow, BotRemembers
<1> QED
  BY <1>1, <1>2, <1>3, <1>4

\* The notifier touches the count of notifications only, a restart the phase.
LEMMA NotifyOrRestartStep ==
    ASSUME HubInv, Notify \/ Restart \/ UNCHANGED vars
    PROVE  HubInv'
<1>1. UNCHANGED <<notifyEnabled, clients, streamVars, bot, unreached>>
  BY DEF Notify, Restart, vars
<1>2. queued' \in 0..NotifyCap /\ phase' \in {"running", "panicked", "down"}
  BY NotifyCapPositive DEF Notify, Restart, vars, HubInv, TypeOK
<1> USE <1>1, <1>2 DEF HubInv, streamVars
<1>3. TypeOK'
  BY DEF TypeOK
<1>4. OwnersNamed' /\ MapLeadsToOwn' /\ MapComplete' /\ BotRemembers'
  BY DEF OwnersNamed, MapLeadsToOwn, MapComplete, BotRemembers, Registered
<1>5. /\ SendsCommands' /\ CommandToOwner' /\ HandlerEndsForCause'
      /\ FlagsFollow'
  BY DEF SendsCommands, CommandToOwner, HandlerEndsForCause,
         FlagsFollow, Registered, Settled
<1> QED
  BY <1>3, <1>4, <1>5

\* Every step of the bot server preserves the invariant.
LEMMA NextHubInv == HubInv /\ [Next]_vars => HubInv'
<1> SUFFICES ASSUME HubInv, [Next]_vars PROVE HubInv'
  OBVIOUS
<1>1. ASSUME NEW s \in Streams, StreamStep(s) PROVE HubInv'
  <2>1. \/ \E u, n \in Users : Identify(s, u, n)
        \/ Register(s)
        \/ StreamRuns(s)
        \/ TakeCommand(s)
    BY <1>1 DEF StreamStep, StreamRuns
  <2> QED
    BY <2>1, IdentifyStep, RegisterStep, StreamRunsStep, TakeCommandStep
<1>2. CASE BotStep
  <2>1. CASE \/ \E u \in Users, on \in Settings : SetNotification(u, on)
             \/ LookupStream
             \/ \E u \in Users : LampSwitch(u)
    BY <2>1, BotLooksStep
  <2>2. CASE SetFlag
    BY <2>2, SetFlagStep
  <2>3. CASE ReplyFails \/ LookupNil \/ \E u \in Users : LampSwitchNil(u)
    BY <2>3, DieHubInv DEF ReplyFails, LookupNil, LampSwitchNil, HubInv
  <2> QED
    BY <1>2, <2>1, <2>2, <2>3 DEF BotStep, BotContinues
<1>3. CASE Notify \/ Restart \/ UNCHANGED vars
  BY <1>3, NotifyOrRestartStep
<1> QED
  BY <1>1, <1>2, <1>3 DEF Next

(* The refinement of Switchboard.                                          *)

\* A process starts as a switchboard that nobody has called.
LEMMA InitIsBoardInit == Init => Board!BoardInit
  BY NoneIsNone
     DEF Init, NoStreams, ToAll, BotIdle, BotTask, Registered,
         Board!BoardInit, Board!NoSessions, Board!NoTask

\* What a process leaves behind.
LEMMA DieIsNoSessions ==
    ASSUME NEW p, Die(p)
    PROVE  Board!NoSessions' /\ notifyEnabled' = notifyEnabled /\ phase' = p
  BY DEF Die, NoStreams, ToAll, BotIdle, BotTask, Registered,
         Board!NoSessions, Board!NoTask

\* Steps of one stream: it is accepted, connected, ended, or carries a
\* command.  What it receives from its client, the switchboard does not see.
LEMMA StreamStepIsBoardStep ==
    ASSUME HubInv, NEW s \in Streams, StreamStep(s)
    PROVE  Board!BoardNext \/ UNCHANGED Board!boardVars
<1> USE NoneIsNone
    DEF HubInv, TypeOK, Alive, BotTask, Registered, Board!boardVars,
        Board!BoardNext, Board!BoardRuns, ids, server
<1>1. ASSUME NEW u \in Users, NEW n \in Users, Identify(s, u, n)
      PROVE  phase = "running" /\ Board!Accept(s, u) /\ UNCHANGED phase
  BY <1>1 DEF Identify, Board!Accept, OwnersNamed
<1>2. CASE Register(s)
  <2>1. Board!Connect(s)
    BY <1>2 DEF Register, Board!Connect, OwnersNamed
  <2> QED
    BY <1>2, <2>1 DEF Register
<1>3. CASE \/ Disconnect(s) \/ ReadError(s) \/ TakeEvent(s) \/ Post(s)
           \/ \E e \in Events : ReadEvent(s, e)
  BY <1>3 DEF Disconnect, ReadError, TakeEvent, Post, ReadEvent
<1>4. CASE TakeReaderError(s) \/ TakeForwarderError(s) \/ SendFail(s)
  <2>1. Board!End(s) /\ UNCHANGED phase /\ phase = "running"
    BY <1>4 DEF TakeReaderError, TakeForwarderError, SendFail, EndHandler,
                Board!End
  <2> QED
    BY <2>1
<1>5. CASE TakeCommand(s)
  <2>1. Board!Carry(s)
    BY <1>5 DEF TakeCommand, BotIdle, BotRemembers, SendsCommands,
                Board!Carry, Board!NoTask
  <2> QED
    BY <1>5, <2>1 DEF TakeCommand
<1>6. CASE SendOk(s)
  <2>1. Board!Carried(s)
    BY <1>6 DEF SendOk, SendsCommands, Board!Carried
  <2> QED
    BY <1>6, <2>1 DEF SendOk
<1> QED
  BY <1>1, <1>2, <1>3, <1>4, <1>5, <1>6 DEF StreamStep

\* Steps of the bot: a user's wish or command is taken, a wish is told, and
\* the process ends between two users or for one without a stream.
LEMMA BotStepIsBoardStep ==
    ASSUME HubInv, BotStep
    PROVE  Board!BoardNext \/ UNCHANGED Board!boardVars
<1> USE NoneIsNone, SettingsAreFlags
    DEF HubInv, TypeOK, Alive, BotTask, Registered, Board!boardVars,
        Board!BoardNext, Board!BoardRuns, streamVars
<1>1. ASSUME NEW u \in Users, NEW on \in Settings, SetNotification(u, on)
      PROVE  Board!BoardNext
  <2>1. Board!Wish(u, on)
    BY <1>1 DEF SetNotification, BotRemembers, Board!Wish, Board!NoTask
  <2> QED
    BY <1>1, <2>1 DEF SetNotification
<1>2. ASSUME NEW u \in Users, LampSwitch(u)
      PROVE  Board!BoardNext
  <2>1. Board!Command(u)
    BY <1>2 DEF LampSwitch, MapLeadsToOwn, BotRemembers, Board!Command,
                Board!HasSession, Board!NoTask
  <2> QED
    BY <1>2, <2>1 DEF LampSwitch
<1>3. CASE LookupStream
  BY <1>3 DEF LookupStream
<1>4. CASE SetFlag
  <2>1. Board!Tell(bot.stream)
    BY <1>4 DEF SetFlag, BotIdle, BotRemembers, ids, Board!Tell, Board!NoTask
  <2> QED
    BY <1>4, <2>1 DEF SetFlag, BotRemembers
<1>5. CASE LookupNil
  <2>1. Board!Panic(bot.user) /\ Board!NoSessions' /\ UNCHANGED notifyEnabled
    BY <1>5, DieIsNoSessions
       DEF LookupNil, MapComplete, BotRemembers, Board!Panic,
           Board!HasSession
  <2> QED
    BY <1>5, <2>1 DEF LookupNil, BotRemembers
<1>6. ASSUME NEW u \in Users, LampSwitchNil(u)
      PROVE  Board!BoardNext
  <2>1. Board!Panic(u) /\ Board!NoSessions' /\ UNCHANGED notifyEnabled
    BY <1>6, DieIsNoSessions
       DEF LampSwitchNil, MapComplete, BotRemembers, Board!Panic,
           Board!HasSession, Board!NoTask
  <2> QED
    BY <1>6, <2>1 DEF LampSwitchNil
<1>7. CASE ReplyFails
  <2>1. Board!Stop /\ Board!NoSessions' /\ UNCHANGED notifyEnabled
    BY <1>7, DieIsNoSessions
       DEF ReplyFails, BotRemembers, Board!Stop, Board!NoTask
  <2> QED
    BY <1>7, <2>1 DEF ReplyFails
<1> QED
  BY <1>1, <1>2, <1>3, <1>4, <1>5, <1>6, <1>7 DEF BotStep, BotContinues

(* The refinement of StreamServer, for the client of each user.            *)

\* A process starts as a server that no client has met.
LEMMA InitIsServerInit ==
    ASSUME Init, NEW u \in Users
    PROVE  Line(u)!ServerInit
  BY NoneIsNone
     DEF Init, NoStreams, ToAll, BotIdle, Alive, Working, Line!ServerInit

\* A process that ends takes all streams along.
LEMMA DieIsDown ==
    ASSUME Alive, NEW u \in Users, NEW p \in {"panicked", "down"}, Die(p)
    PROVE  Line(u)!Down
  BY NoneIsNone
     DEF Alive, Die, NoStreams, ToAll, BotIdle, Working, Line!Down

\* A step that is not one of these the client does not notice.
LEMMA LineStutters ==
    ASSUME NEW u \in Users,
           UNCHANGED <<clients, owner, handler, broken, bot, phase>>
    PROVE  UNCHANGED Line(u)!serverVars
  BY DEF Alive, Working, Line!serverVars

\* Steps of one stream: the client of its owner sees it open, register and
\* fail, and the other clients see nothing.  The command in the bot's hands is
\* written to the stream that was found for it.
LEMMA StreamStepIsServerStep ==
    ASSUME HubInv, NEW s \in Streams, StreamStep(s), NEW u \in Users
    PROVE  Line(u)!ServerNext \/ UNCHANGED Line(u)!serverVars
<1> USE NoneIsNone
    DEF HubInv, TypeOK, OwnersNamed, Alive, Working, Line!serverVars,
        Line!ServerNext, Line!Live, ids, server
<1>1. ASSUME NEW v \in Users, NEW n \in Users, Identify(s, v, n)
      PROVE  Line(u)!Open(s) \/ UNCHANGED Line(u)!serverVars
  <2>1. CASE v = u
    BY <1>1, <2>1 DEF Identify, Line!Open
  <2>2. CASE v # u
    BY <1>1, <2>2 DEF Identify
  <2> QED
    BY <2>1, <2>2
<1>2. CASE Register(s)
  <2>1. CASE owner[s] = u
    <3>1. Line(u)!Accept(s)
      BY <1>2, <2>1 DEF Register, Line!Accept
    <3> QED
      BY <3>1
  <2>2. CASE owner[s] # u
    BY <1>2, <2>2 DEF Register
  <2> QED
    BY <2>1, <2>2
<1>3. CASE Disconnect(s)
  <2>1. CASE owner[s] = u
    <3>1. Line(u)!Fail(s)
      BY <1>3, <2>1 DEF Disconnect, Line!Fail
    <3> QED
      BY <3>1
  <2>2. CASE owner[s] # u
    BY <1>3, <2>2 DEF Disconnect
  <2> QED
    BY <2>1, <2>2
<1>4. CASE \/ ReadError(s) \/ TakeEvent(s) \/ Post(s)
           \/ \E e \in Events : ReadEvent(s, e)
  BY <1>4, LineStutters DEF ReadError, TakeEvent, Post, ReadEvent
<1>5. CASE TakeReaderError(s) \/ TakeForwarderError(s) \/ SendFail(s)
  <2>1. CASE owner[s] = u /\ ~broken[s]
    <3>1. Line(u)!Fail(s)
      BY <1>5, <2>1
         DEF TakeReaderError, TakeForwarderError, SendFail, EndHandler,
             Line!Fail
    <3> QED
      BY <3>1
  <2>2. CASE owner[s] # u \/ broken[s]
    BY <1>5, <2>2
       DEF TakeReaderError, TakeForwarderError, SendFail, EndHandler
  <2> QED
    BY <2>1, <2>2
<1>6. CASE TakeCommand(s)
  <2>1. CASE bot.user = u
    <3>1. Line(u)!Write
      BY <1>6, <2>1 DEF TakeCommand, BotIdle, BotRemembers, Line!Write
    <3> QED
      BY <3>1
  <2>2. CASE bot.user # u
    BY <1>6, <2>2 DEF TakeCommand, BotIdle
  <2> QED
    BY <2>1, <2>2
<1>7. CASE SendOk(s)
  BY <1>7 DEF SendOk
<1> QED
  BY <1>1, <1>2, <1>3, <1>4, <1>5, <1>6, <1>7 DEF StreamStep

\* Steps of the bot: it finds the stream for a command of the client's user,
\* or the server goes down.
LEMMA BotStepIsServerStep ==
    ASSUME HubInv, BotStep, NEW u \in Users
    PROVE  Line(u)!ServerNext \/ UNCHANGED Line(u)!serverVars
<1> USE NoneIsNone
    DEF HubInv, TypeOK, Alive, Working, Line!serverVars, Line!ServerNext,
        streamVars
<1>1. ASSUME NEW v \in Users, NEW on \in Settings, SetNotification(v, on)
      PROVE  UNCHANGED Line(u)!serverVars
  BY <1>1 DEF SetNotification
<1>2. CASE LookupStream
  BY <1>2 DEF LookupStream
<1>3. CASE SetFlag
  BY <1>3 DEF SetFlag, BotIdle, ids
<1>4. ASSUME NEW v \in Users, LampSwitch(v)
      PROVE  Line(u)!LookUp \/ UNCHANGED Line(u)!serverVars
  BY <1>4 DEF LampSwitch, Line!LookUp
<1>5. CASE ReplyFails \/ LookupNil \/ \E v \in Users : LampSwitchNil(v)
  <2>1. Line(u)!Down
    BY <1>5, DieIsDown DEF ReplyFails, LookupNil, LampSwitchNil
  <2> QED
    BY <2>1
<1> QED
  BY <1>1, <1>2, <1>3, <1>4, <1>5 DEF BotStep, BotContinues

(* The theorems.                                                           *)

\* The inductive invariant of the bot server: owners, names, the map, the
\* row and the flags agree as the comments of its parts say.
THEOREM HubInvHolds == Spec => []HubInv
<1> QED
  BY InitHubInv, NextHubInv, PTL DEF Spec

\* The state of the hub is well formed; in particular no forwarder posts
\* more notifications than the channel holds.
THEOREM HubTypeCorrect == Spec => []TypeOK
<1>1. HubInv => TypeOK
  BY DEF HubInv
<1> QED
  BY HubInvHolds, <1>1, PTL

\* EventStreaming writes a command only to a client whose client id belongs to
\* the user who gave the command, for any number of users and
\* streams, reconnecting and replacing each other at any time.
THEOREM CommandsReachOwner == Spec => []CommandToOwner
<1>1. HubInv => CommandToOwner
  BY DEF HubInv
<1> QED
  BY HubInvHolds, <1>1, PTL

\* EventStreaming returns only for an error or a lost client.
THEOREM HandlersEndForCause == Spec => []HandlerEndsForCause
<1>1. HubInv => HandlerEndsForCause
  BY DEF HubInv
<1> QED
  BY HubInvHolds, <1>1, PTL

\* /start and /stop take effect on every stream but those the command could
\* not find, replaced before its lookup or registered after it, for any number
\* of reconnecting streams.
THEOREM FlagsFollowRows == Spec => []FlagMissesOnlyUnreached
<1>1. HubInv => FlagMissesOnlyUnreached
  <2> SUFFICES ASSUME HubInv, NEW s \in Streams,
                      handler[s] \in {"identified", "serving", "sending"},
                      Settled(owner[s])
               PROVE  isNotify[s] = notifyEnabled[owner[s]] \/ s \in unreached
    BY DEF FlagMissesOnlyUnreached
  <2>1. ~(bot.at = "found" /\ bot.stream = s)
    BY DEF HubInv, BotRemembers, Settled
  <2> QED
    BY <2>1 DEF HubInv, FlagsFollow
<1> QED
  BY HubInvHolds, <1>1, PTL

\* The hub keeps the promise of Switchboard: whatever reconnects, is replaced
\* or fails, a user's wish reaches a session of his, his command is carried
\* to a session of his, and the server panics only for a user whose client
\* has not connected since it started.
THEOREM HubImplementsSwitchboard == Spec => ImplementsSwitchboard
<1>1. HubInv /\ [Next]_vars => [Board!BoardNext]_(Board!boardVars)
  <2> SUFFICES ASSUME HubInv, [Next]_vars
               PROVE  Board!BoardNext \/ UNCHANGED Board!boardVars
    OBVIOUS
  <2>1. CASE Notify \/ UNCHANGED vars
    BY <2>1 DEF Notify, vars, streamVars, BotTask, Registered,
                Board!boardVars
  <2>2. CASE Restart
    BY <2>2 DEF Restart, Alive, streamVars, BotTask, Registered,
                Board!BoardNext, Board!Restart
  <2> QED
    BY <2>1, <2>2, StreamStepIsBoardStep, BotStepIsBoardStep DEF Next
<1> QED
  BY <1>1, InitIsBoardInit, HubInvHolds, PTL
     DEF Spec, ImplementsSwitchboard, Board!BoardSpec

\* RemoteClient was specified with the right server: the hub, with all its
\* goroutines and its other users, is to each user's client the StreamServer
\* that RemoteClient takes for its environment.
THEOREM HubImplementsServer == Spec => ImplementsServer
<1>1. Init => \A u \in Users : Line(u)!ServerInit
  BY InitIsServerInit
<1>2. HubInv /\ [Next]_vars =>
        \A u \in Users : [Line(u)!ServerNext]_(Line(u)!serverVars)
  <2> SUFFICES ASSUME HubInv, [Next]_vars, NEW u \in Users
               PROVE  Line(u)!ServerNext \/ UNCHANGED Line(u)!serverVars
    OBVIOUS
  <2>1. CASE Notify \/ UNCHANGED vars
    BY <2>1, LineStutters DEF Notify, vars, streamVars
  <2>2. CASE Restart
    <3>1. Line(u)!Up
      BY <2>2 DEF Restart, Alive, streamVars, Working, Line!Up
    <3> QED
      BY <3>1 DEF Line!ServerNext
  <2> QED
    BY <2>1, <2>2, StreamStepIsServerStep, BotStepIsServerStep DEF Next
<1> QED
  BY <1>1, <1>2, HubInvHolds, PTL DEF Spec, ImplementsServer

=============================================================================
