------------------------------ MODULE PlcPoll ------------------------------
(***************************************************************************)
(* The poller of the controller, internal/remote-control-client/plc/plc.go.*)
(*                                                                         *)
(* continuousRead goes round the configured notifications, reads the tag   *)
(* of each and puts a message into sendChan when its bit has risen since   *)
(* the last time it was read.  continuousWrite takes commands and writes   *)
(* their value to every device of that name.  They share the controller    *)
(* and the connection pool, which is present with what ConnPool shows of   *)
(* it: a call returns as long as fewer slots than the limit are lost, a    *)
(* call that fails may lose one, and so may one that is carried out and    *)
(* whose connection then fails to close.                                   *)
(*                                                                         *)
(* The configuration is taken to be well formed.  An entry whose bit is no *)
(* number is skipped in every round, as if it were not there; an address   *)
(* without a bit, or a bit outside its register, ends the process in the   *)
(* first round.                                                            *)
(***************************************************************************)
EXTENDS Integers, Sequences

CONSTANTS
    Registers, Bits,    \* the controller's memory
    Actions,            \* keys of the commands the bot sends (EventTypes)
    DeviceIDs,
    Notifications,      \* configured tags: a sequence of [reg, bit]
    Devices,            \* configured devices: a sequence of [id, reg, values]
    MaxOpen,            \* the pool's limit; 4 in plc.go
    NoCommand           \* continuousWrite waits on receiveChan

Tags == [reg : Registers, bit : Bits]
Commands == [device : DeviceIDs, action : Actions]

\* The values of a device need not cover every action.
ASSUME NotificationsAreTags ==
    Notifications \in Seq(Tags) /\ Notifications # <<>>
ASSUME DevicesAreDevices ==
    /\ Devices \in Seq([id : DeviceIDs, reg : Registers,
                        values : UNION {[A -> SUBSET Bits] : A \in SUBSET Actions}])
ASSUME MaxOpenPositive == MaxOpen \in Nat \ {0}
ASSUME NoCommandIsNone == NoCommand \notin Commands

VARIABLES
    memory,             \* the set bits of each register
    up,                 \* the controller answers in time
    lost,               \* slots the pool has lost
    reader,             \* continuousRead is "reading" or "sending"
    pos,                \* its place in config.Notifications
    riseTrig,           \* the value each tag had when it was last read
    queued,             \* sendChan, capacity 1
    command,            \* what continuousWrite is at, or NoCommand
    done,               \* devices of config.Devices it is done with
    rested,             \* ghost: the tag has been low since its last report
    attempted           \* ghost: devices the command was written to

readerVars == <<reader, pos, riseTrig>>
writerVars == <<command, done, attempted>>
vars == <<memory, up, lost, readerVars, queued, writerVars, rested>>

High(t) == t.bit \in memory[t.reg]
Tag == Notifications[pos]
Device == Devices[done + 1]

\* A slot is left to make a call with.
PoolServes == lost < MaxOpen

----------------------------------------------------------------------------
\* NewPLCPollService and Polling, on a controller in any state.
Init ==
    /\ memory \in [Registers -> SUBSET Bits]
    /\ up \in BOOLEAN
    /\ lost = 0
    /\ reader = "reading"
    /\ pos = 1
    /\ riseTrig = [t \in Tags |-> FALSE]
    /\ queued = FALSE
    /\ command = NoCommand
    /\ done = 0
    /\ rested = [t \in Tags |-> TRUE]
    /\ attempted = {}

(* The controller.                                                         *)

\* Every change of memory: a bit that is low has rested.
Store(m) ==
    /\ memory' = m
    /\ rested' = [t \in Tags |-> rested[t] \/ t.bit \notin m[t.reg]]

\* Inputs change, and so do registers under a write that was given up.
InputsChange ==
    /\ \E r \in Registers, v \in SUBSET Bits : Store([memory EXCEPT ![r] = v])
    /\ UNCHANGED <<up, lost, readerVars, queued, writerVars>>

Outage ==
    /\ up' = ~up
    /\ UNCHANGED <<memory, lost, readerVars, queued, writerVars, rested>>

\* A call may leave its slot behind: one that fails, or one that succeeds and
\* whose connection does not close, which is an error to the caller as well.
MayLoseSlot == lost' \in {lost, lost + 1}

(* continuousRead.                                                         *)
\* Mutation of NextTag: the round does not start again.
NextTagOnly == pos' = pos + 1

NextTag == pos' = (pos % Len(Notifications)) + 1

(* Mutations of the actions below, each a mistake the code could plausibly *)
(* contain; no specification uses them.                                    *)
ReadFailStops ==            \* return instead of continue
    /\ reader = "reading"
    /\ ~up /\ PoolServes
    /\ MayLoseSlot
    /\ reader' = "stopped"
    /\ UNCHANGED <<memory, up, pos, riseTrig, queued, writerVars, rested>>

ReadFailForgets ==          \* an error counts as a low bit
    /\ reader = "reading"
    /\ ~up /\ PoolServes
    /\ MayLoseSlot
    /\ NextTag
    /\ riseTrig' = [riseTrig EXCEPT ![Tag] = FALSE]
    /\ UNCHANGED <<memory, up, reader, queued, writerVars, rested>>

\* The bit has not risen: it is remembered.
ReadLevel ==
    /\ reader = "reading"
    /\ up /\ PoolServes
    /\ ~(High(Tag) /\ ~riseTrig[Tag])
    /\ riseTrig' = [riseTrig EXCEPT ![Tag] = High(Tag)]
    /\ NextTag
    /\ UNCHANGED <<memory, up, lost, reader, queued, writerVars, rested>>

\* The bit has risen.
ReadRise ==
    /\ reader = "reading"
    /\ up /\ PoolServes
    /\ High(Tag) /\ ~riseTrig[Tag]
    /\ reader' = "sending"
    /\ rested' = [rested EXCEPT ![Tag] = FALSE]
    /\ UNCHANGED <<memory, up, lost, pos, riseTrig, queued, writerVars>>

\* The error is logged, the tag is left as it was.  On a controller that
\* answers, the error is that of closing the connection.
ReadFail ==
    /\ reader = "reading"
    /\ PoolServes
    /\ MayLoseSlot
    /\ up => lost' # lost
    /\ NextTag
    /\ UNCHANGED <<memory, up, reader, riseTrig, queued, writerVars, rested>>

\* sendChan <- message: waits until the channel has room.
SendRise ==
    /\ reader = "sending"
    /\ ~queued
    /\ queued' = TRUE
    /\ riseTrig' = [riseTrig EXCEPT ![Tag] = TRUE]
    /\ NextTag
    /\ reader' = "reading"
    /\ UNCHANGED <<memory, up, lost, writerVars, rested>>

\* The server stream takes the message.
Taken ==
    /\ queued
    /\ queued' = FALSE
    /\ UNCHANGED <<memory, up, lost, readerVars, writerVars, rested>>

(* continuousWrite.                                                        *)
Receive(c) ==
    /\ command = NoCommand
    /\ command' = c
    /\ done' = 0
    /\ attempted' = {}
    /\ UNCHANGED <<memory, up, lost, readerVars, queued, rested>>

AtDevice == command # NoCommand /\ done < Len(Devices)
Matches(d) == d.id = command.device
HasValue(d) == command.action \in DOMAIN d.values

\* Mutation of WriteFail.
WriteFailBreaks ==          \* break instead of continue
    /\ AtDevice /\ Matches(Device)
    /\ ~up /\ PoolServes
    /\ MayLoseSlot
    /\ done' = Len(Devices)
    /\ attempted' = attempted \union {done + 1}
    /\ UNCHANGED <<memory, up, readerVars, queued, command, rested>>

SkipDevice ==
    /\ AtDevice /\ ~Matches(Device)
    /\ done' = done + 1
    /\ UNCHANGED <<memory, up, lost, readerVars, queued, command, attempted,
                   rested>>

Attempt ==
    /\ done' = done + 1
    /\ attempted' = attempted \union {done + 1}
    /\ UNCHANGED <<up, readerVars, queued, command>>

WriteOk ==
    /\ AtDevice /\ Matches(Device)
    /\ up /\ PoolServes
    /\ HasValue(Device)
    /\ Store([memory EXCEPT ![Device.reg] = Device.values[command.action]])
    /\ MayLoseSlot
    /\ Attempt

\* The write may have been carried out before it was given up.
WriteFail ==
    /\ AtDevice /\ Matches(Device)
    /\ ~up /\ PoolServes
    /\ \/ UNCHANGED <<memory, rested>>
       \/ /\ HasValue(Device)
          /\ Store([memory EXCEPT ![Device.reg] = Device.values[command.action]])
    /\ MayLoseSlot
    /\ Attempt

\* Without a value the empty one is written; no register takes it.
WriteEmpty ==
    /\ AtDevice /\ Matches(Device)
    /\ up /\ PoolServes
    /\ ~HasValue(Device)
    /\ MayLoseSlot
    /\ Attempt
    /\ UNCHANGED <<memory, rested>>

EndCommand ==
    /\ command # NoCommand
    /\ done = Len(Devices)
    /\ command' = NoCommand
    /\ UNCHANGED <<memory, up, lost, readerVars, queued, done, attempted,
                   rested>>

----------------------------------------------------------------------------
ReaderStep == ReadLevel \/ ReadRise \/ ReadFail \/ SendRise
WriterStep == SkipDevice \/ WriteOk \/ WriteFail \/ WriteEmpty \/ EndCommand

Next ==
    \/ ReaderStep \/ WriterStep
    \/ Taken
    \/ \E c \in Commands : Receive(c)
    \/ InputsChange \/ Outage

Spec == Init /\ [][Next]_vars

(* The scheduler runs both goroutines.  The server stream takes messages:  *)
(* its sender comes back to the channel whatever happens to the stream     *)
(* (property NotificationsLeave of RemoteClient).  The controller and the  *)
(* commands have no fairness.                                              *)
Fairness == WF_vars(ReaderStep) /\ WF_vars(WriterStep) /\ WF_vars(Taken)

FairSpec == Spec /\ Fairness

----------------------------------------------------------------------------
TypeOK ==
    /\ memory \in [Registers -> SUBSET Bits]
    /\ up \in BOOLEAN
    /\ lost \in 0..MaxOpen
    /\ reader \in {"reading", "sending"}
    /\ pos \in 1..Len(Notifications)
    /\ riseTrig \in [Tags -> BOOLEAN]
    /\ queued \in BOOLEAN
    /\ command \in Commands \union {NoCommand}
    /\ done \in 0..Len(Devices)
    /\ rested \in [Tags -> BOOLEAN]
    /\ attempted \subseteq 1..Len(Devices)

\* A tag is reported once for every time it rises: between two reports of it
\* there was a moment at which it was low, whatever reads failed in between
\* and however often the tag is configured.
ReportsAreRises ==
    [][reader = "reading" /\ reader' = "sending" => rested[Tag]]_vars

\* Why: a tag remembered as low, and not about to be reported, has been low.
LowIsRemembered ==
    \A t \in Tags :
        \/ riseTrig[t]
        \/ reader = "sending" /\ Tag = t
        \/ rested[t]

\* A command is over when every device of its name has been written to,
\* whichever of the writes failed.
EveryDeviceAttempted ==
    [][command # NoCommand /\ command' = NoCommand
        => attempted = {i \in 1..Len(Devices) : Devices[i].id = command.device}]_vars

----------------------------------------------------------------------------
(* Liveness, under FairSpec.                                               *)

\* On a controller that goes on answering, a tag that was last read as low
\* and now stays high is reported, unless the pool has run out of slots.
RisesReported ==
    <>[]up =>
        \A i \in 1..Len(Notifications) :
            LET t == Notifications[i]
            IN  High(t) /\ ~riseTrig[t]
                    ~> ~High(t) \/ riseTrig[t] \/ ~PoolServes

=============================================================================
