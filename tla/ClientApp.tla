----------------------------- MODULE ClientApp -----------------------------
(***************************************************************************)
(* The remote control client as a whole, cmd/remote-control-client/main.go:*)
(* the poller of the controller (PlcPoll) and the server connection        *)
(* (RemoteClient), joined by the two channels that main makes.             *)
(*                                                                         *)
(* Each of the two was specified with the other as its environment.  Here  *)
(* sendChan is one variable of both, a message in it is put by one and     *)
(* taken by the other in one step of each; receiveChan has no buffer, so   *)
(* its send and its receive are one step.  What each side assumed of the   *)
(* other becomes a property of the whole.                                  *)
(***************************************************************************)
EXTENDS Integers, Sequences, FiniteSets

CONSTANTS               \* of PlcPoll
    Registers, Bits, Actions, DeviceIDs, Notifications, Devices, MaxOpen,
    NoCommand
CONSTANTS               \* of RemoteClient
    Streams, MaxBreaks, None

VARIABLES               \* of PlcPoll; up is called plcUp
    memory, plcUp, lost, reader, pos, riseTrig, command, done, rested,
    attempted
VARIABLES               \* of RemoteClient
    up, pending, dropped, served, registered, target, stream, opened, inbox,
    sender, senderUses, receiver, receiverUses, breaks, panicked
VARIABLE queued         \* sendChan, of both

plcVars == <<memory, plcUp, lost, reader, pos, riseTrig, command, done,
             rested, attempted>>
streamVars == <<up, pending, dropped, served, registered, target, stream,
                opened, inbox, sender, senderUses, receiver, receiverUses,
                breaks, panicked>>
vars == <<plcVars, streamVars, queued>>

Poller == INSTANCE PlcPoll WITH up <- plcUp
Client == INSTANCE RemoteClient

\* What the two modules assume of their constants.
ASSUME NotificationsAreTags ==
    Notifications \in Seq(Poller!Tags) /\ Notifications # <<>>
ASSUME DevicesAreDevices ==
    /\ Devices \in Seq([id : DeviceIDs, reg : Registers,
                        values : UNION {[A -> SUBSET Bits] : A \in SUBSET Actions}])
ASSUME MaxOpenPositive == MaxOpen \in Nat \ {0}
ASSUME NoCommandIsNone == NoCommand \notin Poller!Commands
ASSUME NoneIsNoStream == None \notin Streams
ASSUME StreamsFinite == IsFiniteSet(Streams)
ASSUME MaxBreaksIsNat == MaxBreaks \in Nat

Init == Poller!Init /\ Client!Init

----------------------------------------------------------------------------
(* Steps of one side that the other does not see.                          *)
PollerOnly(A) == A /\ ~panicked /\ UNCHANGED <<streamVars, queued>>
ClientOnly(A) == A /\ UNCHANGED <<plcVars, queued>>

(* Steps of both.                                                          *)

\* Mutation of HandOver: the writer waits for the controller first.
HandOverOnline(c) == plcUp /\ Client!Deliver /\ Poller!Receive(c)

\* sendChan <- message, of continuousRead.
Report == Poller!SendRise /\ Client!Notify

\* n := <-s.sendChan, of continuousSend.
ReportTaken == Poller!Taken /\ Client!TakeNotification

\* s.receiveChan <- a, of continuousRecv, meets a := <-s.receiveChan, of
\* continuousWrite.  What the bot server sends does parse.
HandOver(c) == Client!Deliver /\ Poller!Receive(c)

----------------------------------------------------------------------------
(* The four goroutines, and what is around the process.                    *)
Reader ==
    Report \/ PollerOnly(Poller!ReadLevel \/ Poller!ReadRise \/ Poller!ReadFail)

Writer == PollerOnly(Poller!WriterStep)

Sender ==
    \/ ReportTaken
    \/ ClientOnly(\/ Client!SendOk \/ Client!SendErr \/ Client!SenderReconnect
                  \/ Client!TornUse(sender = "select" /\ queued, receiver))

Receiver ==
    \/ \E c \in Poller!Commands : HandOver(c)
    \/ ClientOnly(\/ Client!CheckStream \/ Client!RecvOk \/ Client!RecvErr
                  \/ Client!ReceiverReconnect
                  \/ Client!TornUse(receiver = "check", sender))

Controller == PollerOnly(Poller!InputsChange \/ Poller!Outage)

Network == ClientOnly(Client!Network)

Next == Reader \/ Writer \/ Sender \/ Receiver \/ Controller \/ Network

Spec == Init /\ [][Next]_vars

(* The scheduler runs the four goroutines, dials and sends end: nothing is *)
(* assumed of one side for the sake of the other.                          *)
FairSpec ==
    /\ Spec
    /\ WF_vars(Reader) /\ WF_vars(Writer)
    /\ WF_vars(Sender) /\ WF_vars(Receiver)

----------------------------------------------------------------------------
\* Types, of both sides at once: in particular what one puts into a channel
\* is what the other is specified to take out of it.
TypeOK == Poller!TypeOK /\ Client!TypeOK

----------------------------------------------------------------------------
(* Liveness, under FairSpec.                                               *)

\* The connection is specified with a writer that takes what it is given:
\* Client!Deliver is part of a fair goroutine.  The writer does, until the
\* pool has lost its slots.  Then it hangs in a call, the receiver hangs on
\* receiveChan, and no stream is read or renewed by it again.
CommandsTaken ==
    receiver = "delivering"
        ~> receiver # "delivering" \/ panicked \/ ~Poller!PoolServes

\* The poller is specified with a connection that empties sendChan: Taken is
\* fair in PlcPoll.  The connection does, also while its dials fail and while
\* the receiver hangs: a rise that lasts is put into sendChan, as long as the
\* controller answers and the pool has slots.
RisesReported ==
    \A i \in 1..Len(Notifications) :
        LET t == Notifications[i]
        IN  Poller!High(t) /\ ~riseTrig[t]
                ~> \/ ~Poller!High(t) \/ riseTrig[t] \/ ~plcUp
                   \/ ~Poller!PoolServes \/ panicked

=============================================================================
