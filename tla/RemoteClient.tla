---------------------------- MODULE RemoteClient ----------------------------
(***************************************************************************)
(* The server connection of the remote control client,                     *)
(* internal/remote-control-client/client/client.go, joined with the server *)
(* as it meets it (StreamServer) and the commands on their way from there. *)
(*                                                                         *)
(* Two goroutines share the field s.stream without a lock.  continuousSend *)
(* takes notifications from a channel of capacity 1 and sends them;        *)
(* continuousRecv receives commands and hands them to the controller's     *)
(* writer.  Each of them opens a new stream, over a new connection, when   *)
(* its own operation fails, and stores it in s.stream; nobody closes the   *)
(* old one.                                                                *)
(*                                                                         *)
(* The context is cancelled when the process ends and not before, so the   *)
(* ctx.Done branches are left out.  reconnect() sleeps before it dials;    *)
(* time is not modelled, the sleep is part of being in "reconnecting".     *)
(***************************************************************************)
EXTENDS Integers, FiniteSets, StreamServer

CONSTANT MaxBreaks      \* bound: failures of streams or of the server

ASSUME NoneIsNoStream == None \notin Streams
ASSUME StreamsFinite == IsFiniteSet(Streams)
ASSUME MaxBreaksIsNat == MaxBreaks \in Nat

VARIABLES
    stream,             \* field s.stream, or nil, that is None
    opened,             \* streams that were opened so far
    inbox,              \* commands on their way to the client, 0 or 1
    queued,             \* a notification is in sendChan
    sender, senderUses,         \* continuousSend, the stream it sends on
    receiver, receiverUses,     \* continuousRecv, the stream it receives on
    breaks,             \* failures so far
    panicked            \* the process has died

clientVars == <<stream, sender, senderUses, receiver, receiverUses, queued>>
networkVars == <<serverVars, opened, inbox, breaks>>
vars == <<clientVars, networkVars, panicked>>

LiveStreams == pending \union served

----------------------------------------------------------------------------
\* NewPollService: the first dial succeeds, or it is logged and s.stream nil.
Init ==
    /\ ServerInit
    /\ stream \in Streams \union {None}
    /\ opened = {stream} \ {None}
    /\ pending = opened
    /\ inbox = [x \in Streams |-> 0]
    /\ queued = FALSE
    /\ sender = "select" /\ senderUses = None
    /\ receiver = "check" /\ receiverUses = None
    /\ breaks = 0
    /\ panicked = FALSE

Running == ~panicked

(* The network and the server.                                             *)

ServerStep(A) ==
    /\ Running
    /\ A
    /\ UNCHANGED <<clientVars, opened, panicked>>

\* What the client does not notice.
ServerAlone ==
    /\ ServerStep(LookUp \/ Up \/ \E x \in Streams : Accept(x))
    /\ UNCHANGED <<inbox, breaks>>

\* A command that is written to a stream that works is on its way.  If the
\* handler of the stream has ended, the bot may wait for ever.
Command ==
    /\ ServerStep(Write)
    /\ target \in served => inbox[target] = 0
    /\ inbox' = IF target \in served
                  THEN [inbox EXCEPT ![target] = 1] ELSE inbox
    /\ UNCHANGED breaks

\* One stream fails, or the server and all streams with it.
Break ==
    /\ breaks < MaxBreaks
    /\ breaks' = breaks + 1
    /\ ServerStep(Down \/ \E x \in Streams : Fail(x))
    /\ UNCHANGED inbox

Network == ServerAlone \/ Command \/ Break

(* reconnect(): a new connection and a new stream, stored in s.stream.     *)
DialOk(x) ==
    /\ x \notin opened
    /\ Open(x)
    /\ opened' = opened \union {x}
    /\ stream' = x
    /\ UNCHANGED <<inbox, breaks>>

\* The error is logged and s.stream stays as it was.  This may happen to a
\* server that is up, too, any number of times.
DialFail == UNCHANGED <<stream, networkVars>>

Reconnect == DialFail \/ \E x \in Streams : DialOk(x)

(* Mutations of the actions below, each a mistake the code could plausibly *)
(* contain; no specification uses them.                                    *)
SenderDialsUntilOk ==       \* reconnect() tried again until it succeeds
    /\ Running
    /\ sender = "reconnecting"
    /\ \E x \in Streams : DialOk(x)
    /\ sender' = "select"
    /\ UNCHANGED <<senderUses, receiver, receiverUses, queued, panicked>>

CheckNothing ==             \* a nil stream is not looked for
    /\ Running
    /\ receiver = "check"
    /\ receiver' = "receiving"
    /\ receiverUses' = stream
    /\ UNCHANGED <<stream, sender, senderUses, queued, networkVars, panicked>>

RecvErrNoReconnect ==       \* the same stream is tried again
    /\ Running
    /\ receiver = "receiving"
    /\ ~Live(receiverUses)
    /\ receiver' = "check"
    /\ receiverUses' = None
    /\ UNCHANGED <<stream, sender, senderUses, queued, networkVars, panicked>>

DeliverReconnect ==         \* a new stream for every command
    /\ Running
    /\ receiver = "delivering"
    /\ receiver' = "reconnecting"
    /\ UNCHANGED <<stream, sender, senderUses, receiverUses, queued,
                   networkVars, panicked>>

\* s.stream is an interface of two words, and nil in both before the first
\* store: a goroutine that uses it during that store may find a type and no
\* value, and panics.
TornUse(uses, other) ==
    /\ Running
    /\ uses
    /\ stream = None
    /\ other = "reconnecting" /\ up
    /\ panicked' = TRUE
    /\ UNCHANGED <<clientVars, networkVars>>

(* The poller puts a notification into sendChan.                           *)
Notify ==
    /\ Running
    /\ ~queued
    /\ queued' = TRUE
    /\ UNCHANGED <<stream, sender, senderUses, receiver, receiverUses,
                   networkVars, panicked>>

(* continuousSend.                                                         *)

\* Without a stream the notification is dropped.
TakeNotification ==
    /\ Running
    /\ sender = "select"
    /\ queued
    /\ queued' = FALSE
    /\ sender' = IF stream = None THEN "reconnecting" ELSE "sending"
    /\ senderUses' = stream
    /\ UNCHANGED <<stream, receiver, receiverUses, networkVars, panicked>>

\* The failure of a stream may go unnoticed: the notification is lost then.
SendOk ==
    /\ Running
    /\ sender = "sending"
    /\ sender' = "select"
    /\ senderUses' = None
    /\ UNCHANGED <<stream, receiver, receiverUses, queued, networkVars,
                   panicked>>

\* The notification is dropped.
SendErr ==
    /\ Running
    /\ sender = "sending"
    /\ ~Live(senderUses)
    /\ sender' = "reconnecting"
    /\ senderUses' = None
    /\ UNCHANGED <<stream, receiver, receiverUses, queued, networkVars,
                   panicked>>

\* Whatever the outcome, the sender goes back to its channel.
SenderReconnect ==
    /\ Running
    /\ sender = "reconnecting"
    /\ Reconnect
    /\ sender' = "select"
    /\ UNCHANGED <<senderUses, receiver, receiverUses, queued, panicked>>

(* continuousRecv.                                                         *)

CheckStream ==
    /\ Running
    /\ receiver = "check"
    /\ receiver' = IF stream = None THEN "reconnecting" ELSE "receiving"
    /\ receiverUses' = stream
    /\ UNCHANGED <<stream, sender, senderUses, queued, networkVars, panicked>>

\* Commands that arrived before the stream broke are still received.
RecvOk ==
    /\ Running
    /\ receiver = "receiving"
    /\ inbox[receiverUses] > 0
    /\ inbox' = [inbox EXCEPT ![receiverUses] = @ - 1]
    /\ receiver' = "delivering"
    /\ receiverUses' = None
    /\ UNCHANGED <<stream, sender, senderUses, queued, serverVars, opened,
                   breaks, panicked>>

\* The send to receiveChan; a command that does not parse is logged.
Deliver ==
    /\ Running
    /\ receiver = "delivering"
    /\ receiver' = "check"
    /\ UNCHANGED <<stream, sender, senderUses, receiverUses, queued,
                   networkVars, panicked>>

RecvErr ==
    /\ Running
    /\ receiver = "receiving"
    /\ ~Live(receiverUses)
    /\ receiver' = "reconnecting"
    /\ receiverUses' = None
    /\ UNCHANGED <<stream, sender, senderUses, queued, networkVars, panicked>>

ReceiverReconnect ==
    /\ Running
    /\ receiver = "reconnecting"
    /\ Reconnect
    /\ receiver' = "check"
    /\ UNCHANGED <<sender, senderUses, receiverUses, queued, panicked>>

----------------------------------------------------------------------------
SenderStep ==
    \/ TakeNotification \/ SendOk \/ SendErr \/ SenderReconnect
    \/ TornUse(sender = "select" /\ queued, receiver)

ReceiverStep ==
    \/ CheckStream \/ RecvOk \/ Deliver \/ RecvErr \/ ReceiverReconnect
    \/ TornUse(receiver = "check", sender)

Next ==
    \/ SenderStep \/ ReceiverStep
    \/ Notify
    \/ Network

Spec == Init /\ [][Next]_vars

(* The scheduler runs both goroutines; a dial ends, a send on a stream     *)
(* that nobody broke ends, and the writer of the controller takes what it  *)
(* is given.  The server, the network and the poller need not do anything, *)
(* but dials to a running server do not fail for ever.                     *)
Fairness ==
    /\ WF_vars(SenderStep)
    /\ WF_vars(ReceiverStep)
    /\ SF_vars(ReceiverReconnect /\ stream' # stream)

FairSpec == Spec /\ Fairness

----------------------------------------------------------------------------
TypeOK ==
    /\ stream \in Streams \union {None}
    /\ pending \subseteq Streams
    /\ dropped \subseteq Streams
    /\ served \subseteq Streams
    /\ opened \subseteq Streams
    /\ inbox \in [Streams -> 0..1]
    /\ queued \in BOOLEAN
    /\ sender \in {"select", "sending", "reconnecting"}
    /\ senderUses \in Streams \union {None}
    /\ sender = "sending" => senderUses \in Streams
    /\ receiver \in {"check", "receiving", "delivering", "reconnecting"}
    /\ receiverUses \in Streams \union {None}
    /\ receiver = "receiving" => receiverUses \in Streams
    /\ up \in BOOLEAN
    /\ registered \in Streams \union {None}
    /\ target \in Streams \union {None}
    /\ breaks \in 0..MaxBreaks
    /\ panicked \in BOOLEAN

\* One failure makes at most two reconnections, one of which the failure
\* itself made room for: streams that are open and given up grow by at most
\* one with every failure.
StreamsBounded == Cardinality(LiveStreams) <= 2 + breaks

\* The invariant behind it: each goroutine owes at most one reconnection, and
\* both owe one when the stored stream does not work.
NotLive(x) == x = None \/ (x # None /\ ~Live(x))
SenderOwes ==
    NotLive(stream) \/ sender = "reconnecting"
        \/ (sender = "sending" /\ NotLive(senderUses))
ReceiverOwes ==
    NotLive(stream) \/ receiver = "reconnecting"
        \/ (receiver = "receiving" /\ NotLive(receiverUses))
One(b) == IF b THEN 1 ELSE 0
ReconnectionsOwed ==
    Cardinality(LiveStreams) + One(SenderOwes) + One(ReceiverOwes)
        <= 2 + breaks

\* Streams in use have been opened.
UsedAreOpened ==
    /\ pending \union dropped \union served \subseteq opened
    /\ stream # None => stream \in opened
    /\ sender = "sending" => senderUses \in opened
    /\ receiver = "receiving" => receiverUses \in opened

ClientInv == TypeOK /\ UsedAreOpened /\ ReconnectionsOwed

----------------------------------------------------------------------------
(* Liveness, under FairSpec.                                               *)

\* The receiver listens to a stream that works.
Listening ==
    \/ receiver \in {"check", "delivering"} /\ stream # None /\ Live(stream)
    \/ receiver = "receiving" /\ Live(receiverUses)

\* With a server that stays reachable and streams that stop failing, the
\* client ends up listening, whatever the two goroutines did to s.stream.
ClientReconnects == <>[]up => <>[](Listening \/ panicked)

\* The poller is not held up for ever by a server that cannot be reached:
\* its notification is sent or dropped.
NotificationsLeave == queued ~> ~queued \/ panicked

----------------------------------------------------------------------------
(* What the repository says of the program.                                *)

\* "Passing commands on to the client application" (README.md:13): a command
\* written to a stream that does not break is received.
CommandsArrive ==
    \A x \in Streams :
        inbox[x] > 0 ~> inbox[x] = 0 \/ ~Live(x) \/ panicked

=============================================================================
