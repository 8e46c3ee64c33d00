-------------------------- MODULE ClientAppProofs --------------------------
(***************************************************************************)
(* What PlcPollProofs and RemoteClientProofs show of the two sides of the  *)
(* client, each alone, stated of the client, for any configuration and any *)
(* number of streams.  That a step of the client is a step or a stutter of *)
(* each side holds by the way ClientApp is put together.                   *)
(*                                                                         *)
(* The proof modules are instantiated like the specifications they are     *)
(* about.  To the prover these are specifications of their own, with the   *)
(* same definitions: SamePoller and SameClient say so, once for all.       *)
(***************************************************************************)
EXTENDS ClientApp, TLAPS

PollerProofs == INSTANCE PlcPollProofs WITH up <- plcUp
ClientProofs == INSTANCE RemoteClientProofs

LEMMA StepIsPollerStep == [Next]_vars => [Poller!Next]_(Poller!vars)
<1> SUFFICES ASSUME [Next]_vars PROVE [Poller!Next]_(Poller!vars)
  OBVIOUS
<1> USE DEF Poller!vars, Poller!readerVars, Poller!writerVars, plcVars
<1>1. CASE UNCHANGED vars
  BY <1>1 DEF vars
<1>2. CASE Reader
  BY <1>2 DEF Reader, Report, PollerOnly, Poller!Next, Poller!ReaderStep
<1>3. CASE Writer
  BY <1>3 DEF Writer, PollerOnly, Poller!Next
<1>4. CASE Sender
  BY <1>4 DEF Sender, ReportTaken, ClientOnly, Poller!Next
<1>5. CASE Receiver
  BY <1>5 DEF Receiver, HandOver, ClientOnly, Poller!Next
<1>6. CASE Controller
  BY <1>6 DEF Controller, PollerOnly, Poller!Next
<1>7. CASE Network
  BY <1>7 DEF Network, ClientOnly
<1> QED
  BY <1>1, <1>2, <1>3, <1>4, <1>5, <1>6, <1>7 DEF Next

LEMMA StepIsClientStep == [Next]_vars => [Client!Next]_(Client!vars)
<1> SUFFICES ASSUME [Next]_vars PROVE [Client!Next]_(Client!vars)
  OBVIOUS
<1> USE DEF Client!vars, Client!clientVars, Client!networkVars,
           Client!serverVars, streamVars
<1>1. CASE UNCHANGED vars
  BY <1>1 DEF vars
<1>2. CASE Reader
  BY <1>2 DEF Reader, Report, PollerOnly, Client!Next
<1>3. CASE Writer \/ Controller
  BY <1>3 DEF Writer, Controller, PollerOnly
<1>4. CASE Sender
  BY <1>4 DEF Sender, ReportTaken, ClientOnly, Client!Next, Client!SenderStep
<1>5. CASE Receiver
  BY <1>5 DEF Receiver, HandOver, ClientOnly, Client!Next,
              Client!ReceiverStep
<1>6. CASE Network
  BY <1>6 DEF Network, ClientOnly, Client!Next
<1> QED
  BY <1>1, <1>2, <1>3, <1>4, <1>5, <1>6 DEF Next

----------------------------------------------------------------------------
\* By the shape of ClientApp: a step is one of the poller or leaves it alone.
LEMMA PollerIsImplemented == Spec => Poller!Spec
<1>1. Init => Poller!Init
  BY DEF Init
<1> QED
  BY <1>1, StepIsPollerStep, PTL DEF Spec, Poller!Spec

\* A step is one of the connection or leaves it alone.
LEMMA ClientIsImplemented == Spec => Client!Spec
<1>1. Init => Client!Init
  BY DEF Init
<1> QED
  BY <1>1, StepIsClientStep, PTL DEF Spec, Client!Spec

----------------------------------------------------------------------------
(* What is proved of the parts, in the whole.                              *)

LEMMA SamePoller == Poller!Spec => PollerProofs!Spec
<1>1. Poller!Init => PollerProofs!Init
  BY DEF Poller!Init, PollerProofs!Init, Poller!Tags, PollerProofs!Tags
<1>2. [Poller!Next]_(Poller!vars) => [PollerProofs!Next]_(PollerProofs!vars)
  BY DEF Poller!vars, PollerProofs!vars,
         Poller!Next, PollerProofs!Next, Poller!ReaderStep,
         PollerProofs!ReaderStep, Poller!WriterStep, PollerProofs!WriterStep,
         Poller!ReadLevel, PollerProofs!ReadLevel, Poller!ReadRise,
         PollerProofs!ReadRise, Poller!ReadFail, PollerProofs!ReadFail,
         Poller!SendRise, PollerProofs!SendRise, Poller!Taken,
         PollerProofs!Taken, Poller!Receive, PollerProofs!Receive,
         Poller!InputsChange, PollerProofs!InputsChange, Poller!Outage,
         PollerProofs!Outage, Poller!SkipDevice, PollerProofs!SkipDevice,
         Poller!WriteOk, PollerProofs!WriteOk, Poller!WriteFail,
         PollerProofs!WriteFail, Poller!WriteEmpty, PollerProofs!WriteEmpty,
         Poller!EndCommand, PollerProofs!EndCommand, Poller!Attempt,
         PollerProofs!Attempt, Poller!AtDevice, PollerProofs!AtDevice,
         Poller!Matches, PollerProofs!Matches, Poller!HasValue,
         PollerProofs!HasValue, Poller!Device, PollerProofs!Device,
         Poller!Store, PollerProofs!Store, Poller!MayLoseSlot,
         PollerProofs!MayLoseSlot, Poller!NextTag, PollerProofs!NextTag,
         Poller!Tag, PollerProofs!Tag, Poller!Tags, PollerProofs!Tags,
         Poller!High, PollerProofs!High, Poller!PoolServes,
         PollerProofs!PoolServes, Poller!Commands, PollerProofs!Commands,
         Poller!readerVars, PollerProofs!readerVars, Poller!writerVars,
         PollerProofs!writerVars
<1> QED
  BY <1>1, <1>2, PTL DEF Poller!Spec, PollerProofs!Spec

LEMMA SameClient == Client!Spec => ClientProofs!Spec
<1>1. Client!Init => ClientProofs!Init
  BY DEF Client!Init, ClientProofs!Init, Client!ServerInit,
         ClientProofs!ServerInit
<1>2. [Client!Next]_(Client!vars) => [ClientProofs!Next]_(ClientProofs!vars)
  BY DEF Client!vars, ClientProofs!vars, Client!clientVars,
         ClientProofs!clientVars, Client!networkVars,
         ClientProofs!networkVars, Client!serverVars, ClientProofs!serverVars,
         Client!Next, ClientProofs!Next, Client!SenderStep,
         ClientProofs!SenderStep, Client!ReceiverStep,
         ClientProofs!ReceiverStep, Client!Network, ClientProofs!Network,
         Client!ServerAlone, ClientProofs!ServerAlone, Client!ServerStep,
         ClientProofs!ServerStep, Client!Command, ClientProofs!Command,
         Client!Break, ClientProofs!Break, Client!TakeNotification,
         ClientProofs!TakeNotification, Client!SendOk, ClientProofs!SendOk,
         Client!SendErr, ClientProofs!SendErr, Client!SenderReconnect,
         ClientProofs!SenderReconnect, Client!TornUse, ClientProofs!TornUse,
         Client!CheckStream, ClientProofs!CheckStream, Client!RecvOk,
         ClientProofs!RecvOk, Client!Deliver, ClientProofs!Deliver,
         Client!RecvErr, ClientProofs!RecvErr, Client!ReceiverReconnect,
         ClientProofs!ReceiverReconnect, Client!Reconnect,
         ClientProofs!Reconnect, Client!DialOk, ClientProofs!DialOk,
         Client!DialFail, ClientProofs!DialFail, Client!Notify,
         ClientProofs!Notify, Client!Accept, ClientProofs!Accept, Client!Open,
         ClientProofs!Open, Client!LookUp, ClientProofs!LookUp, Client!Write,
         ClientProofs!Write, Client!Fail, ClientProofs!Fail, Client!Down,
         ClientProofs!Down, Client!Up, ClientProofs!Up, Client!Live,
         ClientProofs!Live, Client!Running, ClientProofs!Running
<1> QED
  BY <1>1, <1>2, PTL DEF Client!Spec, ClientProofs!Spec

\* What the parts assume of their constants, the client assumes.
LEMMA PollerConstants ==
    /\ Notifications \in Seq(PollerProofs!Tags) /\ Notifications # <<>>
    /\ NoCommand \notin PollerProofs!Commands
BY NotificationsAreTags, NoCommandIsNone
   DEF Poller!Tags, PollerProofs!Tags, Poller!Commands, PollerProofs!Commands

LEMMA ClientConstants == ClientProofs!IsFiniteSet(Streams)
BY StreamsFinite DEF ClientProofs!IsFiniteSet, IsFiniteSet

\* The state of both sides is well formed in the client, the channel between
\* them included.
THEOREM AppTypeCorrect == Spec => []TypeOK
<1>1. PollerProofs!Spec => []PollerProofs!TypeOK
  BY PollerProofs!PlcTypeCorrect, PollerConstants, DevicesAreDevices,
     MaxOpenPositive
<1>2. ClientProofs!Spec => []ClientProofs!TypeOK
  BY ClientProofs!ClientTypeCorrect, NoneIsNoStream, ClientConstants,
     MaxBreaksIsNat
<1>3. PollerProofs!TypeOK /\ ClientProofs!TypeOK => TypeOK
  BY DEF TypeOK, Poller!TypeOK, PollerProofs!TypeOK, Client!TypeOK,
         ClientProofs!TypeOK, Poller!Tags, PollerProofs!Tags, Poller!Commands,
         PollerProofs!Commands
<1> QED
  BY <1>1, <1>2, <1>3, SamePoller, SameClient, PollerIsImplemented,
     ClientIsImplemented, PTL

\* In the running client, whatever its writer and its poller do, the streams
\* that were opened and given up grow by one with every failure at most.
THEOREM AppStreamsBounded == Spec => []Client!StreamsBounded
<1>1. ClientProofs!Spec => []ClientProofs!StreamsBounded
  BY ClientProofs!StreamsAreBounded, NoneIsNoStream, ClientConstants,
     MaxBreaksIsNat
<1>2. ClientProofs!StreamsBounded => Client!StreamsBounded
  BY DEF ClientProofs!StreamsBounded, Client!StreamsBounded,
         ClientProofs!LiveStreams, Client!LiveStreams,
         ClientProofs!Cardinality, Client!Cardinality
<1> QED
  BY <1>1, <1>2, SameClient, ClientIsImplemented, PTL

\* In the running client, however its streams fail and are renewed, a tag is
\* put into sendChan once for every rise of it.
THEOREM AppReportsRises == Spec => Poller!ReportsAreRises
<1>1. PollerProofs!Spec => PollerProofs!ReportsAreRises
  BY PollerProofs!ReportsOnlyRises, PollerConstants, DevicesAreDevices,
     MaxOpenPositive
<1>2. ASSUME [reader = "reading" /\ reader' = "sending"
                  => rested[PollerProofs!Tag]]_(PollerProofs!vars)
      PROVE  [reader = "reading" /\ reader' = "sending"
                  => rested[Poller!Tag]]_(Poller!vars)
  BY <1>2 DEF Poller!Tag, PollerProofs!Tag, Poller!vars, PollerProofs!vars,
              Poller!readerVars, PollerProofs!readerVars, Poller!writerVars,
              PollerProofs!writerVars
<1> QED
  BY <1>1, <1>2, SamePoller, PollerIsImplemented, PTL
     DEF Poller!ReportsAreRises, PollerProofs!ReportsAreRises

\* In the running client, a command that the connection handed over is at its
\* end only when each of its devices was written to.
THEOREM AppAttemptsEveryDevice == Spec => Poller!EveryDeviceAttempted
<1>1. PollerProofs!Spec => PollerProofs!EveryDeviceAttempted
  BY PollerProofs!EveryDeviceIsAttempted, PollerConstants, DevicesAreDevices,
     MaxOpenPositive
<1>2. ASSUME [command # NoCommand /\ command' = NoCommand
                  => attempted = {i \in 1..Len(Devices) :
                                    Devices[i].id = command.device}
             ]_(PollerProofs!vars)
      PROVE  [command # NoCommand /\ command' = NoCommand
                  => attempted = {i \in 1..Len(Devices) :
                                    Devices[i].id = command.device}
             ]_(Poller!vars)
  BY <1>2 DEF Poller!vars, PollerProofs!vars, Poller!readerVars,
              PollerProofs!readerVars, Poller!writerVars,
              PollerProofs!writerVars
<1> QED
  BY <1>1, <1>2, SamePoller, PollerIsImplemented, PTL
     DEF Poller!EveryDeviceAttempted, PollerProofs!EveryDeviceAttempted

=============================================================================
