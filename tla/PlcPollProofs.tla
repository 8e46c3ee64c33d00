--------------------------- MODULE PlcPollProofs ---------------------------
(***************************************************************************)
(* Proofs about PlcPoll, for any configuration, any memory and any limit   *)
(* of the pool: types, that a tag is reported once for every rise, that a  *)
(* command is written to every device of its name.                         *)
(*                                                                         *)
(* The memory of the poller is older than the controller's: the invariant  *)
(* is not that a tag remembered as low is low, but that it has been low    *)
(* since its last report, unless it is the one about to be reported.       *)
(***************************************************************************)
EXTENDS PlcPoll, TLAPS

\* A tag that is low now has been low.
LowHasRested == \A t \in Tags : High(t) \/ rested[t]

PlcInv == TypeOK /\ LowIsRemembered /\ LowHasRested

\* A place in a sequence holds one of its elements.
LEMMA ElementOf ==
    ASSUME NEW S, NEW s \in Seq(S), NEW i \in 1..Len(s)
    PROVE  s[i] \in S
OBVIOUS

\* The poller is always at a configured tag.
LEMMA TagIsTag ==
    ASSUME pos \in 1..Len(Notifications)
    PROVE  Tag \in Tags
BY NotificationsAreTags DEF Tag

\* The round goes back to the first tag after the last.
LEMMA NextTagInRange ==
    ASSUME pos \in 1..Len(Notifications), NextTag
    PROVE  pos' \in 1..Len(Notifications)
<1>1. Len(Notifications) \in Nat \ {0}
  BY NotificationsAreTags
<1>2. \A n \in Nat \ {0} : \A p \in 1..n : (p % n) + 1 \in 1..n
  OBVIOUS
<1> QED
  BY <1>1, <1>2 DEF NextTag

\* What is written to a register is a set of its bits.
LEMMA WrittenIsMemory ==
    ASSUME TypeOK, AtDevice, HasValue(Device)
    PROVE  [memory EXCEPT ![Device.reg] = Device.values[command.action]]
                \in [Registers -> SUBSET Bits]
<1>1. Device \in [id : DeviceIDs, reg : Registers,
                  values : UNION {[A -> SUBSET Bits] : A \in SUBSET Actions}]
  <2>1. Len(Devices) \in Nat /\ done \in 0..Len(Devices) /\ done < Len(Devices)
    BY DevicesAreDevices DEF AtDevice, TypeOK
  <2>2. done + 1 \in 1..Len(Devices)
    BY <2>1
  <2> QED
    BY <2>2, DevicesAreDevices, ElementOf, Zenon DEF Device
<1>2. PICK A \in SUBSET Actions : Device.values \in [A -> SUBSET Bits]
  BY <1>1
<1>3. Device.values[command.action] \in SUBSET Bits
  BY <1>2 DEF HasValue
<1> QED
  BY <1>3 DEF TypeOK

\* Whatever is stored, bits that go low rest and no other tag changes.
LEMMA StoreKeepsTypes ==
    ASSUME TypeOK, NEW m \in [Registers -> SUBSET Bits], Store(m)
    PROVE  /\ memory' \in [Registers -> SUBSET Bits]
           /\ rested' \in [Tags -> BOOLEAN]
           /\ \A t \in Tags : rested[t] => rested'[t]
           /\ LowHasRested'
<1>1. memory' \in [Registers -> SUBSET Bits]
  BY DEF Store
<1>2. rested' \in [Tags -> BOOLEAN]
  BY DEF Store
<1>3. \A t \in Tags : rested[t] => rested'[t]
  BY DEF Store
<1>4. LowHasRested'
  BY DEF Store, LowHasRested, High
<1> QED
  BY <1>1, <1>2, <1>3, <1>4

----------------------------------------------------------------------------
LEMMA InitPlcInv == Init => PlcInv
<1> SUFFICES ASSUME Init PROVE PlcInv
  OBVIOUS
<1>1. Len(Notifications) \in Nat \ {0} /\ Len(Devices) \in Nat
  BY NotificationsAreTags, DevicesAreDevices
<1>2. TypeOK
  <2>1. riseTrig \in [Tags -> BOOLEAN] /\ rested \in [Tags -> BOOLEAN]
    BY DEF Init
  <2>2. pos \in 1..Len(Notifications) /\ done \in 0..Len(Devices)
        /\ lost \in 0..MaxOpen
    BY <1>1, MaxOpenPositive DEF Init
  <2> QED
    BY <2>1, <2>2 DEF Init, TypeOK
<1>3. LowIsRemembered /\ LowHasRested
  BY DEF Init, LowIsRemembered, LowHasRested
<1> QED
  BY <1>2, <1>3 DEF PlcInv

\* The controller changes under the poller.
LEMMA ControllerKeepsInv ==
    ASSUME PlcInv, InputsChange \/ Outage
    PROVE  PlcInv'
<1> USE DEF PlcInv, readerVars, writerVars
<1>1. CASE InputsChange
  <2>1. PICK r \in Registers, v \in SUBSET Bits :
            Store([memory EXCEPT ![r] = v])
    BY <1>1 DEF InputsChange
  <2>2. [memory EXCEPT ![r] = v] \in [Registers -> SUBSET Bits]
    BY DEF TypeOK
  <2>3. /\ memory' \in [Registers -> SUBSET Bits]
        /\ rested' \in [Tags -> BOOLEAN]
        /\ \A t \in Tags : rested[t] => rested'[t]
        /\ LowHasRested'
    BY <2>1, <2>2, StoreKeepsTypes
  <2> QED
    BY <1>1, <2>3 DEF InputsChange, TypeOK, LowIsRemembered, Tag
<1>2. CASE Outage
  BY <1>2 DEF Outage, TypeOK, LowIsRemembered, LowHasRested, High, Tag
<1> QED
  BY <1>1, <1>2

\* The steps of continuousRead.
LEMMA ReaderKeepsInv ==
    ASSUME PlcInv, ReaderStep
    PROVE  PlcInv'
<1> USE DEF PlcInv, writerVars
<1>1. Tag \in Tags
  BY TagIsTag DEF TypeOK
<1>2. CASE ReadLevel
  <2>1. TypeOK'
    BY <1>1, <1>2, NextTagInRange DEF ReadLevel, TypeOK, High
  <2>2. LowIsRemembered'
    <3> SUFFICES ASSUME NEW t \in Tags, ~riseTrig'[t] PROVE rested'[t]
      BY DEF LowIsRemembered
    <3>1. CASE t = Tag
      <4>1. ~High(Tag)
        BY <1>1, <1>2, <3>1 DEF ReadLevel, TypeOK
      <4> QED
        BY <1>1, <1>2, <3>1, <4>1 DEF ReadLevel, LowHasRested
    <3>2. CASE t # Tag
      BY <1>1, <1>2, <3>2 DEF ReadLevel, TypeOK, LowIsRemembered
    <3> QED
      BY <3>1, <3>2
  <2>3. LowHasRested'
    BY <1>2 DEF ReadLevel, LowHasRested, High
  <2> QED
    BY <2>1, <2>2, <2>3
<1>3. CASE ReadRise
  <2>1. TypeOK'
    BY <1>1, <1>3 DEF ReadRise, TypeOK
  <2>2. LowIsRemembered'
    BY <1>1, <1>3 DEF ReadRise, TypeOK, LowIsRemembered, Tag
  <2>3. LowHasRested'
    BY <1>1, <1>3 DEF ReadRise, TypeOK, LowHasRested, High
  <2> QED
    BY <2>1, <2>2, <2>3
<1>4. CASE ReadFail
  <2>1. TypeOK'
    BY <1>4, NextTagInRange, MaxOpenPositive
       DEF ReadFail, TypeOK, MayLoseSlot, PoolServes
  <2>2. LowIsRemembered'
    BY <1>4 DEF ReadFail, LowIsRemembered
  <2>3. LowHasRested'
    BY <1>4 DEF ReadFail, LowHasRested, High
  <2> QED
    BY <2>1, <2>2, <2>3
<1>5. CASE SendRise
  <2>1. TypeOK'
    BY <1>1, <1>5, NextTagInRange DEF SendRise, TypeOK
  <2>2. LowIsRemembered'
    BY <1>1, <1>5 DEF SendRise, TypeOK, LowIsRemembered
  <2>3. LowHasRested'
    BY <1>5 DEF SendRise, LowHasRested, High
  <2> QED
    BY <2>1, <2>2, <2>3
<1> QED
  BY <1>2, <1>3, <1>4, <1>5 DEF ReaderStep

\* The steps of continuousWrite, and the channels of both.
LEMMA WriterKeepsInv ==
    ASSUME PlcInv, WriterStep \/ Taken \/ (\E c \in Commands : Receive(c))
    PROVE  PlcInv'
<1> USE DEF PlcInv, readerVars, writerVars
<1>1. Len(Devices) \in Nat
  BY DevicesAreDevices
<1>2. CASE SkipDevice \/ EndCommand \/ Taken
  <2>1. done' \in 0..Len(Devices)
    BY <1>1, <1>2 DEF SkipDevice, EndCommand, Taken, AtDevice, TypeOK
  <2> QED
    BY <1>2, <2>1
       DEF SkipDevice, EndCommand, Taken, TypeOK, LowIsRemembered,
           LowHasRested, High, Tag
<1>3. CASE \E c \in Commands : Receive(c)
  BY <1>1, <1>3 DEF Receive, TypeOK, LowIsRemembered, LowHasRested, High, Tag
<1>4. CASE WriteOk \/ WriteFail \/ WriteEmpty
  <2>1. /\ memory' \in [Registers -> SUBSET Bits]
        /\ rested' \in [Tags -> BOOLEAN]
        /\ \A t \in Tags : rested[t] => rested'[t]
        /\ LowHasRested'
    BY <1>4, WrittenIsMemory, StoreKeepsTypes
       DEF WriteOk, WriteFail, WriteEmpty, TypeOK, LowHasRested, High
  <2>2. lost' \in 0..MaxOpen
    BY <1>4, MaxOpenPositive
       DEF WriteOk, WriteFail, WriteEmpty, TypeOK, MayLoseSlot, PoolServes
  <2>3. AtDevice /\ Attempt
    BY <1>4 DEF WriteOk, WriteFail, WriteEmpty
  <2>4. done \in 0..Len(Devices) /\ done < Len(Devices)
    BY <2>3 DEF AtDevice, TypeOK
  <2>5. done + 1 \in 1..Len(Devices)
    BY <1>1, <2>4
  <2>6. /\ done' \in 0..Len(Devices) /\ attempted' \subseteq 1..Len(Devices)
        /\ UNCHANGED <<up, readerVars, queued, command>>
    BY <1>1, <2>3, <2>5 DEF Attempt, TypeOK
  <2> QED
    BY <2>1, <2>2, <2>6 DEF TypeOK, LowIsRemembered, Tag
<1> QED
  BY <1>2, <1>3, <1>4 DEF WriterStep

----------------------------------------------------------------------------
\* The inductive invariant of the poller.
THEOREM PlcInvHolds == Spec => []PlcInv
<1>1. PlcInv /\ [Next]_vars => PlcInv'
  <2> SUFFICES ASSUME PlcInv, [Next]_vars PROVE PlcInv'
    OBVIOUS
  <2>1. CASE Next
    BY <2>1, ControllerKeepsInv, ReaderKeepsInv, WriterKeepsInv DEF Next
  <2>2. CASE UNCHANGED vars
    BY <2>2 DEF vars, readerVars, writerVars, PlcInv, TypeOK, LowIsRemembered,
                LowHasRested, High, Tag
  <2> QED
    BY <2>1, <2>2
<1> QED
  BY <1>1, InitPlcInv, PTL DEF Spec

\* Types; the poller stays inside its configuration.
THEOREM PlcTypeCorrect == Spec => []TypeOK
BY PlcInvHolds, PTL DEF PlcInv

\* A report is made only of a tag that was low since its last report
\* (plc.go:62-72).
THEOREM ReportsOnlyRises == Spec => ReportsAreRises
<1>1. PlcInv /\ [Next]_vars
        => [reader = "reading" /\ reader' = "sending" => rested[Tag]]_vars
  <2> SUFFICES ASSUME PlcInv, Next, reader = "reading", reader' = "sending"
               PROVE  rested[Tag]
    OBVIOUS
  <2>1. ReadRise
    BY DEF Next, ReaderStep, WriterStep, ReadLevel, ReadFail, SendRise, Taken,
           Receive, InputsChange, Outage, SkipDevice, WriteOk, WriteFail,
           WriteEmpty, EndCommand, Attempt, readerVars, writerVars
  <2>2. Tag \in Tags
    BY TagIsTag DEF PlcInv, TypeOK
  <2> QED
    BY <2>1, <2>2 DEF PlcInv, LowIsRemembered, ReadRise
<1> QED
  BY <1>1, PlcInvHolds, PTL DEF Spec, ReportsAreRises

----------------------------------------------------------------------------
\* What was written to so far: the devices of the command's name among those
\* the loop has passed.
Named(n) == {i \in 1..n : Devices[i].id = command.device}
AttemptedSoFar == command # NoCommand => attempted = Named(done)

\* One device further.
LEMMA NamedStep ==
    ASSUME NEW n \in Nat
    PROVE  Named(n + 1) = IF Devices[n + 1].id = command.device
                          THEN Named(n) \union {n + 1} ELSE Named(n)
<1>1. 1..(n + 1) = (1..n) \union {n + 1}
  OBVIOUS
<1> QED
  BY <1>1 DEF Named

LEMMA AttemptedStep ==
    ASSUME TypeOK, AttemptedSoFar, [Next]_vars
    PROVE  AttemptedSoFar'
<1>1. done \in Nat
  BY DEF TypeOK
<1>2. CASE UNCHANGED <<command, done, attempted>>
  BY <1>2 DEF AttemptedSoFar, Named
<1>3. CASE \E c \in Commands : Receive(c)
  <2>1. 1..0 = {}
    OBVIOUS
  <2> QED
    BY <1>3, <2>1 DEF Receive, AttemptedSoFar, Named
<1>4. CASE SkipDevice
  <2>1. Named(done + 1) = Named(done)
    BY <1>1, <1>4, NamedStep DEF SkipDevice, Matches, Device
  <2> QED
    BY <1>4, <2>1 DEF SkipDevice, AttemptedSoFar, Named
<1>5. CASE WriteOk \/ WriteFail \/ WriteEmpty
  <2>1. AtDevice /\ Matches(Device) /\ Attempt
    BY <1>5 DEF WriteOk, WriteFail, WriteEmpty
  <2>2. Named(done + 1) = Named(done) \union {done + 1}
    BY <1>1, <2>1, NamedStep DEF Matches, Device
  <2> QED
    BY <2>1, <2>2 DEF Attempt, AttemptedSoFar, AtDevice, Named
<1>6. CASE EndCommand
  BY <1>6 DEF EndCommand, AttemptedSoFar
<1> QED
  BY <1>2, <1>3, <1>4, <1>5, <1>6
     DEF Next, ReaderStep, WriterStep, ReadLevel, ReadRise, ReadFail, SendRise,
         Taken, InputsChange, Outage, vars, writerVars

\* A command ends when every device of its name was written to, whichever of
\* the writes failed (plc.go:80-93).
THEOREM EveryDeviceIsAttempted == Spec => EveryDeviceAttempted
<1>1. Init => AttemptedSoFar
  BY DEF Init, AttemptedSoFar
<1>2. Spec => []AttemptedSoFar
  BY <1>1, AttemptedStep, PlcTypeCorrect, PTL DEF Spec
<1>3. AttemptedSoFar /\ [Next]_vars
        => [command # NoCommand /\ command' = NoCommand
              => attempted = {i \in 1..Len(Devices) :
                                Devices[i].id = command.device}]_vars
  <2> SUFFICES ASSUME AttemptedSoFar, Next,
                      command # NoCommand, command' = NoCommand
               PROVE  attempted = Named(Len(Devices))
    BY DEF Named
  <2>1. EndCommand
    BY NoCommandIsNone
       DEF Next, ReaderStep, WriterStep, ReadLevel, ReadRise, ReadFail,
           SendRise, Taken, Receive, InputsChange, Outage, SkipDevice, WriteOk,
           WriteFail, WriteEmpty, Attempt, writerVars
  <2> QED
    BY <2>1 DEF EndCommand, AttemptedSoFar
<1> QED
  BY <1>2, <1>3, PTL DEF Spec, EveryDeviceAttempted

=============================================================================
