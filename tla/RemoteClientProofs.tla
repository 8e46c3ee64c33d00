------------------------- MODULE RemoteClientProofs -------------------------
(***************************************************************************)
(* Proofs about RemoteClient, for any number of streams and of failures:   *)
(* types, and the bound on the streams the client keeps open.              *)
(*                                                                         *)
(* The bound is not inductive: two goroutines about to reconnect may each  *)
(* open a stream.  The invariant ReconnectionsOwed counts those            *)
(* reconnections with the streams.  A goroutine that is due to reconnect   *)
(* pays for the stream it opens with what it owed, and stops owing,        *)
(* because the stream it stored works; a failure closes one stream and     *)
(* makes each goroutine owe at most one reconnection.                      *)
(***************************************************************************)
EXTENDS RemoteClient, FiniteSetTheorems, TLAPS

(* The streams as a finite set.                                            *)

\* The streams that are open are finitely many.
LEMMA LiveFinite ==
    ASSUME TypeOK
    PROVE  IsFiniteSet(LiveStreams) /\ Cardinality(LiveStreams) \in Nat
<1>1. LiveStreams \subseteq Streams
  BY DEF LiveStreams, TypeOK
<1>2. IsFiniteSet(LiveStreams)
  BY <1>1, StreamsFinite, FS_Subset
<1> QED
  BY <1>2, FS_CardinalityType

\* Steps that open and close no stream and make nobody owe a reconnection.
LEMMA NothingOpened ==
    ASSUME ReconnectionsOwed, TypeOK, LiveStreams' = LiveStreams,
           breaks' = breaks,
           SenderOwes' => SenderOwes, ReceiverOwes' => ReceiverOwes
    PROVE  ReconnectionsOwed'
<1>1. One(SenderOwes)' <= One(SenderOwes) /\ One(SenderOwes) \in 0..1
      /\ One(SenderOwes)' \in 0..1
  BY DEF One
<1>2. One(ReceiverOwes)' <= One(ReceiverOwes) /\ One(ReceiverOwes) \in 0..1
      /\ One(ReceiverOwes)' \in 0..1
  BY DEF One
<1>3. Cardinality(LiveStreams') = Cardinality(LiveStreams)
  OBVIOUS
<1> QED
  BY <1>1, <1>2, <1>3, LiveFinite, MaxBreaksIsNat DEF ReconnectionsOwed, TypeOK

\* A goroutine that owed a reconnection opens a stream, and owes none then.
LEMMA OneOpened ==
    ASSUME ReconnectionsOwed, TypeOK, breaks' = breaks,
           NEW x \in Streams, x \notin LiveStreams,
           LiveStreams' = LiveStreams \union {x},
           \/ SenderOwes /\ ~SenderOwes' /\ (ReceiverOwes' => ReceiverOwes)
           \/ ReceiverOwes /\ ~ReceiverOwes' /\ (SenderOwes' => SenderOwes)
    PROVE  ReconnectionsOwed'
<1>1. Cardinality(LiveStreams') = Cardinality(LiveStreams) + 1
  BY LiveFinite, FS_AddElement
<1>2. One(SenderOwes)' + One(ReceiverOwes)' + 1
        <= One(SenderOwes) + One(ReceiverOwes)
  BY DEF One
<1>3. /\ One(SenderOwes) \in 0..1 /\ One(SenderOwes)' \in 0..1
      /\ One(ReceiverOwes) \in 0..1 /\ One(ReceiverOwes)' \in 0..1
  BY DEF One
<1> QED
  BY <1>1, <1>2, <1>3, LiveFinite, MaxBreaksIsNat DEF ReconnectionsOwed, TypeOK

----------------------------------------------------------------------------
(* Steps that keep the types and use only streams that were opened.        *)

\* The first dial leaves at most one stream.
LEMMA InitClientInv == Init => ClientInv
<1> SUFFICES ASSUME Init PROVE ClientInv
  OBVIOUS
<1>1. TypeOK /\ UsedAreOpened
  <2>1. /\ breaks \in 0..MaxBreaks
        /\ inbox \in [Streams -> 0..1]
        /\ opened \subseteq Streams /\ pending = opened
    BY MaxBreaksIsNat DEF Init
  <2>2. dropped = {} /\ served = {}
    BY DEF Init, ServerInit
  <2>3. TypeOK
    BY <2>1, <2>2 DEF Init, ServerInit, TypeOK
  <2> QED
    BY <2>1, <2>2, <2>3 DEF Init, UsedAreOpened
<1>2. CASE stream = None
  <2>1. Cardinality(LiveStreams) = 0
    BY <1>2, FS_EmptySet DEF Init, ServerInit, LiveStreams
  <2> QED
    BY <1>1, <2>1 DEF ClientInv, ReconnectionsOwed, One, Init
<1>3. CASE stream # None
  <2>1. LiveStreams = {} \union {stream}
    BY <1>3 DEF Init, ServerInit, LiveStreams
  <2>2. Cardinality(LiveStreams) = 1
    BY <2>1, FS_AddElement, FS_EmptySet
  <2>3. ~SenderOwes /\ ~ReceiverOwes
    BY <1>3 DEF Init, SenderOwes, ReceiverOwes, NotLive, Live
  <2> QED
    BY <1>1, <2>2, <2>3 DEF ClientInv, ReconnectionsOwed, One, Init
<1> QED
  BY <1>2, <1>3

\* Steps that open no stream and close none.
RunsOn ==
    \/ TakeNotification \/ SendOk \/ SendErr
    \/ CheckStream \/ RecvOk \/ Deliver \/ RecvErr
    \/ Notify \/ ServerAlone \/ Command
    \/ TornUse(sender = "select" /\ queued, receiver)
    \/ TornUse(receiver = "check", sender)

LEMMA RunsOnKeepsInv ==
    ASSUME ClientInv, RunsOn
    PROVE  ClientInv'
<1> USE NoneIsNoStream, MaxBreaksIsNat
    DEF ClientInv, clientVars, networkVars, serverVars
<1>1. TypeOK' /\ UsedAreOpened'
  <2>1. CASE TakeNotification \/ SendOk \/ SendErr
    BY <2>1 DEF TypeOK, UsedAreOpened, TakeNotification, SendOk, SendErr
  <2>2. CASE CheckStream \/ Deliver \/ RecvErr
    BY <2>2 DEF TypeOK, UsedAreOpened, CheckStream, Deliver, RecvErr
  <2>3. CASE RecvOk
    BY <2>3 DEF TypeOK, UsedAreOpened, RecvOk
  <2>4. CASE Notify
    BY <2>4 DEF TypeOK, UsedAreOpened, Notify
  <2>5. CASE Command
    BY <2>5 DEF TypeOK, UsedAreOpened, Command, ServerStep, Write
  <2>6. CASE \/ TornUse(sender = "select" /\ queued, receiver)
             \/ TornUse(receiver = "check", sender)
    BY <2>6 DEF TypeOK, UsedAreOpened, TornUse
  <2>7. CASE ServerAlone
    BY <2>7 DEF TypeOK, UsedAreOpened, ServerAlone, ServerStep, LookUp, Up,
                Accept
  <2> QED
    BY <2>1, <2>2, <2>3, <2>4, <2>5, <2>6, <2>7 DEF RunsOn
<1>3. breaks' = breaks /\ stream' = stream
  BY DEF RunsOn, TakeNotification, SendOk, SendErr, CheckStream, RecvOk,
         Deliver, RecvErr, Notify, ServerAlone, Command, ServerStep, TornUse
<1>4. \A x \in Streams : Live(x)' <=> Live(x)
  BY DEF RunsOn, Live, TakeNotification, SendOk, SendErr, CheckStream, RecvOk,
         Deliver, RecvErr, Notify, ServerAlone, Command, ServerStep, LookUp,
         Write, Up, Accept, TornUse, serverVars
<1>5. LiveStreams' = LiveStreams
  BY <1>1, <1>4 DEF LiveStreams, Live, TypeOK
<1>6. SenderOwes' => SenderOwes
  <2>1. NotLive(stream)' => NotLive(stream)
    BY <1>3, <1>4 DEF NotLive, TypeOK
  <2>2. CASE TakeNotification
    BY <1>4, <2>1, <2>2 DEF TakeNotification, SenderOwes, NotLive, TypeOK
  <2>3. CASE SendOk
    BY <2>1, <2>3 DEF SendOk, SenderOwes
  <2>4. CASE SendErr
    BY <2>4 DEF SendErr, SenderOwes, NotLive, Live, TypeOK
  <2>5. CASE sender' = sender /\ senderUses' = senderUses
    BY <1>4, <2>1, <2>5 DEF SenderOwes, NotLive, TypeOK
  <2>6. TakeNotification \/ SendOk \/ SendErr
        \/ (sender' = sender /\ senderUses' = senderUses)
    BY DEF RunsOn, CheckStream, RecvOk, Deliver, RecvErr, Notify,
           ServerAlone, Command, ServerStep, TornUse
  <2> QED
    BY <2>2, <2>3, <2>4, <2>5, <2>6
<1>7. ReceiverOwes' => ReceiverOwes
  <2>1. NotLive(stream)' => NotLive(stream)
    BY <1>3, <1>4 DEF NotLive, TypeOK
  <2>2. CASE CheckStream
    BY <1>4, <2>1, <2>2 DEF CheckStream, ReceiverOwes, NotLive, TypeOK
  <2>3. CASE RecvOk \/ Deliver
    BY <2>1, <2>3 DEF RecvOk, Deliver, ReceiverOwes
  <2>4. CASE RecvErr
    BY <2>4 DEF RecvErr, ReceiverOwes, NotLive, Live, TypeOK
  <2>5. CASE receiver' = receiver /\ receiverUses' = receiverUses
    BY <1>4, <2>1, <2>5 DEF ReceiverOwes, NotLive, TypeOK
  <2>6. CheckStream \/ RecvOk \/ Deliver \/ RecvErr
        \/ (receiver' = receiver /\ receiverUses' = receiverUses)
    BY DEF RunsOn, TakeNotification, SendOk, SendErr, Notify, ServerAlone,
           Command, ServerStep, TornUse
  <2> QED
    BY <2>2, <2>3, <2>4, <2>5, <2>6
<1> QED
  BY <1>1, <1>3, <1>5, <1>6, <1>7, NothingOpened

----------------------------------------------------------------------------
(* Failures.                                                               *)

\* One stream fails: one stream less, at most two reconnections more.  With
\* the server no stream is left.
LEMMA BreakKeepsInv ==
    ASSUME ClientInv, Break
    PROVE  ClientInv'
<1> USE NoneIsNoStream, MaxBreaksIsNat DEF ClientInv, clientVars
<1>1. TypeOK' /\ UsedAreOpened'
  <2>1. /\ UNCHANGED <<clientVars, opened, panicked, inbox>>
        /\ breaks' \in 0..MaxBreaks
    BY DEF Break, ServerStep, TypeOK
  <2>2. /\ pending' \subseteq pending /\ served' \subseteq served
        /\ dropped' \subseteq dropped \union pending
    BY DEF Break, ServerStep, Down, Fail
  <2>3. /\ up' \in BOOLEAN
        /\ registered' \in Streams \union {None}
        /\ target' \in Streams \union {None}
    BY DEF Break, ServerStep, Down, Fail, TypeOK
  <2>4. TypeOK'
    BY <2>1, <2>2, <2>3 DEF TypeOK
  <2> QED
    BY <2>1, <2>2, <2>4 DEF UsedAreOpened
<1>2. breaks \in Nat /\ breaks' = breaks + 1
  BY DEF Break, TypeOK
<1>3. /\ One(SenderOwes) \in 0..1 /\ One(SenderOwes)' \in 0..1
      /\ One(ReceiverOwes) \in 0..1 /\ One(ReceiverOwes)' \in 0..1
  BY DEF One
<1>4. CASE Down
  <2>1. Cardinality(LiveStreams') = 0
    BY <1>4, FS_EmptySet DEF Down, LiveStreams
  <2> QED
    BY <1>1, <1>2, <1>3, <2>1 DEF ReconnectionsOwed
<1>5. ASSUME NEW x \in Streams, Fail(x)
      PROVE  ReconnectionsOwed'
  <2>1. LiveStreams' = LiveStreams \ {x} /\ x \in LiveStreams
    BY <1>5 DEF Fail, LiveStreams, Live
  <2>2. Cardinality(LiveStreams') = Cardinality(LiveStreams) - 1
    BY <2>1, LiveFinite, FS_RemoveElement
  <2> QED
    BY <1>2, <1>3, <2>2, LiveFinite DEF ReconnectionsOwed
<1> QED
  BY <1>1, <1>4, <1>5 DEF Break, ServerStep

(* Reconnections.                                                          *)

\* What a dial that succeeds does to the streams.
LEMMA DialOpens ==
    ASSUME UsedAreOpened, NEW x \in Streams, DialOk(x)
    PROVE  /\ x \notin LiveStreams /\ LiveStreams' = LiveStreams \union {x}
           /\ \A y \in Streams : Live(y) => Live(y)'
           /\ Live(x)'
BY DEF DialOk, Open, LiveStreams, Live

\* The sender reconnects.
LEMMA SenderReconnectKeepsInv ==
    ASSUME ClientInv, SenderReconnect
    PROVE  ClientInv'
<1> USE NoneIsNoStream, MaxBreaksIsNat
    DEF ClientInv, SenderReconnect, Reconnect, networkVars, serverVars
<1>1. TypeOK' /\ UsedAreOpened'
  BY DEF DialOk, DialFail, Open, TypeOK, UsedAreOpened
<1>2. CASE DialFail
  <2>1. LiveStreams' = LiveStreams /\ breaks' = breaks
    BY <1>2 DEF DialFail, LiveStreams, Live
  <2>2. SenderOwes /\ (ReceiverOwes' => ReceiverOwes)
    BY <1>2 DEF DialFail, SenderOwes, ReceiverOwes, NotLive, Live
  <2> QED
    BY <1>1, <2>1, <2>2, NothingOpened
<1>3. ASSUME NEW x \in Streams, DialOk(x)
      PROVE  ReconnectionsOwed'
  <2>1. /\ x \notin LiveStreams /\ LiveStreams' = LiveStreams \union {x}
        /\ \A y \in Streams : Live(y) => Live(y)'
        /\ Live(x)'
    BY <1>3, DialOpens
  <2>2. SenderOwes /\ ~SenderOwes'
    BY <1>3, <2>1 DEF DialOk, SenderOwes, NotLive
  <2>3. ReceiverOwes' => ReceiverOwes
    BY <1>3, <2>1 DEF DialOk, ReceiverOwes, NotLive, TypeOK
  <2> QED
    BY <1>3, <2>1, <2>2, <2>3, OneOpened DEF DialOk
<1> QED
  BY <1>1, <1>2, <1>3

\* The receiver reconnects.
LEMMA ReceiverReconnectKeepsInv ==
    ASSUME ClientInv, ReceiverReconnect
    PROVE  ClientInv'
<1> USE NoneIsNoStream, MaxBreaksIsNat
    DEF ClientInv, ReceiverReconnect, Reconnect, networkVars, serverVars
<1>1. TypeOK' /\ UsedAreOpened'
  BY DEF DialOk, DialFail, Open, TypeOK, UsedAreOpened
<1>2. CASE DialFail
  <2>1. LiveStreams' = LiveStreams /\ breaks' = breaks
    BY <1>2 DEF DialFail, LiveStreams, Live
  <2>2. ReceiverOwes /\ (SenderOwes' => SenderOwes)
    BY <1>2 DEF DialFail, SenderOwes, ReceiverOwes, NotLive, Live
  <2> QED
    BY <1>1, <2>1, <2>2, NothingOpened
<1>3. ASSUME NEW x \in Streams, DialOk(x)
      PROVE  ReconnectionsOwed'
  <2>1. /\ x \notin LiveStreams /\ LiveStreams' = LiveStreams \union {x}
        /\ \A y \in Streams : Live(y) => Live(y)'
        /\ Live(x)'
    BY <1>3, DialOpens
  <2>2. ReceiverOwes /\ ~ReceiverOwes'
    BY <1>3, <2>1 DEF DialOk, ReceiverOwes, NotLive
  <2>3. SenderOwes' => SenderOwes
    BY <1>3, <2>1 DEF DialOk, SenderOwes, NotLive, TypeOK
  <2> QED
    BY <1>3, <2>1, <2>2, <2>3, OneOpened DEF DialOk
<1> QED
  BY <1>1, <1>2, <1>3

\* A step that changes nothing.
LEMMA StutterKeepsInv ==
    ASSUME ClientInv, UNCHANGED vars
    PROVE  ClientInv'
BY DEF ClientInv, vars, clientVars, networkVars, serverVars, TypeOK, UsedAreOpened,
       ReconnectionsOwed, SenderOwes, ReceiverOwes, NotLive, Live, LiveStreams

----------------------------------------------------------------------------
\* The inductive invariant of the client.
THEOREM ClientInvHolds == Spec => []ClientInv
<1>1. ClientInv /\ [Next]_vars => ClientInv'
  <2> SUFFICES ASSUME ClientInv, [Next]_vars PROVE ClientInv'
    OBVIOUS
  <2>1. CASE RunsOn
    BY <2>1, RunsOnKeepsInv
  <2>2. CASE Break
    BY <2>2, BreakKeepsInv
  <2>3. CASE SenderReconnect
    BY <2>3, SenderReconnectKeepsInv
  <2>4. CASE ReceiverReconnect
    BY <2>4, ReceiverReconnectKeepsInv
  <2>5. CASE UNCHANGED vars
    BY <2>5, StutterKeepsInv
  <2> QED
    BY <2>1, <2>2, <2>3, <2>4, <2>5
       DEF Next, SenderStep, ReceiverStep, Network, RunsOn
<1> QED
  BY <1>1, InitClientInv, PTL DEF Spec

\* Types: a goroutine sends and receives only on a stream.
THEOREM ClientTypeCorrect == Spec => []TypeOK
BY ClientInvHolds, PTL DEF ClientInv

\* Reconnections of both goroutines open at most two streams, and one more
\* for every failure (client.go:145-153).
THEOREM StreamsAreBounded == Spec => []StreamsBounded
<1>1. ClientInv => StreamsBounded
  <2> SUFFICES ASSUME ClientInv PROVE StreamsBounded
    OBVIOUS
  <2>1. One(SenderOwes) \in 0..1 /\ One(ReceiverOwes) \in 0..1
    BY DEF One
  <2> QED
    BY <2>1, LiveFinite, MaxBreaksIsNat
       DEF ClientInv, TypeOK, ReconnectionsOwed, StreamsBounded
<1> QED
  BY <1>1, ClientInvHolds, PTL

=============================================================================
