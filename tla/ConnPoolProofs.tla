--------------------------- MODULE ConnPoolProofs ---------------------------
(***************************************************************************)
(* Proofs about ConnPool, for any finite set of callers, any limits and    *)
(* any number of lost slots: the inductive invariant IndInv, the safety    *)
(* invariants that follow from it, and the refinement of ConnLimiter.      *)
(*                                                                         *)
(* The argument has two halves.  The life of a request (TypeOK and         *)
(* RequestProtocol) says who may hold which channel; with it, each action  *)
(* adds to, removes from or leaves alone the set of slot owners, one       *)
(* element at a time, and numOpen follows.                                 *)
(***************************************************************************)
EXTENDS ConnPool, FiniteSetTheorems, TLAPS

(* Lemmas about the sets of goroutines the invariant counts.               *)

\* The counted sets are subsets of the finite set of callers.
LEMMA CountedSetsFinite ==
    /\ IsFiniteSet(Owners) /\ Cardinality(Owners) \in Nat
    /\ IsFiniteSet(Opening) /\ Cardinality(Opening) \in Nat
    /\ Cardinality(Opening) <= Cardinality(Callers)
    /\ Cardinality(Callers) \in Nat \ {0}
<1>1. IsFiniteSet(Callers) /\ Callers # {}
  BY CallersFinite
<1>2. Owners \in SUBSET Callers /\ Opening \in SUBSET Callers
  BY DEF Owners, Opening
<1>3. IsFiniteSet(Owners) /\ IsFiniteSet(Opening)
  BY <1>1, <1>2, FS_Subset
<1>4. Cardinality(Opening) <= Cardinality(Callers)
  BY <1>1, <1>2, FS_Subset
<1>5. Cardinality(Callers) # 0
  BY <1>1, FS_EmptySet
<1> QED
  BY <1>1, <1>3, <1>4, <1>5, FS_CardinalityType

\* A caller that owns no slot leaves room among the callers.
LEMMA OneOutside ==
    ASSUME NEW p \in Callers, p \notin Owners
    PROVE  Cardinality(Owners) < Cardinality(Callers)
<1>1. IsFiniteSet(Callers)
  BY CallersFinite
<1>2. Owners \in SUBSET Callers /\ Owners # Callers
  BY DEF Owners
<1>3. Cardinality(Owners) <= Cardinality(Callers)
       /\ Cardinality(Owners) # Cardinality(Callers)
  BY <1>1, <1>2, FS_Subset
<1> QED
  BY <1>1, <1>3, CountedSetsFinite, FS_CardinalityType

(* What each action does to the owners, the openers and the request        *)
(* protocol.                                                               *)

\* The owners change by at most one goroutine, or one for another.
LEMMA OwnersStep ==
    ASSUME TypeOK, RequestProtocol, FreshBeforeSetup, NEW p \in Callers
    PROVE  /\ Enqueue(p) \/ LetThrough(p) \/ OpenFail(p) \/ ReceiveConn(p)
              \/ ReceiveErr(p) \/ ReceiveClosed(p) \/ Use(p)
              \/ HandoffPanic(p)
                => Owners' = Owners
           /\ \A q \in Callers : TakeRequest(p, q) => Owners' = Owners
           /\ OpenOk(p) => p \notin Owners /\ Owners' = Owners \union {p}
           /\ CloseFail(p) \/ Release(p) \/ HandoffErr(p)
                => p \in Owners /\ Owners' = Owners \ {p}
           /\ HandoffOk(p) =>
                /\ p \in Owners /\ serving[p] \in Callers \ Owners
                /\ Owners' = (Owners \ {p}) \union {serving[p]}
<1> USE DEF TypeOK, RequestProtocol, Owners, Owns, pcs, requests, At, Running
<1>1. Enqueue(p) => Owners' = Owners
  BY DEF Enqueue
<1>2. LetThrough(p) => Owners' = Owners
  BY DEF LetThrough
<1>3. OpenFail(p) => Owners' = Owners
  BY DEF OpenFail
<1>4. ReceiveConn(p) => Owners' = Owners
  BY DEF ReceiveConn
<1>5. ReceiveErr(p) => Owners' = Owners
  BY DEF ReceiveErr
<1>6. ReceiveClosed(p) => Owners' = Owners
  BY DEF ReceiveClosed
<1>7. Use(p) => Owners' = Owners
  BY DEF Use
<1>8. HandoffPanic(p) => Owners' = Owners
  BY DEF HandoffPanic
<1>9. ASSUME NEW q \in Callers, TakeRequest(p, q) PROVE Owners' = Owners
  BY <1>9 DEF TakeRequest
<1>10. OpenOk(p) => p \notin Owners /\ Owners' = Owners \union {p}
  BY DEF OpenOk
<1>11. CloseFail(p) => p \in Owners /\ Owners' = Owners \ {p}
  BY DEF CloseFail
<1>12. Release(p) => p \in Owners /\ Owners' = Owners \ {p}
  BY DEF Release
<1>13. HandoffErr(p) => p \in Owners /\ Owners' = Owners \ {p}
  BY NoCallerIsNone DEF HandoffErr, EndHandoff
<1>14. HandoffOk(p) =>
         /\ p \in Owners /\ serving[p] \in Callers \ Owners
         /\ Owners' = (Owners \ {p}) \union {serving[p]}
  BY NoCallerIsNone DEF HandoffOk, EndHandoff
<1> QED
  BY <1>1, <1>2, <1>3, <1>4, <1>5, <1>6, <1>7, <1>8, <1>9, <1>10, <1>11,
     <1>12, <1>13, <1>14

(* The life of a request.                                                  *)

\* The types, but for numOpen >= 0 and the protocol of requests, are kept by
\* every action: none of them looks at a counter.
LEMMA ProtocolStep ==
    ASSUME TypeOK, RequestProtocol, FreshBeforeSetup, [Next]_vars
    PROVE  RequestProtocol'
<1> USE NoCallerIsNone DEF TypeOK, RequestProtocol, pcs, requests, At, Running
<1>1. ASSUME NEW n \in Limits, SetMaxOpenConns(n) PROVE RequestProtocol'
  BY <1>1 DEF SetMaxOpenConns
<1>2. ASSUME Close PROVE RequestProtocol'
  BY <1>2 DEF Close
<1>3. ASSUME NEW p \in Callers, StartCall(p) PROVE RequestProtocol'
  <2>1. CASE Refuse(p)
    BY <2>1 DEF Refuse, vars
  <2>2. CASE Enqueue(p)
    BY <2>2 DEF Enqueue
  <2>3. CASE LetThrough(p)
    BY <2>3 DEF LetThrough
  <2> QED
    BY <1>3, <2>1, <2>2, <2>3 DEF StartCall
<1>4. ASSUME NEW p \in Callers, Continue(p) PROVE RequestProtocol'
  <2>1. CASE OpenOk(p)
    BY <2>1 DEF OpenOk
  <2>2. CASE OpenFail(p)
    BY <2>2 DEF OpenFail
  <2>3. CASE ReceiveConn(p)
    BY <2>3 DEF ReceiveConn
  <2>4. CASE ReceiveErr(p)
    BY <2>4 DEF ReceiveErr
  <2>5. CASE ReceiveClosed(p)
    BY <2>5 DEF ReceiveClosed
  <2>6. CASE Use(p)
    BY <2>6 DEF Use
  <2>7. CASE CloseFail(p)
    BY <2>7 DEF CloseFail
  <2>8. CASE Release(p)
    BY <2>8 DEF Release
  <2>9. ASSUME NEW q \in Callers, TakeRequest(p, q) PROVE RequestProtocol'
    BY <2>9 DEF TakeRequest
  <2>10. CASE HandoffOk(p)
    BY <2>10 DEF HandoffOk, EndHandoff
  <2>11. CASE HandoffErr(p)
    BY <2>11 DEF HandoffErr, EndHandoff
  <2>12. CASE HandoffPanic(p)
    BY <2>12 DEF HandoffPanic
  <2> QED
    BY <1>4, <2>1, <2>2, <2>3, <2>4, <2>5, <2>6, <2>7, <2>8, <2>9, <2>10,
       <2>11, <2>12 DEF Continue
<1>5. CASE UNCHANGED vars
  BY <1>5 DEF vars
<1> QED
  BY <1>1, <1>2, <1>3, <1>4, <1>5 DEF Next

(* The counters.                                                           *)

\* Types: numOpen is decremented only by an owner, which it counts.
LEMMA TypeStep ==
    ASSUME TypeOK, RequestProtocol, FreshBeforeSetup, SlotAccounting,
           [Next]_vars
    PROVE  TypeOK'
<1> USE BoundsAreNats DEF TypeOK, pcs, requests, At, Running
<1>1. ASSUME NEW n \in Limits, SetMaxOpenConns(n) PROVE TypeOK'
  BY <1>1, LimitsAreInts DEF SetMaxOpenConns
<1>2. ASSUME Close PROVE TypeOK'
  BY <1>2 DEF Close
<1>3. ASSUME NEW p \in Callers, StartCall(p) PROVE TypeOK'
  BY <1>3 DEF StartCall, Refuse, Enqueue, LetThrough, vars
<1>4. ASSUME NEW p \in Callers, Continue(p) PROVE TypeOK'
  <2>1. CASE OpenOk(p)
    BY <2>1 DEF OpenOk
  <2>2. CASE OpenFail(p)
    BY <2>2 DEF OpenFail, LateConnection
  <2>3. CASE ReceiveConn(p) \/ ReceiveErr(p) \/ ReceiveClosed(p) \/ Use(p)
    BY <2>3 DEF ReceiveConn, ReceiveErr, ReceiveClosed, Use
  <2>4. CASE CloseFail(p)
    BY <2>4 DEF CloseFail
  <2>5. CASE Release(p)
    <3>1. p \in Owners
      BY <2>5, OwnersStep
    <3>2. numOpen > 0
      <4>1. Cardinality(Owners) # 0
        BY <3>1, CountedSetsFinite, FS_EmptySet
      <4> QED
        BY <4>1, CountedSetsFinite DEF SlotAccounting
    <3> QED
      BY <2>5, <3>2 DEF Release
  <2>6. ASSUME NEW q \in Callers, TakeRequest(p, q) PROVE TypeOK'
    BY <2>6 DEF TakeRequest
  <2>7. CASE HandoffOk(p)
    BY <2>7 DEF HandoffOk, EndHandoff
  <2>8. CASE HandoffErr(p)
    <3>1. orphans' \in Nat
      BY <2>8 DEF HandoffErr, LateConnection
    <3>2. leaked' \in Nat
      BY <2>8 DEF HandoffErr
    <3>3. /\ pc' \in [Callers -> pcs]
          /\ serving' \in [Callers -> Callers \union {NoCaller}]
      BY <2>8 DEF HandoffErr, EndHandoff
    <3>4. request' \in [Callers -> requests]
      BY <2>8 DEF HandoffErr
    <3> QED
      BY <2>8, <3>1, <3>2, <3>3, <3>4 DEF HandoffErr
  <2>9. CASE HandoffPanic(p)
    BY <2>9 DEF HandoffPanic
  <2> QED
    BY <1>4, <2>1, <2>2, <2>3, <2>4, <2>5, <2>6, <2>7, <2>8, <2>9 DEF Continue
<1>5. CASE UNCHANGED vars
  BY <1>5 DEF vars
<1> QED
  BY <1>1, <1>2, <1>3, <1>4, <1>5 DEF Next

\* numOpen follows the owners and the lost slots, action by action.
LEMMA AccountingStep ==
    ASSUME TypeOK, RequestProtocol, FreshBeforeSetup, SlotAccounting,
           [Next]_vars
    PROVE  SlotAccounting'
<1> USE CountedSetsFinite DEF SlotAccounting
<1>1. ASSUME NEW n \in Limits, SetMaxOpenConns(n) PROVE SlotAccounting'
  BY <1>1 DEF SetMaxOpenConns, Owners, Owns
<1>2. ASSUME Close PROVE SlotAccounting'
  <2>1. Owners' = Owners
    BY <1>2 DEF Close, Owners, Owns, RequestProtocol, TypeOK, Running
  <2> QED
    BY <1>2, <2>1 DEF Close
<1>3. ASSUME NEW p \in Callers, StartCall(p) PROVE SlotAccounting'
  <2>1. Owners' = Owners
    BY <1>3, OwnersStep DEF StartCall, Refuse, vars, Owners, Owns
  <2> QED
    BY <1>3, <2>1 DEF StartCall, Refuse, Enqueue, LetThrough, vars
<1>4. ASSUME NEW p \in Callers, Continue(p) PROVE SlotAccounting'
  <2>1. CASE OpenOk(p)
    <3>1. Cardinality(Owners') = Cardinality(Owners) + 1
      BY <2>1, OwnersStep, FS_AddElement
    <3> QED
      BY <2>1, <3>1 DEF OpenOk, TypeOK
  <2>2. CASE OpenFail(p) \/ ReceiveConn(p) \/ ReceiveErr(p)
             \/ ReceiveClosed(p) \/ Use(p) \/ HandoffPanic(p)
    <3>1. Owners' = Owners
      BY <2>2, OwnersStep
    <3> QED
      BY <2>2, <3>1 DEF OpenFail, ReceiveConn, ReceiveErr, ReceiveClosed, Use,
                        HandoffPanic
  <2>3. CASE CloseFail(p) \/ Release(p) \/ HandoffErr(p)
    <3>1. Cardinality(Owners') = Cardinality(Owners) - 1
      BY <2>3, OwnersStep, FS_RemoveElement
    <3> QED
      BY <2>3, <3>1 DEF CloseFail, Release, HandoffErr, TypeOK
  <2>4. ASSUME NEW q \in Callers, TakeRequest(p, q) PROVE SlotAccounting'
    BY <2>4, OwnersStep DEF TakeRequest
  <2>5. CASE HandoffOk(p)
    <3>1. /\ IsFiniteSet(Owners \ {p})
          /\ Cardinality(Owners \ {p}) = Cardinality(Owners) - 1
      BY <2>5, OwnersStep, FS_RemoveElement
    <3>2. Cardinality(Owners') = Cardinality(Owners \ {p}) + 1
      BY <2>5, <3>1, OwnersStep, FS_AddElement
    <3> QED
      BY <2>5, <3>1, <3>2 DEF HandoffOk
  <2> QED
    BY <1>4, <2>1, <2>2, <2>3, <2>4, <2>5 DEF Continue
<1>5. CASE UNCHANGED vars
  BY <1>5 DEF vars, Owners, Owns
<1> QED
  BY <1>1, <1>2, <1>3, <1>4, <1>5 DEF Next

\* releaseConn goes below the limit only with an empty queue.
LEMMA QueueStep ==
    ASSUME TypeOK, FreshBeforeSetup, QueueOnlyWhenFull, [Next]_vars
    PROVE  QueueOnlyWhenFull'
<1> USE DEF TypeOK, QueueOnlyWhenFull, Full, Limited
<1>1. ASSUME NEW n \in Limits, SetMaxOpenConns(n) PROVE QueueOnlyWhenFull'
  BY <1>1 DEF SetMaxOpenConns, FreshBeforeSetup
<1>2. ASSUME Close PROVE QueueOnlyWhenFull'
  BY <1>2 DEF Close
<1>3. ASSUME NEW p \in Callers, StartCall(p) PROVE QueueOnlyWhenFull'
  BY <1>3 DEF StartCall, Refuse, Enqueue, LetThrough, vars
<1>4. ASSUME NEW p \in Callers, Continue(p) PROVE QueueOnlyWhenFull'
  BY <1>4 DEF Continue, OpenOk, OpenFail, ReceiveConn, ReceiveErr,
              ReceiveClosed, Use, CloseFail, Release, TakeRequest, HandoffOk,
              HandoffErr, HandoffPanic
<1>5. CASE UNCHANGED vars
  BY <1>5 DEF vars
<1> QED
  BY <1>1, <1>2, <1>3, <1>4, <1>5 DEF Next

\* A caller let through finds numOpen below the limit, and at most all
\* callers are let through at a time.
LEMMA OvershootStep ==
    ASSUME TypeOK, RequestProtocol, FreshBeforeSetup, OvershootBound,
           [Next]_vars
    PROVE  OvershootBound'
<1> USE CountedSetsFinite DEF OvershootBound, Limited, TypeOK
<1>1. ASSUME NEW n \in Limits, SetMaxOpenConns(n) PROVE OvershootBound'
  <2>1. Opening = {} /\ Opening' = {}
    BY <1>1 DEF SetMaxOpenConns, FreshBeforeSetup, Opening
  <2>2. Cardinality(Opening') = 0
    BY <2>1, FS_EmptySet
  <2> QED
    BY <1>1, <2>2, LimitsAreInts DEF SetMaxOpenConns, FreshBeforeSetup
<1>2. ASSUME Close PROVE OvershootBound'
  BY <1>2 DEF Close, Opening
<1>3. ASSUME NEW p \in Callers, StartCall(p) PROVE OvershootBound'
  <2>1. CASE Refuse(p)
    BY <2>1 DEF Refuse, vars, Opening
  <2>2. CASE Enqueue(p)
    <3>1. Opening' = Opening
      BY <2>2 DEF Enqueue, At, Opening
    <3> QED
      BY <2>2, <3>1 DEF Enqueue
  <2>3. CASE LetThrough(p)
    <3>1. Opening' \in SUBSET Callers
      BY DEF Opening
    <3>2. /\ Cardinality(Opening') <= Cardinality(Callers)
          /\ Cardinality(Opening') \in Nat
      BY <3>1, CallersFinite, FS_Subset, FS_CardinalityType
    <3> QED
      BY <2>3, <3>2 DEF LetThrough, Full
  <2> QED
    BY <1>3, <2>1, <2>2, <2>3 DEF StartCall
<1>4. ASSUME NEW p \in Callers, Continue(p) PROVE OvershootBound'
  <2>1. CASE OpenOk(p) \/ OpenFail(p)
    <3>1. p \in Opening /\ Opening' = Opening \ {p}
      BY <2>1 DEF OpenOk, OpenFail, At, Opening, pcs
    <3>2. Cardinality(Opening') = Cardinality(Opening) - 1
      BY <3>1, FS_RemoveElement
    <3> QED
      BY <2>1, <3>2 DEF OpenOk, OpenFail
  <2>2. CASE ReceiveConn(p) \/ ReceiveErr(p) \/ ReceiveClosed(p) \/ Use(p)
    <3>1. Opening' = Opening
      BY <2>2 DEF ReceiveConn, ReceiveErr, ReceiveClosed, Use, At, Opening
    <3> QED
      BY <2>2, <3>1 DEF ReceiveConn, ReceiveErr, ReceiveClosed, Use
  <2>3. CASE CloseFail(p) \/ Release(p)
    <3>1. Opening' = Opening
      BY <2>3 DEF CloseFail, Release, At, Opening
    <3> QED
      BY <2>3, <3>1 DEF CloseFail, Release
  <2>4. ASSUME NEW q \in Callers, TakeRequest(p, q) PROVE OvershootBound'
    <3>1. Opening' = Opening
      BY <2>4 DEF TakeRequest, At, Opening
    <3> QED
      BY <2>4, <3>1 DEF TakeRequest
  <2>5. CASE HandoffOk(p) \/ HandoffErr(p) \/ HandoffPanic(p)
    <3>1. Opening' = Opening
      BY <2>5 DEF HandoffOk, HandoffErr, HandoffPanic, EndHandoff, At, Opening
    <3> QED
      BY <2>5, <3>1 DEF HandoffOk, HandoffErr, HandoffPanic
  <2> QED
    BY <1>4, <2>1, <2>2, <2>3, <2>4, <2>5 DEF Continue
<1>5. CASE UNCHANGED vars
  BY <1>5 DEF vars, Opening
<1> QED
  BY <1>1, <1>2, <1>3, <1>4, <1>5 DEF Next

\* The first request is queued by a caller that owns nothing while the
\* limit is used up, and lost slots stay lost.
LEMMA LossesStep ==
    ASSUME TypeOK, RequestProtocol, FreshBeforeSetup, SlotAccounting,
           HandoffNeedsLosses, [Next]_vars
    PROVE  HandoffNeedsLosses'
<1> USE CountedSetsFinite DEF HandoffNeedsLosses, TypeOK
<1>1. ASSUME NEW n \in Limits, SetMaxOpenConns(n) PROVE HandoffNeedsLosses'
  BY <1>1 DEF SetMaxOpenConns, FreshBeforeSetup
<1>2. ASSUME Close PROVE HandoffNeedsLosses'
  BY <1>2 DEF Close
<1>3. ASSUME NEW p \in Callers, StartCall(p) PROVE HandoffNeedsLosses'
  <2>1. CASE Refuse(p)
    BY <2>1 DEF Refuse, vars
  <2>2. CASE Enqueue(p)
    <3>1. p \notin Owners
      BY <2>2 DEF Enqueue, At, Owners, Owns, RequestProtocol
    <3>2. Cardinality(Owners) < Cardinality(Callers)
      BY <3>1, OneOutside
    <3> QED
      BY <2>2, <3>2 DEF Enqueue, Full, Limited, SlotAccounting
  <2>3. CASE LetThrough(p)
    BY <2>3 DEF LetThrough
  <2> QED
    BY <1>3, <2>1, <2>2, <2>3 DEF StartCall
<1>4. ASSUME NEW p \in Callers, Continue(p) PROVE HandoffNeedsLosses'
  <2>1. CASE OpenOk(p) \/ OpenFail(p) \/ ReceiveConn(p) \/ ReceiveErr(p)
             \/ ReceiveClosed(p) \/ Use(p)
    BY <2>1 DEF OpenOk, OpenFail, ReceiveConn, ReceiveErr, ReceiveClosed, Use
  <2>2. CASE CloseFail(p) \/ Release(p)
    BY <2>2 DEF CloseFail, Release
  <2>3. ASSUME NEW q \in Callers, TakeRequest(p, q) PROVE HandoffNeedsLosses'
    BY <2>3 DEF TakeRequest
  <2>4. CASE HandoffOk(p) \/ HandoffErr(p) \/ HandoffPanic(p)
    BY <2>4 DEF HandoffOk, HandoffErr, HandoffPanic, EndHandoff, At
  <2> QED
    BY <1>4, <2>1, <2>2, <2>3, <2>4 DEF Continue
<1>5. CASE UNCHANGED vars
  BY <1>5 DEF vars
<1> QED
  BY <1>1, <1>2, <1>3, <1>4, <1>5 DEF Next

\* Nothing but SetMaxOpenConns leaves the initial state.
LEMMA FreshStep ==
    ASSUME FreshBeforeSetup, [Next]_vars
    PROVE  FreshBeforeSetup'
<1> USE DEF FreshBeforeSetup
<1>1. ASSUME NEW n \in Limits, SetMaxOpenConns(n) PROVE FreshBeforeSetup'
  BY <1>1 DEF SetMaxOpenConns
<1>2. ASSUME Close PROVE FreshBeforeSetup'
  BY <1>2 DEF Close, Running
<1>3. ASSUME NEW p \in Callers, StartCall(p) \/ Continue(p)
      PROVE  FreshBeforeSetup'
  <2>1. CASE Running
    BY <1>3, <2>1 DEF Running, StartCall, Refuse, Enqueue, LetThrough, vars,
        Continue, OpenOk, OpenFail, ReceiveConn, ReceiveErr, ReceiveClosed,
        Use, CloseFail, Release, TakeRequest, HandoffOk, HandoffErr,
        HandoffPanic
  <2>2. CASE ~Running
    BY <1>3, <2>2 DEF At, StartCall, Refuse, Enqueue, LetThrough, Continue,
        OpenOk, OpenFail, ReceiveConn, ReceiveErr, ReceiveClosed, Use,
        CloseFail, Release, TakeRequest, HandoffOk, HandoffErr, HandoffPanic
  <2> QED
    BY <2>1, <2>2
<1>4. CASE UNCHANGED vars
  BY <1>4 DEF vars
<1> QED
  BY <1>1, <1>2, <1>3, <1>4 DEF Next

(* The theorems.                                                           *)

\* The pool NewConnPool returns satisfies the inductive invariant.
LEMMA InitIndInv == Init => IndInv
<1> SUFFICES ASSUME Init PROVE IndInv
  OBVIOUS
<1>1. TypeOK /\ RequestProtocol /\ FreshBeforeSetup
  BY NoCallerIsNone
     DEF Init, TypeOK, RequestProtocol, FreshBeforeSetup, pcs, requests
<1>2. Owners = {} /\ Opening = {}
  BY DEF Init, Owners, Owns, Opening
<1>3. SlotAccounting
  BY <1>2, FS_EmptySet DEF Init, SlotAccounting
<1>4. QueueOnlyWhenFull /\ OvershootBound /\ HandoffNeedsLosses
  BY DEF Init, QueueOnlyWhenFull, OvershootBound, HandoffNeedsLosses, Limited
<1> QED
  BY <1>1, <1>3, <1>4 DEF IndInv

\* Every stretch of conn(), releaseConn() and Close preserves it.
LEMMA NextIndInv == IndInv /\ [Next]_vars => IndInv'
  BY TypeStep, ProtocolStep, FreshStep, AccountingStep, QueueStep,
     OvershootStep, LossesStep DEF IndInv

\* The inductive invariant, from which the theorems below follow: whatever the
\* callers do, requests, slots and counters stay in step with each other.
THEOREM IndInvHolds == Spec => []IndInv
<1>1. IndInv /\ [Next]_vars => IndInv'
  BY NextIndInv
<1> QED
  BY InitIndInv, <1>1, PTL DEF Spec

\* Types of the pool's state hold; in particular numOpen never goes below
\* zero, although releaseConn decrements it without a check.
THEOREM TypeCorrect == Spec => []TypeOK
<1>1. IndInv => TypeOK
  BY DEF IndInv
<1> QED
  BY IndInvHolds, <1>1, PTL

\* numOpen is exactly the number of owned slots plus the lost ones: the
\* increments and decrements of conn() and releaseConn() balance in every
\* interleaving of any number of callers.
THEOREM SlotsAccounted == Spec => []SlotAccounting
<1>1. IndInv => SlotAccounting
  BY DEF IndInv
<1> QED
  BY IndInvHolds, <1>1, PTL

\* conn() queues and releaseConn() unqueues so that requests wait only at a
\* pool that is full.
THEOREM QueueOnlyAtLimit == Spec => []QueueOnlyWhenFull
<1>1. IndInv => QueueOnlyWhenFull
  BY DEF IndInv
<1> QED
  BY IndInvHolds, <1>1, PTL

\* The check of the limit in conn() and the count after the dial let the
\* pool pass its limit by fewer than the number of callers, never more.
THEOREM OvershootBounded == Spec => []OvershootBound
<1>1. IndInv => OvershootBound
  BY DEF IndInv
<1> QED
  BY IndInvHolds, <1>1, PTL

\* Queued callers are stranded only when the lost slots fill the limit.
THEOREM StrandedByLossOnly == Spec => []StrandedOnlyByLeak
<1>1. ASSUME IndInv, connRequests # {}, Owners = {} PROVE leaked >= maxOpen
  <2>1. Cardinality(Owners) = 0
    BY <1>1, FS_EmptySet
  <2> QED
    BY <1>1, <2>1
       DEF IndInv, SlotAccounting, QueueOnlyWhenFull, Full, TypeOK
<1>2. IndInv => StrandedOnlyByLeak
  BY <1>1 DEF StrandedOnlyByLeak
<1> QED
  BY IndInvHolds, <1>2, PTL

\* A pool with as many slots left as callers never queues a request, and
\* closing it never makes a handoff panic.
THEOREM QueueByLossOnly == Spec => []QueueNeedsLosses
<1>1. IndInv => QueueNeedsLosses
  BY DEF IndInv, HandoffNeedsLosses, QueueNeedsLosses
<1> QED
  BY IndInvHolds, <1>1, PTL

\* An unanswered request is in connRequests or in the hands of exactly one
\* goroutine in releaseConn.
THEOREM RequestsKept == Spec => []RequestNotLost
<1>1. ASSUME IndInv, NEW q \in Callers, request[q] = "open",
             NEW S, S = {p \in Callers : pc[p] = "handoff" /\ serving[p] = q}
      PROVE  IF q \in connRequests THEN S = {} ELSE Cardinality(S) = 1
  <2>1. CASE q \in connRequests
    BY <1>1, <2>1 DEF IndInv, RequestProtocol
  <2>2. CASE q \notin connRequests
    <3>1. PICK r \in Callers : serving[r] = q
      BY <1>1, <2>2 DEF IndInv, RequestProtocol
    <3>2. pc[r] = "handoff"
      BY <1>1, <3>1, NoCallerIsNone DEF IndInv, RequestProtocol
    <3>3. S = {r}
      BY <1>1, <3>1, <3>2 DEF IndInv, RequestProtocol
    <3> QED
      BY <2>2, <3>3, FS_Singleton
  <2> QED
    BY <2>1, <2>2
<1>2. IndInv => RequestNotLost
  BY <1>1 DEF RequestNotLost
<1> QED
  BY IndInvHolds, <1>2, PTL

\* An answer sent under the lock is taken by its waiter; neither another
\* handoff nor Close touches the channel before that.
THEOREM AnswersTaken == Spec => AnswerTakenByWaiter
<1>1. ASSUME IndInv, [Next]_vars PROVE AnswerTaken
  <2> USE <1>1 DEF AnswerTaken, IndInv, TypeOK, RequestProtocol, pcs, requests, At, Running
  <2>1. ASSUME NEW n \in Limits, SetMaxOpenConns(n) PROVE AnswerTaken
    BY <2>1 DEF SetMaxOpenConns
  <2>2. CASE Close
    BY <2>2 DEF Close
  <2>3. ASSUME NEW p \in Callers, StartCall(p) PROVE AnswerTaken
    BY <2>3 DEF StartCall, Refuse, Enqueue, LetThrough, vars
  <2>4. ASSUME NEW p \in Callers, Continue(p) PROVE AnswerTaken
    <3>1. CASE ReceiveConn(p) \/ ReceiveErr(p) \/ ReceiveClosed(p)
      BY <3>1 DEF ReceiveConn, ReceiveErr, ReceiveClosed
    <3>2. CASE HandoffOk(p) \/ HandoffErr(p)
      <4>1. request[serving[p]] \in {"open", "closed"}
        BY <3>2 DEF HandoffOk, HandoffErr
      <4> QED
        BY <3>2, <4>1 DEF HandoffOk, HandoffErr
    <3>3. CASE UNCHANGED request
      BY <3>3
    <3> QED
      BY <2>4, <3>1, <3>2, <3>3
         DEF Continue, OpenOk, OpenFail, Use, CloseFail, Release, TakeRequest,
             HandoffPanic
  <2>5. CASE UNCHANGED vars
    BY <2>5 DEF vars
  <2> QED
    BY <2>1, <2>2, <2>3, <2>4, <2>5 DEF Next
<1> QED
  BY IndInvHolds, <1>1, PTL DEF Spec, AnswerTakenByWaiter

(* Refinement.                                                             *)

\* Steps of a call, seen by the limiter.
LEMMA ContinueRefines ==
    ASSUME IndInv, NEW p \in Callers, Continue(p)
    PROVE  [Limiter!LimiterNext]_(Limiter!limiterVars)
<1> USE CountedSetsFinite DEF IndInv, Limiter!limiterVars
<1> DEFINE Goal == [Limiter!LimiterNext]_(Limiter!limiterVars)
<1>1. CASE OpenOk(p)
  <2>1. p \notin Owners /\ Owners' = Owners \union {p}
    BY <1>1, OwnersStep
  <2>2. Limited => numOpen + 1 < maxOpen + Cardinality(Callers)
    <3>1. p \in Opening
      BY <1>1 DEF OpenOk, At, Opening
    <3>2. Cardinality(Opening) # 0
      BY <3>1, CountedSetsFinite, FS_EmptySet
    <3> QED
      BY <3>2, CountedSetsFinite DEF OvershootBound, TypeOK
  <2>3. Cardinality(Owners') = Cardinality(Owners) + 1
    BY <2>1, FS_AddElement
  <2>4. Limiter!Acquire(p)
    BY <1>1, <2>1, <2>2, <2>3
       DEF OpenOk, Limiter!Acquire, SlotAccounting, Limited, TypeOK
  <2> QED
    BY <2>4 DEF Limiter!LimiterNext
<1>2. CASE OpenFail(p) \/ ReceiveConn(p) \/ ReceiveErr(p)
           \/ ReceiveClosed(p) \/ Use(p) \/ HandoffPanic(p)
  <2>1. Owners' = Owners
    BY <1>2, OwnersStep
  <2> QED
    BY <1>2, <2>1 DEF OpenFail, ReceiveConn, ReceiveErr, ReceiveClosed, Use,
                      HandoffPanic
<1>3. CASE CloseFail(p) \/ HandoffErr(p)
  <2>1. p \in Owners /\ Owners' = Owners \ {p}
    BY <1>3, OwnersStep
  <2>2. Cardinality(Owners') = Cardinality(Owners) - 1
    BY <2>1, FS_RemoveElement
  <2>3. Limiter!Lose(p)
    BY <1>3, <2>1, <2>2 DEF CloseFail, HandoffErr, Limiter!Lose, TypeOK
  <2> QED
    BY <2>3 DEF Limiter!LimiterNext
<1>4. CASE Release(p)
  <2>1. p \in Owners /\ Owners' = Owners \ {p}
    BY <1>4, OwnersStep
  <2>2. Cardinality(Owners') = Cardinality(Owners) - 1
    BY <2>1, FS_RemoveElement
  <2>3. Limiter!GiveBack(p)
    BY <1>4, <2>1, <2>2 DEF Release, Limiter!GiveBack, TypeOK
  <2> QED
    BY <2>3 DEF Limiter!LimiterNext
<1>5. ASSUME NEW q \in Callers, TakeRequest(p, q) PROVE Goal
  <2>1. Owners' = Owners
    BY <1>5, OwnersStep
  <2> QED
    BY <1>5, <2>1 DEF TakeRequest
<1>6. CASE HandoffOk(p)
  <2>1. /\ p \in Owners /\ serving[p] \in Callers \ Owners
        /\ Owners' = (Owners \ {p}) \union {serving[p]}
    BY <1>6, OwnersStep
  <2>2. /\ IsFiniteSet(Owners \ {p})
        /\ Cardinality(Owners \ {p}) = Cardinality(Owners) - 1
    BY <2>1, FS_RemoveElement
  <2>3. Cardinality(Owners') = Cardinality(Owners)
    <3>1. Cardinality(Owners') = Cardinality(Owners \ {p}) + 1
      BY <2>1, <2>2, FS_AddElement
    <3> QED
      BY <2>2, <3>1
  <2>4. Limiter!Transfer(p, serving[p])
    BY <1>6, <2>1, <2>3 DEF HandoffOk, Limiter!Transfer
  <2> QED
    BY <2>1, <2>4 DEF Limiter!LimiterNext
<1> QED
  BY <1>1, <1>2, <1>3, <1>4, <1>5, <1>6 DEF Continue

\* The pool implements the limiter: whatever conn(), releaseConn() and Close
\* do with the map, the channels and the two critical sections, a caller
\* sees one slot taken, passed on, given back or lost at a time, and never
\* more slots in use than the limit plus the other callers.
THEOREM PoolImplementsLimiter == Spec => ImplementsLimiter
<1>1. Init => Limiter!LimiterInit
  <2> SUFFICES ASSUME Init PROVE Limiter!LimiterInit
    OBVIOUS
  <2>1. Owners = {}
    BY DEF Init, Owners, Owns
  <2> QED
    BY <2>1, FS_EmptySet DEF Init, Limiter!LimiterInit
<1>2. ASSUME IndInv, [Next]_vars
      PROVE  [Limiter!LimiterNext]_(Limiter!limiterVars)
  <2> USE <1>2 DEF Limiter!limiterVars
  <2> DEFINE Goal == [Limiter!LimiterNext]_(Limiter!limiterVars)
  <2>1. ASSUME NEW n \in Limits, SetMaxOpenConns(n) PROVE Goal
    <3>1. Owners' = Owners /\ Owners = {}
      BY <2>1 DEF SetMaxOpenConns, Owners, Owns, IndInv, FreshBeforeSetup
    <3>2. Cardinality(Owners) + leaked = 0
      BY <2>1, <3>1, FS_EmptySet
         DEF SetMaxOpenConns, IndInv, FreshBeforeSetup
    <3>3. Limiter!SetLimit
      BY <2>1, <3>1, <3>2, LimitsAreInts DEF SetMaxOpenConns, Limiter!SetLimit
    <3> QED
      BY <3>3 DEF Limiter!LimiterNext
  <2>2. CASE Close
    <3>1. Owners' = Owners
      BY <2>2
         DEF Close, Owners, Owns, IndInv, RequestProtocol, TypeOK, Running
    <3> QED
      BY <2>2, <3>1 DEF Close
  <2>3. ASSUME NEW p \in Callers, StartCall(p) PROVE Goal
    <3>1. Owners' = Owners
      BY <2>3, OwnersStep DEF StartCall, Refuse, vars, Owners, Owns, IndInv
    <3> QED
      BY <2>3, <3>1 DEF StartCall, Refuse, Enqueue, LetThrough, vars
  <2>4. ASSUME NEW p \in Callers, Continue(p) PROVE Goal
    BY <2>4, ContinueRefines
  <2>5. CASE UNCHANGED vars
    BY <2>5 DEF vars, Owners, Owns
  <2> QED
    BY <2>1, <2>2, <2>3, <2>4, <2>5 DEF Next
<1> QED
  BY IndInvHolds, <1>1, <1>2, PTL DEF Spec, ImplementsLimiter, Limiter!LimiterSpec

=============================================================================
