------------------------------ MODULE ConnPool ------------------------------
(***************************************************************************)
(* The pool of controller connections of the remote control client,        *)
(* internal/remote-control-client/plc/connpool.go.                         *)
(*                                                                         *)
(* A call of ReadTagAddress, WriteTagAddress or Ping runs in its caller's  *)
(* goroutine: conn() takes a slot or queues a request, the operation uses  *)
(* the connection, releaseConn() closes it and, when requests are queued,  *)
(* opens a new connection for one of them.  The mutex is held for short    *)
(* stretches and never across a network call, so a step here is one such   *)
(* stretch, or the network call between two of them.                       *)
(*                                                                         *)
(* The mutex itself is not a variable: between Lock and Unlock the code    *)
(* never waits.  (The one send under the lock goes to a channel of         *)
(* capacity 1 that is written once.)                                       *)
(*                                                                         *)
(* The contexts the callers pass are not modelled: they are cancelled only *)
(* after Close (cmd/remote-control-client/main.go:44-45).                  *)
(***************************************************************************)
EXTENDS Integers, FiniteSets

CONSTANTS
    Callers,            \* goroutines that call the pool
    Limits,             \* arguments given to SetMaxOpenConns
    MaxLeaked,          \* bound: slots lost by failed closes and handoffs
    MaxOrphans,         \* bound: connections that open after the timeout
    NoCaller            \* not a caller

ASSUME CallersFinite == IsFiniteSet(Callers) /\ Callers # {}
ASSUME LimitsAreInts == Limits \subseteq Int
ASSUME BoundsAreNats == MaxLeaked \in Nat /\ MaxOrphans \in Nat
ASSUME NoCallerIsNone == NoCaller \notin Callers

VARIABLES
    maxOpen,            \* field maxOpen, 0: unlimited
    configured,         \* SetMaxOpenConns has returned, the callers may start
    numOpen,            \* field numOpen
    connRequests,       \* field connRequests: callers whose request is in it
    request,            \* each caller's connRequest channel and its content
    pc,                 \* where each goroutine is in its call
    serving,            \* whose request a releasing goroutine took
    closed,             \* field closed
    panicked,           \* the process died on a send to a closed channel
    leaked,             \* slots counted in numOpen that no goroutine owns
    orphans             \* open connections that no goroutine knows of

vars == <<maxOpen, configured, numOpen, connRequests, request, pc, serving,
          closed, panicked, leaked, orphans>>

pcs == {"idle", "opening", "waiting", "using", "closing", "handoff"}

\* "open" is a channel nothing was sent on; "conn" and "err" the buffered
\* answer; "closed" a channel closed by Close, which stays in the map.
requests == {"none", "open", "conn", "err", "closed"}

Limited == maxOpen > 0

\* Mutation of Full: the comparison off by one.
FullOffByOne == Limited /\ numOpen > maxOpen

Full == Limited /\ numOpen >= maxOpen

\* Goroutines that own a slot counted in numOpen: they use or close its
\* connection, they opened the pool's slot for a queued request, or the
\* connection lies in their channel.
Owns(p) == pc[p] \in {"using", "closing", "handoff"} \/ request[p] = "conn"
Owners == {p \in Callers : Owns(p)}
Opening == {p \in Callers : pc[p] = "opening"}
Waiting == {p \in Callers : pc[p] = "waiting"}

\* Connections the controller certainly has open: in use, or handed over
\* and not yet taken, or opened after the pool stopped waiting for them.
OpenConns == {p \in Callers : pc[p] = "using" \/ request[p] = "conn"}
PlcConns == Cardinality(OpenConns) + orphans

----------------------------------------------------------------------------
(* The pool NewConnPool returns: its first Ping has opened and closed one  *)
(* connection.                                                             *)
Init ==
    /\ maxOpen = 0
    /\ configured = FALSE
    /\ numOpen = 0
    /\ connRequests = {}
    /\ request = [p \in Callers |-> "none"]
    /\ pc = [p \in Callers |-> "idle"]
    /\ serving = [p \in Callers |-> NoCaller]
    /\ closed = FALSE
    /\ panicked = FALSE
    /\ leaked = 0
    /\ orphans = 0

\* The callers start after the pool is set up; a panic ends the process.
Running == configured /\ ~panicked
At(p, l) == Running /\ pc[p] = l

(* Mutations of the actions below, each a mistake releaseConn, Close or     *)
(* SetMaxOpenConns could plausibly contain; no specification uses them.    *)
SetNegativeLimit(n) ==      \* n is stored as it comes
    /\ ~configured
    /\ configured' = TRUE
    /\ maxOpen' = n
    /\ UNCHANGED <<numOpen, connRequests, request, pc, serving, closed,
                   panicked, leaked, orphans>>

ReleaseIgnoringQueue(p) ==  \* the queue is not looked at
    /\ At(p, "closing")
    /\ numOpen' = numOpen - 1
    /\ pc' = [pc EXCEPT ![p] = "idle"]
    /\ UNCHANGED <<maxOpen, configured, connRequests, request, serving,
                   closed, panicked, leaked, orphans>>

ReleaseKeepingCount(p) ==   \* numOpen is not decremented
    /\ At(p, "closing")
    /\ connRequests = {}
    /\ pc' = [pc EXCEPT ![p] = "idle"]
    /\ UNCHANGED <<maxOpen, configured, numOpen, connRequests, request,
                   serving, closed, panicked, leaked, orphans>>

TakeWithoutDelete(p, q) ==  \* the request stays in the map
    /\ At(p, "closing")
    /\ ~ (Limited /\ numOpen - 1 > maxOpen)
    /\ q \in connRequests
    /\ serving' = [serving EXCEPT ![p] = q]
    /\ pc' = [pc EXCEPT ![p] = "handoff"]
    /\ UNCHANGED <<maxOpen, configured, numOpen, connRequests, request,
                   closed, panicked, leaked, orphans>>

TakeWithoutCount(p, q) ==   \* numOpen++ is missing
    /\ At(p, "closing")
    /\ ~ (Limited /\ numOpen - 1 > maxOpen)
    /\ q \in connRequests
    /\ connRequests' = connRequests \ {q}
    /\ serving' = [serving EXCEPT ![p] = q]
    /\ pc' = [pc EXCEPT ![p] = "handoff"]
    /\ numOpen' = numOpen - 1
    /\ UNCHANGED <<maxOpen, configured, request, closed, panicked, leaked,
                   orphans>>

CloseEveryWaiter ==         \* also the waiters whose request was taken
    /\ Running
    /\ ~closed
    /\ closed' = TRUE
    /\ request' = [p \in Callers |->
                    IF pc[p] = "waiting" THEN "closed" ELSE request[p]]
    /\ UNCHANGED <<maxOpen, configured, numOpen, connRequests, pc, serving,
                   panicked, leaked, orphans>>

CloseFlagOnly ==            \* the queued requests are not closed
    /\ Running
    /\ ~closed
    /\ closed' = TRUE
    /\ UNCHANGED <<maxOpen, configured, numOpen, connRequests, request, pc,
                   serving, panicked, leaked, orphans>>

SetMaxOpenConns(n) ==
    /\ ~configured
    /\ configured' = TRUE
    /\ maxOpen' = IF n < 0 THEN 0 ELSE n
    /\ UNCHANGED <<numOpen, connRequests, request, pc, serving, closed,
                   panicked, leaked, orphans>>

(* conn(), up to the first Unlock: refused, queued, or let through.  The   *)
(* caller let through has not counted its slot yet.                        *)
Refuse(p) ==
    /\ At(p, "idle")
    /\ closed
    /\ UNCHANGED vars

Enqueue(p) ==
    /\ At(p, "idle")
    /\ ~closed
    /\ Full
    /\ request' = [request EXCEPT ![p] = "open"]
    /\ connRequests' = connRequests \union {p}
    /\ pc' = [pc EXCEPT ![p] = "waiting"]
    /\ UNCHANGED <<maxOpen, configured, numOpen, serving, closed, panicked,
                   leaked, orphans>>

LetThrough(p) ==
    /\ At(p, "idle")
    /\ ~closed
    /\ ~Full
    /\ pc' = [pc EXCEPT ![p] = "opening"]
    /\ UNCHANGED <<maxOpen, configured, numOpen, connRequests, request,
                   serving, closed, panicked, leaked, orphans>>

(* newConn() gives up: the driver's error, or the timeout.  Nobody reads   *)
(* the driver's answer after the timeout, so the connection it carries is  *)
(* never closed.                                                           *)
LateConnection ==
    \/ UNCHANGED orphans
    \/ orphans < MaxOrphans /\ orphans' = orphans + 1

\* conn(), the dial and the lock after it.
OpenOk(p) ==
    /\ At(p, "opening")
    /\ numOpen' = numOpen + 1
    /\ pc' = [pc EXCEPT ![p] = "using"]
    /\ UNCHANGED <<maxOpen, configured, connRequests, request, serving,
                   closed, panicked, leaked, orphans>>

OpenFail(p) ==
    /\ At(p, "opening")
    /\ pc' = [pc EXCEPT ![p] = "idle"]
    /\ LateConnection
    /\ UNCHANGED <<maxOpen, configured, numOpen, connRequests, request,
                   serving, closed, panicked, leaked>>

(* conn(), the receive from the request's channel.  A closed channel stays *)
(* closed, and stays in connRequests.                                      *)
ReceiveConn(p) ==
    /\ At(p, "waiting")
    /\ request[p] = "conn"
    /\ request' = [request EXCEPT ![p] = "none"]
    /\ pc' = [pc EXCEPT ![p] = "using"]
    /\ UNCHANGED <<maxOpen, configured, numOpen, connRequests, serving,
                   closed, panicked, leaked, orphans>>

ReceiveErr(p) ==
    /\ At(p, "waiting")
    /\ request[p] = "err"
    /\ request' = [request EXCEPT ![p] = "none"]
    /\ pc' = [pc EXCEPT ![p] = "idle"]
    /\ UNCHANGED <<maxOpen, configured, numOpen, connRequests, serving,
                   closed, panicked, leaked, orphans>>

ReceiveClosed(p) ==
    /\ At(p, "waiting")
    /\ request[p] = "closed"
    /\ pc' = [pc EXCEPT ![p] = "idle"]
    /\ UNCHANGED <<maxOpen, configured, numOpen, connRequests, request,
                   serving, closed, panicked, leaked, orphans>>

(* readTagAddress, writeTagAddress or ping: whatever the outcome, its      *)
(* caller goes on to releaseConn.                                          *)
Use(p) ==
    /\ At(p, "using")
    /\ pc' = [pc EXCEPT ![p] = "closing"]
    /\ UNCHANGED <<maxOpen, configured, numOpen, connRequests, request,
                   serving, closed, panicked, leaked, orphans>>

(* releaseConn(): closeConn fails or times out, and the slot is not given  *)
(* back.                                                                   *)
CloseFail(p) ==
    /\ At(p, "closing")
    /\ leaked < MaxLeaked
    /\ leaked' = leaked + 1
    /\ pc' = [pc EXCEPT ![p] = "idle"]
    /\ UNCHANGED <<maxOpen, configured, numOpen, connRequests, request,
                   serving, closed, panicked, orphans>>

(* releaseConn(): closed, nothing to serve or still above the limit.       *)
Release(p) ==
    /\ At(p, "closing")
    /\ (Limited /\ numOpen - 1 > maxOpen) \/ connRequests = {}
    /\ numOpen' = numOpen - 1
    /\ pc' = [pc EXCEPT ![p] = "idle"]
    /\ UNCHANGED <<maxOpen, configured, connRequests, request, serving,
                   closed, panicked, leaked, orphans>>

(* releaseConn(): closed, and the slot goes to a queued request, any one:  *)
(* the map is iterated.  numOpen goes down and up under one lock.          *)
TakeRequest(p, q) ==
    /\ At(p, "closing")
    /\ ~ (Limited /\ numOpen - 1 > maxOpen)
    /\ q \in connRequests
    /\ connRequests' = connRequests \ {q}
    /\ serving' = [serving EXCEPT ![p] = q]
    /\ pc' = [pc EXCEPT ![p] = "handoff"]
    /\ UNCHANGED <<maxOpen, configured, numOpen, request, closed, panicked,
                   leaked, orphans>>

(* releaseConn(): the dial for the queued request, the lock and the send.  *)
EndHandoff(p) ==
    /\ pc' = [pc EXCEPT ![p] = "idle"]
    /\ serving' = [serving EXCEPT ![p] = NoCaller]

HandoffOk(p) ==
    /\ At(p, "handoff")
    /\ request[serving[p]] # "closed"
    /\ request' = [request EXCEPT ![serving[p]] = "conn"]
    /\ EndHandoff(p)
    /\ UNCHANGED <<maxOpen, configured, numOpen, connRequests, closed,
                   panicked, leaked, orphans>>

\* The waiter gets the error and a connection object around nil, returns
\* the error and releases nothing: the slot stays counted.
HandoffErr(p) ==
    /\ At(p, "handoff")
    /\ request[serving[p]] # "closed"
    /\ leaked < MaxLeaked
    /\ leaked' = leaked + 1
    /\ request' = [request EXCEPT ![serving[p]] = "err"]
    /\ EndHandoff(p)
    /\ LateConnection
    /\ UNCHANGED <<maxOpen, configured, numOpen, connRequests, closed,
                   panicked>>

\* Close left the closed channel in the map: the send on it panics.
HandoffPanic(p) ==
    /\ At(p, "handoff")
    /\ request[serving[p]] = "closed"
    /\ panicked' = TRUE
    /\ UNCHANGED <<maxOpen, configured, numOpen, connRequests, request, pc,
                   serving, closed, leaked, orphans>>

(* Close(): the second call does nothing.                                  *)
Close ==
    /\ Running
    /\ ~closed
    /\ closed' = TRUE
    /\ request' = [p \in Callers |->
                    IF p \in connRequests THEN "closed" ELSE request[p]]
    /\ UNCHANGED <<maxOpen, configured, numOpen, connRequests, pc, serving,
                   panicked, leaked, orphans>>

----------------------------------------------------------------------------
StartCall(p) == Refuse(p) \/ Enqueue(p) \/ LetThrough(p)

\* The steps of a call that has begun.
Continue(p) ==
    \/ OpenOk(p) \/ OpenFail(p)
    \/ ReceiveConn(p) \/ ReceiveErr(p) \/ ReceiveClosed(p)
    \/ Use(p)
    \/ CloseFail(p) \/ Release(p)
    \/ \E q \in Callers : TakeRequest(p, q)
    \/ HandoffOk(p) \/ HandoffErr(p) \/ HandoffPanic(p)

Next ==
    \/ \E n \in Limits : SetMaxOpenConns(n)
    \/ \E p \in Callers : StartCall(p) \/ Continue(p)
    \/ Close

Spec == Init /\ [][Next]_vars

(* The scheduler runs every goroutine that is not blocked, and no network  *)
(* call blocks for longer than connTimeout, which is never zero in this    *)
(* program.  Nothing makes a goroutine start a call.                       *)
Fairness == \A p \in Callers : WF_vars(Continue(p))

FairSpec == Spec /\ Fairness

----------------------------------------------------------------------------
(* Safety.                                                                 *)

\* Every variable keeps its type; numOpen never falls below zero although
\* the code decrements it without a look.
TypeOK ==
    /\ maxOpen \in Nat
    /\ configured \in BOOLEAN
    /\ numOpen \in Nat
    /\ connRequests \in SUBSET Callers
    /\ request \in [Callers -> requests]
    /\ pc \in [Callers -> pcs]
    /\ serving \in [Callers -> Callers \union {NoCaller}]
    /\ closed \in BOOLEAN
    /\ panicked \in BOOLEAN
    /\ leaked \in Nat
    /\ orphans \in Nat

\* numOpen counts every slot a goroutine owns, once, plus the slots lost in
\* releaseConn: no interleaving of dials, handoffs and closes counts one
\* twice or forgets one.
SlotAccounting == numOpen = Cardinality(Owners) + leaked

\* A request stays queued only while the pool is at its limit: releaseConn
\* never lowers numOpen under the limit and leaves a request behind.
QueueOnlyWhenFull == connRequests # {} => Full

\* The check of the limit and the count are two critical sections, so the
\* limit can be passed, but by fewer than the number of callers, also when
\* releaseConn keeps serving requests above the limit.
OvershootBound ==
    Limited => numOpen + Cardinality(Opening) < maxOpen + Cardinality(Callers)

\* A request nobody answered or closed is in the map or in the hands of
\* exactly one releasing goroutine: none is dropped, none is taken twice.
RequestNotLost ==
    \A q \in Callers : request[q] = "open" =>
        LET servers == {p \in Callers : pc[p] = "handoff" /\ serving[p] = q}
        IN  IF q \in connRequests THEN servers = {} ELSE Cardinality(servers) = 1

\* Queued callers are left with no goroutine that could serve them only
\* when failed closes and handoffs have eaten the whole limit.
StrandedOnlyByLeak ==
    connRequests # {} => Owners # {} \/ leaked >= maxOpen

\* Nobody queues, and Close cannot make a handoff panic, as long as every
\* caller finds a slot that is not lost: a limit of four and two callers
\* stay clear of both until three slots are lost.
QueueNeedsLosses ==
    connRequests # {} \/ panicked => leaked + Cardinality(Callers) > maxOpen

\* An answer sent to a waiter is taken by that waiter: it is not
\* overwritten (the send under the lock never waits) and Close does not
\* close its channel.
AnswerTaken ==
    \A p \in Callers :
        request[p] \in {"conn", "err"} /\ request'[p] # request[p] =>
            /\ request'[p] = "none"
            /\ pc'[p] # "waiting"
AnswerTakenByWaiter == [][AnswerTaken]_vars

\* The life of a request, as the proofs need it: who may hold a channel in
\* which state, and that the map and the releasing goroutines share out the
\* unanswered requests.
RequestProtocol ==
    /\ \A p \in Callers :
        /\ request[p] \in {"open", "conn", "err"} => pc[p] = "waiting"
        /\ request[p] = "closed" => closed /\ pc[p] \in {"waiting", "idle"}
        /\ pc[p] = "waiting" => request[p] # "none"
        /\ p \in connRequests => request[p] = IF closed THEN "closed" ELSE "open"
        /\ request[p] = "open" => \/ p \in connRequests
                                 \/ \E r \in Callers : serving[r] = p
        /\ pc[p] = "handoff" <=> serving[p] # NoCaller
        /\ pc[p] = "handoff" => /\ serving[p] \notin connRequests
                                /\ request[serving[p]] \in {"open", "closed"}
    /\ \A p, r \in Callers :
        pc[p] = "handoff" /\ serving[p] = serving[r] => p = r

\* Before the pool is set up nothing has happened to it.
FreshBeforeSetup ==
    ~configured =>
        /\ numOpen = 0 /\ leaked = 0 /\ maxOpen = 0
        /\ connRequests = {} /\ ~panicked /\ ~closed
        /\ \A p \in Callers : pc[p] = "idle" /\ request[p] = "none"

\* QueueNeedsLosses, with the moment between queue and panic.
HandoffNeedsLosses ==
    (connRequests # {} \/ panicked \/ \E p \in Callers : pc[p] = "handoff")
        => leaked + Cardinality(Callers) > maxOpen

\* The inductive invariant of ConnPoolProofs.
IndInv ==
    /\ TypeOK
    /\ RequestProtocol
    /\ FreshBeforeSetup
    /\ SlotAccounting
    /\ QueueOnlyWhenFull
    /\ OvershootBound
    /\ HandoffNeedsLosses

(* The pool is a limiter: its owners hold the slots, and the slots taken   *)
(* are those they hold and the leaked ones, whatever numOpen says.         *)
Limiter == INSTANCE ConnLimiter
    WITH limit <- maxOpen, holders <- Owners,
         taken <- Cardinality(Owners) + leaked,
         Overshoot <- Cardinality(Callers)

\* Every step of the pool takes, gives back, passes on or loses one slot,
\* or moves none.
ImplementsLimiter == Limiter!LimiterSpec

----------------------------------------------------------------------------
(* Liveness, under FairSpec.                                               *)

\* While the pool is open, the queue keeps moving unless all slots are lost.
\* Which request moves is up to the iteration order of a Go map.
QueueMoves ==
    \A Q \in SUBSET Callers \ {{}} :
        connRequests = Q ~> connRequests # Q \/ leaked >= maxOpen \/ closed

\* Close wakes every waiting caller, also those whose request a releasing
\* goroutine holds at that moment, unless the process dies.
CloseReleasesWaiters ==
    \A p \in Callers :
        closed /\ pc[p] = "waiting" ~> pc[p] # "waiting" \/ panicked

----------------------------------------------------------------------------
(* What the comment of ConnPool says (connpool.go:26-27).                  *)

\* "The pool works in the mode of limiting the number of simultaneous
\* connections to the PLC."
PlcLimit == Limited => PlcConns <= maxOpen

============================================================================
