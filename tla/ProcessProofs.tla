--------------------------- MODULE ProcessProofs ---------------------------
(***************************************************************************)
(* Proofs about Process, for any number of connections, any settings and   *)
(* any limits of which that of a request is the shorter one.               *)
(*                                                                         *)
(* A request that was being handled when the shutdown began is as old as   *)
(* the shutdown, and no request is handled beyond its limit: it cannot be  *)
(* there any more when the time of the shutdown is over.                   *)
(***************************************************************************)
EXTENDS Process, TLAPS

\* A request that the shutdown found has been handled for as long as that
\* takes, or longer.
CaughtAreOld ==
    \A c \in caught :
        /\ conn[c] \in {"handled", "abandoned", "done"}
        /\ conn[c] = "handled" => grace <= age[c]

\* The clock of the shutdown starts with it, and it runs out if it is forced.
GraceCounts ==
    /\ phase \in {"configuring", "starting", "running", "serving"} => grace = 0
    /\ phase = "forced" => grace = Grace
    /\ program # "api" => \A c \in Conns : conn[c] # "handled"

\* Nobody connects before the program serves.
NobodyEarly ==
    phase \in {"configuring", "starting", "running"}
        => \A c \in Conns : conn[c] = "none"

\* The resources are released when nothing is served any more (Release).
ReleasedDrained == phase \in {"releasing", "ended"} => Drained

ProcessInv ==
    TypeOK /\ CaughtAreOld /\ GraceCounts /\ NobodyEarly /\ ReleasedDrained

LEMMA GraceIsNat == program \in Programs => Grace \in Nat
BY TimesAreNats DEF Grace

LEMMA ConfigTypes ==
    ASSUME NEW p \in Programs, NEW s
    PROVE  newConfig(p, s) \in [Fields(p) -> {"flag", "env", "file", "default", "none"}]
<1>1. \A k : Source(p, s, k) \in {"flag", "env", "file", "default", "none"}
  BY DEF Source
<1> QED
  BY <1>1 DEF newConfig

LEMMA InitProcessInv == Init => ProcessInv
<1> SUFFICES ASSUME Init PROVE ProcessInv
  OBVIOUS
<1>1. Grace \in Nat /\ RequestLimit \in Nat
  BY GraceIsNat, TimesAreNats DEF Init
<1>2. config \in [Fields(program) -> {"flag", "env", "file", "default", "none"}]
  BY DEF Init
<1>3. TypeOK
  <2>1. grace \in 0..Grace /\ age \in [Conns -> 0..RequestLimit]
    BY <1>1 DEF Init
  <2>2. conn \in [Conns -> {"none", "held", "handled", "abandoned", "done"}]
    BY DEF Init
  <2>3. program \in Programs /\ signalled \in BOOLEAN /\ caught \subseteq Conns
    BY DEF Init
  <2>4. settings \in Settings
    BY DEF Init
  <2>5. phase \in {"configuring", "starting", "running", "serving", "stopping",
                   "releasing"} \union Over
    BY DEF Init
  <2> QED
    BY <1>2, <2>1, <2>2, <2>3, <2>4, <2>5 DEF TypeOK
<1> QED
  BY <1>3 DEF Init, ProcessInv, CaughtAreOld, GraceCounts, NobodyEarly,
              ReleasedDrained

LEMMA NextProcessInv == ProcessInv /\ [Next]_vars => ProcessInv'
<1> SUFFICES ASSUME ProcessInv, [Next]_vars PROVE ProcessInv'
  OBVIOUS
<1> USE DEF ProcessInv, TypeOK, CaughtAreOld, GraceCounts, NobodyEarly,
            ReleasedDrained, Over, Drained, start, timers
<1>0. Grace \in Nat /\ RequestLimit \in Nat
  BY GraceIsNat, TimesAreNats
<1>1. CASE UNCHANGED vars
  BY <1>1 DEF vars, Grace
<1>2. CASE ReadConfig
  BY <1>2, <1>0, ConfigTypes DEF ReadConfig, Go, Grace
<1>3. CASE Start \/ Serve \/ Fatal \/ StopEarly \/ End
  BY <1>3, <1>0 DEF Start, Serve, Fatal, StopEarly, End, Go, Grace
<1>4. CASE Stop
  BY <1>4, <1>0 DEF Stop, Go, Grace
<1>5. CASE Release \/ Expire
  BY <1>5, <1>0 DEF Release, Expire, Go, Grace
<1>6. CASE Signal
  BY <1>6, <1>0 DEF Signal, Grace
<1>7. CASE Tick
  BY <1>7, <1>0 DEF Tick, Stopping, Grace
<1>8. ASSUME NEW c \in Conns,
             Connect(c) \/ Leave(c) \/ Handle(c) \/ Answer(c) \/ GiveUp(c)
                 \/ Finish(c)
      PROVE  ProcessInv'
  <2>1. \A from, to :
            Set(c, from, to) /\ to \in {"held", "handled", "abandoned", "done"}
                => /\ conn' \in [Conns -> {"none", "held", "handled",
                                           "abandoned", "done"}]
                   /\ age' \in [Conns -> 0..RequestLimit]
                   /\ UNCHANGED <<start, phase, config, signalled, grace,
                                  caught>>
                   /\ \A d \in Conns \ {c} : conn'[d] = conn[d] /\ age'[d] = age[d]
                   /\ conn'[c] = to
                   /\ conn[c] = from
                   /\ phase \in {"serving", "stopping", "releasing"}
    BY <1>0 DEF Set
  <2>2. CASE Connect(c)
    BY <2>1, <2>2, <1>0 DEF Connect, Grace
  <2>3. CASE Handle(c)
    BY <2>1, <2>3, <1>0 DEF Handle, Grace
  <2>4. CASE Leave(c) \/ Answer(c) \/ GiveUp(c) \/ Finish(c)
    <3>1. PICK from, to : /\ Set(c, from, to)
                          /\ to \in {"abandoned", "done"}
                          /\ from \in {"held", "handled", "abandoned"}
                          /\ to = "abandoned" => from = "handled"
      BY <2>4 DEF Leave, Answer, GiveUp, Finish
    <3> QED
      BY <2>1, <3>1, <1>0 DEF Grace
  <2> QED
    BY <1>8, <2>2, <2>3, <2>4
<1> QED
  BY <1>1, <1>2, <1>3, <1>4, <1>5, <1>6, <1>7, <1>8 DEF Next, Main

----------------------------------------------------------------------------
\* What holds between the clock of a shutdown, the requests it found and their
\* ages, in every state of every program's main.
THEOREM ProcessInvHolds == Spec => []ProcessInv
BY InitProcessInv, NextProcessInv, PTL DEF Spec

\* Every variable keeps its type; no request is handled beyond its limit, no
\* shutdown takes longer than its time.
THEOREM ProcessTypeCorrect == Spec => []TypeOK
BY ProcessInvHolds, PTL DEF ProcessInv

\* What main's shutdown interrupts, it lets finish: a request in progress is
\* answered before the api's process ends, forced or not.
THEOREM RequestsAnswered == Spec => []InProgressAnswered
<1>1. ProcessInv => InProgressAnswered
  BY TimesAreNats, RequestsEndInGrace
     DEF ProcessInv, TypeOK, InProgressAnswered, CaughtAreOld, GraceCounts,
         ReleasedDrained, Drained, Grace
<1> QED
  BY <1>1, ProcessInvHolds, PTL

=============================================================================
