------------------------------ MODULE Process ------------------------------
(***************************************************************************)
(* The processes of the three programs from start to end: the functions    *)
(* main, ReadConfig, and the middleware that limits the time of a request. *)
(*                                                                         *)
(* A connection of the api carries a request: it arrives at the pace of    *)
(* its client ("held"), is handled for no longer than the limit, and may   *)
(* go on being worked at after it was answered with a timeout              *)
(* ("abandoned").  A connection of the bot is a stream, which ends when    *)
(* its client leaves it (HandlerEndsForCause of EventHub).  The client     *)
(* program has none.                                                       *)
(*                                                                         *)
(* Time passes in ticks.  Timers fire, and steps that wait for nobody are  *)
(* taken, before the next tick.                                            *)
(***************************************************************************)
EXTENDS Integers, Config

CONSTANTS
    Conns,              \* connections: a bound
    Settings,           \* what may be configured: [flags, env, file]
    RequestLimit,       \* the middleware's 15 s, in ticks
    ApiGrace, BotGrace  \* the shutdown's 25 s and 30 s, in ticks

ASSUME TimesAreNats ==
    RequestLimit \in Nat /\ ApiGrace \in Nat /\ BotGrace \in Nat
ASSUME RequestsEndInGrace == RequestLimit < ApiGrace

VARIABLES
    program,
    settings,           \* what it was started with
    phase,              \* of its main and shutdown goroutines
    config,             \* where each field has its value from
    signalled,          \* a signal is in the channel, or was
    conn,               \* what is done with each connection
    age,                \* ticks a request has been handled for
    grace,              \* ticks since the shutdown began
    caught              \* ghost: requests being handled at that moment

timers == <<age, grace>>
start == <<program, settings>>
vars == <<start, phase, config, signalled, conn, timers, caught>>

Over == {"ended", "forced", "failed"}

\* Mutation of Grace: the shutdown is given less time than a request.
GraceShort == RequestLimit - 1

Grace == IF program = "api" THEN ApiGrace ELSE BotGrace

----------------------------------------------------------------------------
Init ==
    /\ program \in Programs
    /\ settings \in Settings
    /\ phase = "configuring"
    /\ config = [k \in Fields(program) |-> "none"]
    /\ signalled = FALSE
    /\ conn = [c \in Conns |-> "none"]
    /\ age = [c \in Conns |-> 0]
    /\ grace = 0
    /\ caught = {}

Go(from, to) ==
    /\ phase = from
    /\ phase' = to

(* Start.                                                                  *)

\* ReadConfig; the client can fail to read its certificate as well.
ReadConfig ==
    /\ config' = newConfig(program, settings)
    /\ \/ Validate(program, config') /\ Go("configuring", "starting")
       \/ /\ ~Validate(program, config') \/ program = "client"
          /\ Go("configuring", "failed")
    /\ UNCHANGED <<start, signalled, conn, timers, caught>>

\* Database, telegram, certificates, port, controller: Fatal if one fails.
Start ==
    /\ Go("starting", "running") \/ Go("starting", "failed")
    /\ UNCHANGED <<start, config, signalled, conn, timers, caught>>

\* e.Start or grpcServer.Serve, in a goroutine of its own.
Serve ==
    /\ Go("running", "serving") \/ Go("running", "failed")
    /\ UNCHANGED <<start, config, signalled, conn, timers, caught>>

\* Fatal, or a panic that nobody recovers (ConnPool, RemoteClient, EventHub).
Fatal ==
    /\ \E p \in {"serving", "stopping", "releasing"} : Go(p, "failed")
    /\ UNCHANGED <<start, config, signalled, conn, timers, caught>>

(* Connections.                                                            *)
Set(c, from, to) ==
    /\ phase \in {"serving", "stopping", "releasing"}
    /\ conn[c] = from
    /\ conn' = [conn EXCEPT ![c] = to]
    /\ age' = [age EXCEPT ![c] = 0]
    /\ UNCHANGED <<start, phase, config, signalled, grace, caught>>

Connect(c) ==
    /\ program # "client" /\ phase = "serving"
    /\ Set(c, "none", "held")

\* The client is gone, or its stream has ended.
Leave(c) == Set(c, "held", "done")

Handle(c) == program = "api" /\ Set(c, "held", "handled")

Answer(c) == Set(c, "handled", "done")

\* TimeoutWithConfig: 503 is answered, the handler's goroutine goes on.
GiveUp(c) ==
    /\ age[c] = RequestLimit
    /\ Set(c, "handled", "abandoned")

Finish(c) == Set(c, "abandoned", "done")

(* End.                                                                    *)

\* The channel holds one signal and is read once: no second one has an effect.
Signal ==
    /\ phase \notin Over
    /\ signalled' = TRUE
    /\ UNCHANGED <<start, phase, config, conn, timers, caught>>

\* Nobody has connected yet.  Serve of gRPC fails after GracefulStop, and its
\* goroutine may be faster than main.
StopEarly ==
    /\ signalled
    /\ \/ Go("running", "releasing")
       \/ program = "bot" /\ Go("running", "failed")
    /\ UNCHANGED <<start, config, signalled, conn, timers, caught>>

Stop ==
    /\ signalled
    /\ Go("serving", "stopping")
    /\ caught' = {c \in Conns : conn[c] = "handled"}
    /\ UNCHANGED <<start, config, signalled, conn, timers>>

Drained == \A c \in Conns : conn[c] \notin {"held", "handled"}

(* Mutations of the actions below, each a mistake the code could plausibly *)
(* contain; no specification uses them.                                    *)
ExpireOfApi ==              \* the bot waits for its streams without a limit
    /\ program = "api" /\ grace = Grace
    /\ Go("stopping", "forced") \/ Go("releasing", "forced")
    /\ UNCHANGED <<start, config, signalled, conn, timers, caught>>

TickUnlimited ==            \* requests are handled for as long as they take
    /\ phase \in {"serving", "stopping"}
    /\ phase = "stopping" => ~Drained /\ grace < Grace
    /\ age' = [c \in Conns |->
                  IF conn[c] = "handled" THEN age[c] + 1 ELSE age[c]]
    /\ grace' = IF phase = "stopping" THEN grace + 1 ELSE grace
    /\ UNCHANGED <<start, phase, config, signalled, conn, caught>>

\* e.Shutdown, grpcServer.GracefulStop and conn.Close return, the first two
\* when no request and no stream is served; db.Close and serverStopCtx, or
\* cancel, follow.  An abandoned request can meet a closed database.
Release ==
    /\ Drained
    /\ Go("stopping", "releasing")
    /\ UNCHANGED <<start, config, signalled, conn, timers, caught>>

\* main returns, unless the database cannot be closed.
End ==
    /\ Go("releasing", "ended")
        \/ (program = "api" /\ Go("releasing", "failed"))
    /\ UNCHANGED <<start, config, signalled, conn, timers, caught>>

\* The goroutine at shutdownCtx.Done(), or e.Shutdown with the same error.
Expire ==
    /\ program # "client" /\ grace = Grace
    /\ Go("stopping", "forced") \/ Go("releasing", "forced")
    /\ UNCHANGED <<start, config, signalled, conn, timers, caught>>

(* Time.  db.Close may wait for the query of an abandoned request.         *)
Stopping == phase \in {"stopping", "releasing"}
Tick ==
    /\ \/ phase = "serving" /\ ~signalled
       \/ phase = "stopping" /\ ~Drained /\ grace < Grace
       \/ /\ phase = "releasing" /\ grace < Grace
          /\ \E c \in Conns : conn[c] = "abandoned"
    /\ \A c \in Conns : conn[c] = "handled" => age[c] < RequestLimit
    /\ age' = [c \in Conns |->
                  IF conn[c] = "handled" THEN age[c] + 1 ELSE age[c]]
    /\ grace' = IF Stopping THEN grace + 1 ELSE grace
    /\ UNCHANGED <<start, phase, config, signalled, conn, caught>>

----------------------------------------------------------------------------
Main ==
    \/ ReadConfig \/ Start \/ Serve \/ StopEarly \/ Stop \/ Release \/ End \/ Expire

Next ==
    \/ Main \/ Signal \/ Fatal \/ Tick
    \/ \E c \in Conns :
          Connect(c) \/ Leave(c) \/ Handle(c) \/ Answer(c) \/ GiveUp(c)
              \/ Finish(c)

Spec == Init /\ [][Next]_vars

(* The goroutines of main run, time passes and timers fire.  Clients and   *)
(* handlers need not do anything.                                          *)
FairSpec ==
    /\ Spec
    /\ WF_vars(Main) /\ WF_vars(Tick)
    /\ WF_vars(\E c \in Conns : GiveUp(c))

----------------------------------------------------------------------------
TypeOK ==
    /\ program \in Programs /\ settings \in Settings
    /\ phase \in {"configuring", "starting", "running", "serving", "stopping",
                  "releasing"} \union Over
    /\ config \in [Fields(program) -> {"flag", "env", "file", "default", "none"}]
    /\ signalled \in BOOLEAN
    /\ conn \in [Conns -> {"none", "held", "handled", "abandoned", "done"}]
    /\ age \in [Conns -> 0..RequestLimit]
    /\ grace \in 0..Grace
    /\ caught \subseteq Conns

\* A request that is being handled when the process is told to stop gets its
\* answer, if only that it took too long, before the process ends: the limit
\* of a request is shorter than that of the shutdown.
InProgressAnswered ==
    phase \in {"ended", "forced"} => \A c \in caught : conn[c] # "handled"

----------------------------------------------------------------------------
(* Liveness, under FairSpec.                                               *)

\* A signal ends the process, even if clients stay connected and handlers do
\* not return.
SignalEndsProcess == signalled ~> phase \in Over

=============================================================================
