---------------------------- MODULE Switchboard ----------------------------
(***************************************************************************)
(* What the bot server promises to the users of telegram, with no map, no  *)
(* names, no channels and no goroutines: each user is connected with the   *)
(* sessions of his own client applications.                                *)
(*                                                                         *)
(* One user is served at a time.  His wish to be notified is kept, and     *)
(* reaches a session of his; his command is carried to a session of his,   *)
(* which writes one command at a time.  The server panics only while it    *)
(* serves a user who has not had a session since the server started.       *)
(* EventHub implements this specification.                                 *)
(***************************************************************************)
CONSTANTS
    Users,
    Sessions,
    None                \* no user

VARIABLES
    wish,               \* the users who want to be notified
    caller,             \* the user of each session, from its acceptance on
    connected,          \* sessions that are or were served
    over,               \* those that are no longer
    told,               \* what each session was told of its user's wish
    task,               \* who is being served, and with what
    carrying,           \* the user whose command a session writes
    phase               \* of the server

boardVars == <<wish, caller, connected, over, told, task, carrying, phase>>

NoTask == [user |-> None, kind |-> "none"]

HasSession(u) == \E s \in connected : caller[s] = u

NoSessions ==
    /\ caller = [s \in Sessions |-> None]
    /\ connected = {}
    /\ over = {}
    /\ told = [s \in Sessions |-> FALSE]
    /\ task = NoTask
    /\ carrying = [s \in Sessions |-> None]

\* The wishes are those an earlier server left.
BoardInit ==
    /\ wish \in [Users -> BOOLEAN]
    /\ NoSessions
    /\ phase = "running"

(* Sessions.                                                               *)

Accept(s, u) ==
    /\ caller[s] = None
    /\ caller' = [caller EXCEPT ![s] = u]
    /\ told' = [told EXCEPT ![s] = wish[u]]
    /\ UNCHANGED <<wish, connected, over, task, carrying>>

Connect(s) ==
    /\ caller[s] # None
    /\ s \notin connected
    /\ connected' = connected \union {s}
    /\ UNCHANGED <<wish, caller, over, told, task, carrying>>

\* A command is not known to have arrived when its session ends.
End(s) ==
    /\ s \in connected \ over
    /\ over' = over \union {s}
    /\ carrying' = [carrying EXCEPT ![s] = None]
    /\ UNCHANGED <<wish, caller, connected, told, task>>

(* /start and /stop.                                                       *)

Wish(u, on) ==
    /\ task = NoTask
    /\ wish' = [wish EXCEPT ![u] = on]
    /\ task' = [user |-> u, kind |-> "wish"]
    /\ UNCHANGED <<caller, connected, over, told, carrying>>

Tell(s) ==
    /\ task.kind = "wish"
    /\ s \in connected
    /\ caller[s] = task.user
    /\ told' = [told EXCEPT ![s] = wish[task.user]]
    /\ task' = NoTask
    /\ UNCHANGED <<wish, caller, connected, over, carrying>>

(* Commands.                                                               *)

Command(u) ==
    /\ task = NoTask
    /\ HasSession(u)
    /\ task' = [user |-> u, kind |-> "command"]
    /\ UNCHANGED <<wish, caller, connected, over, told, carrying>>

Carry(s) ==
    /\ task.kind = "command"
    /\ s \in connected \ over
    /\ caller[s] = task.user
    /\ carrying[s] = None
    /\ carrying' = [carrying EXCEPT ![s] = task.user]
    /\ task' = NoTask
    /\ UNCHANGED <<wish, caller, connected, over, told>>

Carried(s) ==
    /\ carrying[s] # None
    /\ carrying' = [carrying EXCEPT ![s] = None]
    /\ UNCHANGED <<wish, caller, connected, over, told, task>>

(* The end of the server; the wishes outlive it.                           *)

\* Between two users.
Stop ==
    /\ task = NoTask
    /\ phase' = "down"

Panic(u) ==
    /\ \/ task = NoTask
       \/ task = [user |-> u, kind |-> "wish"]
    /\ ~HasSession(u)
    /\ phase' = "panicked"

\* Nothing is left of the sessions of an earlier server.
Restart ==
    /\ phase # "running"
    /\ phase' = "running"
    /\ UNCHANGED <<wish, caller, connected, over, told, task, carrying>>

BoardRuns ==
    /\ phase = "running"
    /\ \/ /\ \/ \E s \in Sessions :
                 \/ \E u \in Users : Accept(s, u)
                 \/ Connect(s) \/ End(s)
                 \/ Tell(s) \/ Carry(s) \/ Carried(s)
             \/ \E u \in Users :
                 \/ \E on \in BOOLEAN : Wish(u, on)
                 \/ Command(u)
          /\ UNCHANGED phase
       \/ /\ Stop \/ \E u \in Users : Panic(u)
          /\ NoSessions'
          /\ UNCHANGED wish

BoardNext == BoardRuns \/ Restart

BoardSpec == BoardInit /\ [][BoardNext]_boardVars

============================================================================
