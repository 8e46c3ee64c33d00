---------------------------- MODULE StreamServer ----------------------------
(***************************************************************************)
(* The bot server as the client application of one user meets it, with no  *)
(* other user, no names, no channels and no goroutines: which of the       *)
(* client's streams it serves, which one it registered last, and to which  *)
(* it is about to write a command.                                         *)
(*                                                                         *)
(* Both sides are specified by these steps.  They are the environment of   *)
(* the client (RemoteClient takes them over), and the hub implements them  *)
(* for each of its users (EventHub, ImplementsServer): what RemoteClient   *)
(* assumes of the server, the server does.                                 *)
(***************************************************************************)
CONSTANTS
    Streams,            \* streams of the client
    None                \* no stream

VARIABLES
    up,                 \* the server runs
    pending,            \* streams that were opened, not yet registered
    dropped,            \* those that failed before they were registered
    served,             \* registered streams that did not fail
    registered,         \* the stream registered last
    target              \* the stream the bot found for a command

serverVars == <<up, pending, dropped, served, registered, target>>

\* Opened and, sooner or later, served.
Live(x) == x \in pending \union served

\* A client that starts may open its first stream at once.
ServerInit ==
    /\ up \in BOOLEAN
    /\ pending \in SUBSET Streams
    /\ ~up => pending = {}
    /\ dropped = {} /\ served = {}
    /\ registered = None
    /\ target = None

Open(x) ==
    /\ up
    /\ x \notin pending \union dropped \union served
    /\ pending' = pending \union {x}
    /\ UNCHANGED <<up, dropped, served, registered, target>>

\* Streams are separate connections: they register in any order, and one
\* whose client has gone registers as well.
Accept(x) ==
    /\ up
    /\ x \in pending \union dropped
    /\ pending' = pending \ {x}
    /\ dropped' = dropped \ {x}
    /\ served' = IF x \in pending THEN served \union {x} ELSE served
    /\ registered' = x
    /\ UNCHANGED <<up, target>>

\* The bot finds the stream of a command.
LookUp ==
    /\ target = None
    /\ registered # None
    /\ target' = registered
    /\ UNCHANGED <<up, pending, dropped, served, registered>>

\* It writes to that stream, which may have been replaced, or failed, since.
Write ==
    /\ target # None
    /\ target' = None
    /\ UNCHANGED <<up, pending, dropped, served, registered>>

\* A connection fails, the client is turned away, or its handler ends.
Fail(x) ==
    /\ Live(x)
    /\ pending' = pending \ {x}
    /\ served' = served \ {x}
    /\ dropped' = IF x \in pending THEN dropped \union {x} ELSE dropped
    /\ UNCHANGED <<up, registered, target>>

Down ==
    /\ up
    /\ up' = FALSE
    /\ pending' = {} /\ dropped' = {} /\ served' = {}
    /\ registered' = None
    /\ target' = None

Up ==
    /\ ~up
    /\ up' = TRUE
    /\ UNCHANGED <<pending, dropped, served, registered, target>>

ServerNext ==
    \/ \E x \in Streams : Open(x) \/ Accept(x) \/ Fail(x)
    \/ LookUp \/ Write
    \/ Down \/ Up

ServerSpec == ServerInit /\ [][ServerNext]_serverVars

=============================================================================
