------------------------------ MODULE Registry ------------------------------
(***************************************************************************)
(* What the user account API and the bot server together promise to the    *)
(* owners of client applications, with no tables, no requests and no       *)
(* failures: people register, become reachable in a chat, and are granted  *)
(* certificates, each with an id that no other has.  A client that         *)
(* presents a certificate is served from the moment its owner is reachable *)
(* and from then on: nothing that is stored takes it back.  (That TLS      *)
(* refuses the certificate after its ten years, pkg/auth/auth.go:109, is   *)
(* outside.)  Accounts implements this specification.                      *)
(***************************************************************************)
CONSTANTS
    Owners,             \* telegram names
    IDs                 \* of client applications

VARIABLES
    accounts,           \* owners who are registered
    reachable,          \* those whose chat is known
    held,               \* certificates that were granted
    served              \* those with which the bot server accepts a client

registryVars == <<accounts, reachable, held, served>>

Certificates == [owner : Owners, id : IDs]

RegistryInit ==
    /\ accounts = {}
    /\ reachable = {}
    /\ held = {}
    /\ served = {}

Register(t) ==
    /\ t \notin accounts
    /\ accounts' = accounts \union {t}
    /\ UNCHANGED <<reachable, held, served>>

Reach(t) ==
    /\ t \in accounts
    /\ reachable' = reachable \union {t}
    /\ served' = served \union {c \in held : c.owner = t}
    /\ UNCHANGED <<accounts, held>>

Grant(c) ==
    /\ c.owner \in accounts
    /\ \A d \in held : d.id # c.id
    /\ held' = held \union {c}
    /\ served' = served \union (IF c.owner \in reachable THEN {c} ELSE {})
    /\ UNCHANGED <<accounts, reachable>>

RegistryNext ==
    \/ \E t \in Owners : Register(t) \/ Reach(t)
    \/ \E c \in Certificates : Grant(c)

RegistrySpec == RegistryInit /\ [][RegistryNext]_registryVars

=============================================================================
