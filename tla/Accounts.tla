------------------------------ MODULE Accounts ------------------------------
(***************************************************************************)
(* The user account API (internal/user-account, pkg/auth) and what its     *)
(* certificates are for: the identification of a client by the bot server  *)
(* (tg-bot/services/event_bistream.go).                                    *)
(*                                                                         *)
(* Users register, get a token for their password and, with it, a          *)
(* certificate for each of their clients.  Registration and authentication *)
(* are one SQL statement each; the registration of a client is three steps *)
(* of the goroutine of its request, between which the HTTP server may give *)
(* up on it or the process end.  The two tables are all that is kept.      *)
(*                                                                         *)
(* A certificate is what GenerateCert writes into it, and ParseCert and    *)
(* the client's configuration take out: the telegram name of the owner and *)
(* the client's id.  Requests that are refused and change nothing, for a   *)
(* wrong password or a name that is taken, are not steps.                  *)
(***************************************************************************)
EXTENDS Integers, FiniteSets

CONSTANTS
    Names,              \* names users register under
    TGNames,            \* telegram names
    Clients,            \* names of client applications
    IDs,                \* values of uuid.NewString: a bound
    Calls,              \* concurrent registrations of clients
    None

ASSUME NoneIsNoName == None \notin TGNames

VARIABLES
    tgUser,             \* table users: the telegram name of each user
    hasChat,            \* users whose chat_id is not NULL
    clients,            \* table clients
    tokens,             \* users who hold a token
    call,               \* each registration of a client
    spent,              \* ids that uuid.NewString has returned
    issued              \* certificates that users hold

tables == <<tgUser, hasChat, clients>>
vars == <<tables, tokens, call, spent, issued>>

Rows == [name : Clients, id : IDs, owner : Names]
Certs == [owner : TGNames, id : IDs]

Idle == [at |-> "idle"]
Running == [at : {"find", "save", "generate"}, heard : BOOLEAN, user : Names,
            client : Clients, id : IDs, tg : TGNames \union {None}]

Known(n) == tgUser[n] # None
At(c, place) == call[c].at = place

----------------------------------------------------------------------------
Init ==
    /\ tgUser = [n \in Names |-> None]
    /\ hasChat = {}
    /\ clients = {}
    /\ tokens = {}
    /\ call = [c \in Calls |-> Idle]
    /\ spent = {}
    /\ issued = {}

\* INSERT ... ON CONFLICT DO NOTHING; both columns are unique.
RegisterUser(n, t) ==
    /\ ~Known(n)
    /\ \A m \in Names : tgUser[m] # t
    /\ tgUser' = [tgUser EXCEPT ![n] = t]
    /\ UNCHANGED <<hasChat, clients, tokens, call, spent, issued>>

\* The row of a user was found by name and password.
AuthUser(n) ==
    /\ Known(n)
    /\ tokens' = tokens \union {n}
    /\ UNCHANGED <<tables, call, spent, issued>>

(* NewClient, in the goroutine of its request.                             *)
Begin(c, n, cl, i) ==
    /\ At(c, "idle")
    /\ n \in tokens
    /\ i \notin spent
    /\ spent' = spent \union {i}
    /\ call' = [call EXCEPT ![c] =
            [at |-> "find", heard |-> TRUE, user |-> n, client |-> cl,
             id |-> i, tg |-> None]]
    /\ UNCHANGED <<tables, tokens, issued>>

\* Mutation of FindTGName, which no specification uses.
FindErrorIgnored(c) ==      \* the error of the query is not looked at
    /\ At(c, "find")
    /\ call' = [call EXCEPT ![c].at = "save"]
    /\ UNCHANGED <<tables, tokens, spent, issued>>

\* Queries of a request that was given up fail.
FindTGName(c) ==
    /\ At(c, "find") /\ call[c].heard
    /\ Known(call[c].user)
    /\ call' = [call EXCEPT ![c].tg = tgUser[call[c].user], ![c].at = "save"]
    /\ UNCHANGED <<tables, tokens, spent, issued>>

NewRow(c) == [name |-> call[c].client, id |-> call[c].id, owner |-> call[c].user]

\* The columns name and uuid are unique.
Inserted(c) ==
    /\ \A row \in clients : row.name # call[c].client /\ row.id # call[c].id
    /\ clients' = clients \union {NewRow(c)}

\* Mutation of SaveClient, which no specification uses.
SaveClientUnchecked(c) ==   \* DO NOTHING, without a look at the rows affected
    /\ At(c, "save") /\ call[c].heard
    /\ Inserted(c) \/ UNCHANGED clients
    /\ call' = [call EXCEPT ![c].at = "generate"]
    /\ UNCHANGED <<tgUser, hasChat, tokens, spent, issued>>

SaveClient(c) ==
    /\ At(c, "save") /\ call[c].heard
    /\ Inserted(c)
    /\ call' = [call EXCEPT ![c].at = "generate"]
    /\ UNCHANGED <<tgUser, hasChat, tokens, spent, issued>>

Cert(c) == [owner |-> call[c].tg, id |-> call[c].id]

\* Takes seconds, and does not look whether anybody still waits for it.
GenerateCert(c) ==
    /\ At(c, "generate")
    /\ issued' = IF call[c].heard THEN issued \union {Cert(c)} ELSE issued
    /\ call' = [call EXCEPT ![c] = Idle]
    /\ UNCHANGED <<tables, tokens, spent>>

\* Mutation of Fail, which no specification uses.
FailRollsBack(c) ==         \* the row of the client's name is deleted
    /\ ~At(c, "idle")
    /\ clients' = {row \in clients : row.name # call[c].client}
    /\ call' = [call EXCEPT ![c] = Idle]
    /\ UNCHANGED <<tgUser, hasChat, tokens, spent, issued>>

\* A query finds nothing or a name that is taken, or fails; the generation
\* of the certificate fails.  A query that fails may have been carried out.
Fail(c) ==
    /\ ~At(c, "idle")
    /\ \/ UNCHANGED clients
       \/ At(c, "save") /\ Inserted(c)
    /\ call' = [call EXCEPT ![c] = Idle]
    /\ UNCHANGED <<tgUser, hasChat, tokens, spent, issued>>

\* The HTTP server answers for a handler that takes more than 15 s, and
\* cancels the context of its queries.
Timeout(c) ==
    /\ ~At(c, "idle") /\ call[c].heard
    /\ call' = [call EXCEPT ![c].heard = FALSE]
    /\ UNCHANGED <<tables, tokens, spent, issued>>

\* The process ends and is started again.
Restart ==
    /\ call' = [c \in Calls |-> Idle]
    /\ UNCHANGED <<tables, tokens, spent, issued>>

\* /menu of the bot: the user's chat becomes known.
OpenMenu(n) ==
    /\ Known(n)
    /\ hasChat' = hasChat \union {n}
    /\ UNCHANGED <<tgUser, clients, tokens, call, spent, issued>>

----------------------------------------------------------------------------
NewClient(c) ==
    \/ FindTGName(c) \/ SaveClient(c) \/ GenerateCert(c)
    \/ Fail(c) \/ Timeout(c)

Next ==
    \/ \E n \in Names, t \in TGNames : RegisterUser(n, t)
    \/ \E n \in Names : AuthUser(n) \/ OpenMenu(n)
    \/ \E c \in Calls, n \in Names, cl \in Clients, i \in IDs : Begin(c, n, cl, i)
    \/ \E c \in Calls : NewClient(c)
    \/ Restart

Spec == Init /\ [][Next]_vars

----------------------------------------------------------------------------
(* What the bot server makes of a client that presents a certificate.      *)
RowsOf(cert) == {row \in clients : row.id = cert.id}

\* A NULL chat_id is no int64: the query fails before it can be looked at.
Identified(cert) ==
    IF RowsOf(cert) = {} THEN "unauthenticated"
    ELSE LET row == CHOOSE r \in RowsOf(cert) : TRUE
         IN  IF row.owner \notin hasChat THEN "internal error"
             ELSE IF tgUser[row.owner] # cert.owner THEN "unauthenticated"
             ELSE "served"

----------------------------------------------------------------------------
TypeOK ==
    /\ tgUser \in [Names -> TGNames \union {None}]
    /\ hasChat \subseteq Names
    /\ clients \subseteq Rows
    /\ tokens \subseteq Names
    /\ call \in [Calls -> Running \union {Idle}]
    /\ spent \subseteq IDs
    /\ issued \subseteq Certs

\* Every certificate a user holds is good for the bot server as soon as the
\* owner of the client has a chat: the row is there, under the same id, and
\* its owner is the telegram user named in the certificate.
IssuedServed ==
    \A cert \in issued :
        \E row \in RowsOf(cert) :
            /\ tgUser[row.owner] = cert.owner
            /\ (row.owner \in hasChat => Identified(cert) = "served")

\* Certificates of clients of different users name different telegram users,
\* whose commands and notifications the bot keeps apart by that name.
OwnersDistinct ==
    \A c1, c2 \in issued, r1, r2 \in clients :
        r1.id = c1.id /\ r2.id = c2.id /\ c1.owner = c2.owner
            => r1.owner = r2.owner

(* What the accounts promise to the owners of clients, Registry.           *)
Promise ==
    INSTANCE Registry WITH
        Owners <- TGNames,
        accounts <- {tgUser[n] : n \in Names} \ {None},
        reachable <- {tgUser[n] : n \in hasChat},
        held <- issued,
        served <- {cert \in issued : Identified(cert) = "served"}

\* Whatever registrations overlap, fail, time out or are cut off by a restart,
\* a certificate that reached its user is served from the moment he has a
\* chat, and no later request takes that back (until TLS refuses it after ten
\* years, which is outside); no other has its id.
ImplementsRegistry == Promise!RegistrySpec

(* The invariant behind them.                                              *)

\* The unique columns: tg_user of users, uuid of clients.
UniqueColumns ==
    /\ \A m, n \in Names : Known(m) /\ tgUser[m] = tgUser[n] => m = n
    /\ \A r1, r2 \in clients : r1.id = r2.id => r1 = r2

\* A registration works on a user of the table, under an id of its own; a
\* certificate is generated for a row that is there.
CallsInOrder ==
    \A c \in Calls : ~At(c, "idle") =>
        /\ At(c, "find") \/ (Known(call[c].user)
                              /\ call[c].tg = tgUser[call[c].user])
        /\ At(c, "generate") => NewRow(c) \in clients

\* The ids of running calls and of certificates were returned once each.
IdsUnique ==
    /\ \A c \in Calls : ~At(c, "idle") =>
        /\ call[c].id \in spent
        /\ \A d \in Calls \ {c} : ~At(d, "idle") => call[d].id # call[c].id
        /\ \A cert \in issued : cert.id # call[c].id
    /\ \A cert \in issued : cert.id \in spent

RowsAreOfUsers == \A row \in clients : Known(row.owner)

ChatsOfUsers == \A n \in hasChat : Known(n)

\* Certificates are backed by a row.
IssuedBacked ==
    \A cert \in issued : \E row \in clients :
        row.id = cert.id /\ tgUser[row.owner] = cert.owner

AccountsInv ==
    /\ TypeOK
    /\ UniqueColumns
    /\ CallsInOrder
    /\ IdsUnique
    /\ RowsAreOfUsers
    /\ ChatsOfUsers
    /\ IssuedBacked

=============================================================================
