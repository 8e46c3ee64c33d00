--------------------------- MODULE AccountsProofs ---------------------------
(***************************************************************************)
(* Proofs about Accounts, for any users, clients, ids and concurrent       *)
(* registrations: what a user holds as a certificate is what the bot       *)
(* server will look for.                                                   *)
(*                                                                         *)
(* The argument: a certificate is generated for a row that was saved       *)
(* under the same id for the same user, the name in it is the one in the   *)
(* user's row, and neither row ever changes.                               *)
(***************************************************************************)
EXTENDS Accounts, TLAPS

LEMMA InitAccounts == Init => AccountsInv
BY NoneIsNoName DEF Init, AccountsInv, TypeOK, UniqueColumns, CallsInOrder,
                    IdsUnique, RowsAreOfUsers, ChatsOfUsers, IssuedBacked,
                    Known, At, Idle

\* Calls that go on keep their ids, and calls that end give theirs up.
LEMMA CallsKeepIds ==
    ASSUME IdsUnique, UNCHANGED <<spent, issued>>,
           \A c \in Calls : call'[c].at # "idle" =>
                call[c].at # "idle" /\ call'[c].id = call[c].id
    PROVE  IdsUnique'
BY DEF IdsUnique, At

\* A new user changes nothing for those who are known.
LEMMA RegisterUserKeepsInv ==
    ASSUME AccountsInv, NEW n \in Names, NEW t \in TGNames, RegisterUser(n, t)
    PROVE  AccountsInv'
<1> USE NoneIsNoName DEF AccountsInv, RegisterUser
<1>1. TypeOK'
  BY DEF TypeOK
<1>2. \A m \in Names : Known(m) => m # n /\ tgUser'[m] = tgUser[m]
  BY DEF TypeOK, Known
<1>3. UniqueColumns'
  <2>1. \A r1, r2 \in clients : r1.id = r2.id => r1 = r2
    BY DEF UniqueColumns
  <2>2. \A m1, m2 \in Names : Known(m1)' /\ tgUser'[m1] = tgUser'[m2] => m1 = m2
    BY DEF TypeOK, Known, UniqueColumns
  <2> QED
    BY <2>1, <2>2 DEF UniqueColumns
<1>4. CallsInOrder'
  <2> SUFFICES ASSUME NEW c \in Calls, call[c].at # "idle"
               PROVE  /\ \/ call[c].at = "find"
                         \/ Known(call[c].user)'
                            /\ call[c].tg = tgUser'[call[c].user]
                      /\ At(c, "generate") => NewRow(c) \in clients
    BY DEF CallsInOrder, At, NewRow
  <2>1. call[c] \in Running
    BY DEF TypeOK, Idle
  <2>2. call[c].user \in Names
    BY <2>1 DEF Running
  <2> QED
    BY <1>2, <2>2 DEF CallsInOrder, At, NewRow, Known
<1>5. RowsAreOfUsers' /\ IssuedBacked'
  <2>1. \A row \in clients : row.owner \in Names
    BY DEF TypeOK, Rows
  <2>2. \A row \in clients : tgUser'[row.owner] = tgUser[row.owner]
    BY <1>2, <2>1 DEF RowsAreOfUsers
  <2>3. RowsAreOfUsers'
    BY <2>2 DEF RowsAreOfUsers, Known
  <2>4. IssuedBacked'
    BY <2>2 DEF IssuedBacked
  <2> QED
    BY <2>3, <2>4
<1>6. IdsUnique'
  BY CallsKeepIds
<1>7. ChatsOfUsers'
  BY <1>2 DEF TypeOK, ChatsOfUsers, Known
<1> QED
  BY <1>1, <1>3, <1>4, <1>5, <1>6, <1>7

\* Tokens, chats and the end of every call leave users and clients alone.
LEMMA OthersKeepInv ==
    ASSUME AccountsInv,
           \/ \E n \in Names : AuthUser(n) \/ OpenMenu(n)
           \/ Restart
           \/ \E c \in Calls : Timeout(c)
    PROVE  AccountsInv'
<1> USE DEF AccountsInv, tables
<1>1. CASE \E n \in Names : AuthUser(n) \/ OpenMenu(n)
  BY <1>1 DEF AuthUser, OpenMenu, TypeOK, UniqueColumns, CallsInOrder,
              IdsUnique, RowsAreOfUsers, ChatsOfUsers, IssuedBacked, Known,
              At, NewRow
<1>2. CASE Restart
  BY <1>2 DEF Restart, TypeOK, UniqueColumns, CallsInOrder, IdsUnique,
              RowsAreOfUsers, ChatsOfUsers, IssuedBacked, Known, At, Idle
<1>3. ASSUME NEW c \in Calls, Timeout(c)
      PROVE  AccountsInv'
  <2>1. call[c] \in Running
    BY <1>3 DEF Timeout, At, TypeOK, Idle
  <2>2. call' = [call EXCEPT ![c].heard = FALSE]
        /\ UNCHANGED <<tables, tokens, spent, issued>>
    BY <1>3 DEF Timeout
  <2>3. [call[c] EXCEPT !.heard = FALSE] \in Running
    BY <2>1 DEF Running
  <2>4. TypeOK'
    BY <2>2, <2>3 DEF TypeOK
  <2>5. \A d \in Calls :
            /\ call'[d].at = call[d].at
            /\ d # c => call'[d] = call[d]
    BY <2>1, <2>2 DEF TypeOK, Running
  <2>6. /\ call'[c].user = call[c].user /\ call'[c].tg = call[c].tg
        /\ call'[c].id = call[c].id /\ call'[c].client = call[c].client
    BY <2>1, <2>2 DEF TypeOK, Running
  <2>7. CallsInOrder'
    <3>1. ASSUME NEW d \in Calls, call'[d].at # "idle"
          PROVE  /\ \/ call'[d].at = "find"
                    \/ /\ tgUser'[call'[d].user] # None
                       /\ call'[d].tg = tgUser'[call'[d].user]
                 /\ call'[d].at = "generate" =>
                        [name |-> call'[d].client, id |-> call'[d].id,
                         owner |-> call'[d].user] \in clients'
      BY <2>2, <2>5, <2>6, <3>1 DEF CallsInOrder, At, Known, NewRow
    <3> QED
      BY <3>1 DEF CallsInOrder, At, Known, NewRow
  <2>8. UniqueColumns' /\ RowsAreOfUsers' /\ ChatsOfUsers' /\ IssuedBacked'
    BY <2>2 DEF UniqueColumns, RowsAreOfUsers, ChatsOfUsers, IssuedBacked, Known
  <2>9. \A d \in Calls : call'[d].id = call[d].id
    BY <2>5, <2>1, <2>2 DEF TypeOK, Running
  <2>10. IdsUnique'
    BY <2>2, <2>5, <2>9, CallsKeepIds
  <2> QED
    BY <2>4, <2>7, <2>8, <2>10
<1> QED
  BY <1>1, <1>2, <1>3

\* A registration begins, and finds its user.
LEMMA BeginKeepsInv ==
    ASSUME AccountsInv, NEW c \in Calls, NEW n \in Names, NEW cl \in Clients,
           NEW i \in IDs, Begin(c, n, cl, i)
    PROVE  AccountsInv'
<1> USE DEF AccountsInv, tables, Begin
<1>1. TypeOK'
  BY DEF TypeOK, Running
<1>2. CallsInOrder'
  BY DEF CallsInOrder, At, NewRow, Known, TypeOK
<1>3. UniqueColumns' /\ RowsAreOfUsers' /\ ChatsOfUsers' /\ IssuedBacked'
  BY DEF UniqueColumns, RowsAreOfUsers, ChatsOfUsers, IssuedBacked, Known
<1>4. /\ call'[c].id = i
      /\ \A d \in Calls \ {c} : call'[d] = call[d]
  BY DEF TypeOK
<1>5. IdsUnique'
  BY <1>4 DEF IdsUnique, At
<1> QED
  BY <1>1, <1>2, <1>3, <1>5

LEMMA FindTGNameKeepsInv ==
    ASSUME AccountsInv, NEW c \in Calls, FindTGName(c)
    PROVE  AccountsInv'
<1> USE DEF AccountsInv, tables
<1> DEFINE found == [call[c] EXCEPT !.tg = tgUser[call[c].user], !.at = "save"]
<1>1. call[c] \in Running /\ Known(call[c].user)
  BY DEF FindTGName, At, TypeOK, Idle
<1>2. call' = [call EXCEPT ![c] = found]
      /\ UNCHANGED <<tables, tokens, spent, issued>>
  BY <1>1 DEF FindTGName, TypeOK, Running
<1>3. /\ found \in Running /\ found.at = "save" /\ found.user = call[c].user
      /\ found.tg = tgUser[call[c].user] /\ found.id = call[c].id
  BY <1>1 DEF Running, TypeOK
<1> HIDE DEF found
<1>4. TypeOK'
  BY <1>2, <1>3 DEF TypeOK
<1>5. CallsInOrder'
  BY <1>1, <1>2, <1>3 DEF CallsInOrder, At, NewRow, Known, TypeOK
<1>6. UniqueColumns' /\ RowsAreOfUsers' /\ ChatsOfUsers' /\ IssuedBacked'
  BY <1>2 DEF UniqueColumns, RowsAreOfUsers, ChatsOfUsers, IssuedBacked, Known
<1>7. IdsUnique'
  BY <1>1, <1>2, <1>3, CallsKeepIds DEF FindTGName, At, TypeOK
<1> QED
  BY <1>4, <1>5, <1>6, <1>7

\* A row that is inserted is a row of a known user under a new id; calls and
\* certificates that had their row still have it.
LEMMA InsertedRow ==
    ASSUME AccountsInv, NEW c \in Calls, At(c, "save"), Inserted(c),
           UNCHANGED <<tgUser, issued>>
    PROVE  /\ clients' = clients \union {NewRow(c)} /\ clients' \subseteq Rows
           /\ UniqueColumns' /\ RowsAreOfUsers' /\ IssuedBacked'
<1> USE DEF AccountsInv
<1>1. call[c] \in Running
  BY DEF At, TypeOK, Idle
<1>2. NewRow(c) \in Rows
  BY <1>1 DEF Running, NewRow, Rows
<1>3. clients' = clients \union {NewRow(c)}
  BY DEF Inserted
<1>4. clients' \subseteq Rows
  BY <1>2, <1>3 DEF TypeOK
<1>5. \A row \in clients : row.id # NewRow(c).id
  BY DEF Inserted, NewRow
<1>6. UniqueColumns'
  BY <1>3, <1>5 DEF UniqueColumns, Known
<1>7. Known(NewRow(c).owner)
  BY DEF CallsInOrder, At, NewRow
<1>8. RowsAreOfUsers' /\ IssuedBacked'
  BY <1>3, <1>7 DEF RowsAreOfUsers, IssuedBacked, Known
<1> QED
  BY <1>3, <1>4, <1>6, <1>8

LEMMA SaveClientKeepsInv ==
    ASSUME AccountsInv, NEW c \in Calls, SaveClient(c)
    PROVE  AccountsInv'
<1> DEFINE saved == [call[c] EXCEPT !.at = "generate"]
<1>1. /\ clients' = clients \union {NewRow(c)} /\ clients' \subseteq Rows
      /\ UniqueColumns' /\ RowsAreOfUsers' /\ IssuedBacked'
  BY InsertedRow DEF SaveClient
<1>2. call[c] \in Running /\ TypeOK
  BY DEF SaveClient, At, AccountsInv, TypeOK, Idle
<1>3. call' = [call EXCEPT ![c] = saved]
      /\ UNCHANGED <<tgUser, hasChat, tokens, spent, issued>>
  BY <1>2 DEF SaveClient, TypeOK, Running
<1>4. /\ saved \in Running /\ saved.at = "generate"
      /\ saved.user = call[c].user /\ saved.tg = call[c].tg
      /\ saved.id = call[c].id /\ saved.client = call[c].client
  BY <1>2 DEF Running
<1> HIDE DEF saved
<1>5. TypeOK'
  BY <1>1, <1>2, <1>3, <1>4 DEF TypeOK
<1>6. CallsInOrder'
  <2>1. ASSUME NEW d \in Calls, call'[d].at # "idle"
        PROVE  /\ \/ call'[d].at = "find"
                  \/ /\ tgUser'[call'[d].user] # None
                     /\ call'[d].tg = tgUser'[call'[d].user]
               /\ call'[d].at = "generate" =>
                      [name |-> call'[d].client, id |-> call'[d].id,
                       owner |-> call'[d].user] \in clients'
    <3>1. CASE d = c
      <4>1. call'[d] = saved
        BY <1>2, <1>3, <3>1 DEF TypeOK
      <4>2. Known(call[c].user) /\ call[c].tg = tgUser[call[c].user]
        BY DEF SaveClient, AccountsInv, CallsInOrder, At
      <4> QED
        BY <1>1, <1>3, <1>4, <4>1, <4>2 DEF Known, NewRow
    <3>2. CASE d # c
      <4>1. call'[d] = call[d]
        BY <1>2, <1>3, <3>2 DEF TypeOK
      <4> QED
        BY <1>1, <1>3, <2>1, <4>1 DEF AccountsInv, CallsInOrder, At, Known, NewRow
    <3> QED
      BY <3>1, <3>2
  <2> QED
    BY <2>1 DEF CallsInOrder, At, Known, NewRow
<1>7. IdsUnique'
  BY <1>2, <1>3, <1>4, CallsKeepIds DEF SaveClient, At, AccountsInv, TypeOK
<1>8. ChatsOfUsers'
  BY <1>3 DEF AccountsInv, ChatsOfUsers, Known
<1> QED
  BY <1>1, <1>5, <1>6, <1>7, <1>8 DEF AccountsInv

\* A call that ends is idle, and the others are as they were.
LEMMA EndedCall ==
    ASSUME AccountsInv, NEW c \in Calls, call' = [call EXCEPT ![c] = Idle],
           UNCHANGED tgUser, clients \subseteq clients'
    PROVE  CallsInOrder' /\ call' \in [Calls -> Running \union {Idle}]
<1> USE DEF AccountsInv
<1>1. \A d \in Calls : ~At(d, "idle")' => call'[d] = call[d]
  BY DEF TypeOK, At, Idle
<1>2. CallsInOrder'
  BY <1>1 DEF CallsInOrder, At, Known, NewRow
<1> QED
  BY <1>2 DEF TypeOK

LEMMA FailKeepsInv ==
    ASSUME AccountsInv, NEW c \in Calls, Fail(c)
    PROVE  AccountsInv'
<1> USE DEF Fail
<1>1. clients \subseteq clients'
  BY DEF Inserted
<1>2. CallsInOrder' /\ call' \in [Calls -> Running \union {Idle}]
  BY <1>1, EndedCall
<1>3. IdsUnique' /\ ChatsOfUsers'
  <2>1. \A d \in Calls : call'[d].at # "idle" =>
            call[d].at # "idle" /\ call'[d].id = call[d].id
    BY DEF AccountsInv, TypeOK, Idle
  <2> QED
    BY <2>1, CallsKeepIds DEF AccountsInv, ChatsOfUsers, Known
<1>4. CASE UNCHANGED clients
  BY <1>2, <1>3, <1>4 DEF AccountsInv, TypeOK, UniqueColumns, RowsAreOfUsers,
                          IssuedBacked, Known
<1>5. CASE At(c, "save") /\ Inserted(c)
  <2>1. /\ clients' \subseteq Rows
        /\ UniqueColumns' /\ RowsAreOfUsers' /\ IssuedBacked'
    BY <1>5, InsertedRow
  <2> QED
    BY <1>2, <1>3, <2>1 DEF AccountsInv, TypeOK
<1> QED
  BY <1>4, <1>5

LEMMA GenerateCertKeepsInv ==
    ASSUME AccountsInv, NEW c \in Calls, GenerateCert(c)
    PROVE  AccountsInv'
<1> USE DEF GenerateCert, tables
<1>1. CallsInOrder' /\ call' \in [Calls -> Running \union {Idle}]
  BY EndedCall
<1>2. call[c] \in Running
  BY DEF At, AccountsInv, TypeOK, Idle
<1>3. /\ NewRow(c) \in clients /\ Known(call[c].user)
      /\ call[c].tg = tgUser[call[c].user]
  BY DEF AccountsInv, CallsInOrder, At
<1>4. Cert(c) \in Certs
  BY <1>2, <1>3 DEF Cert, Certs, Running, Known
<1>5. issued' \subseteq Certs
  BY <1>4 DEF AccountsInv, TypeOK
<1>6. TypeOK'
  BY <1>1, <1>5 DEF AccountsInv, TypeOK
<1>7. IssuedBacked'
  <2>1. NewRow(c).id = Cert(c).id /\ tgUser[NewRow(c).owner] = Cert(c).owner
    BY <1>3 DEF NewRow, Cert
  <2> QED
    BY <1>3, <2>1 DEF AccountsInv, IssuedBacked
<1>8. UniqueColumns' /\ RowsAreOfUsers' /\ ChatsOfUsers'
  BY DEF AccountsInv, UniqueColumns, RowsAreOfUsers, ChatsOfUsers, Known
<1>9. IdsUnique'
  <2>1. \A d \in Calls : call'[d].at # "idle" => d # c /\ call'[d] = call[d]
    BY DEF AccountsInv, TypeOK, Idle
  <2>2. \A cert \in issued' : cert \in issued \/ cert.id = call[c].id
    BY DEF Cert
  <2> QED
    BY <2>1, <2>2 DEF AccountsInv, IdsUnique, At
<1> QED
  BY <1>1, <1>6, <1>7, <1>8, <1>9 DEF AccountsInv

----------------------------------------------------------------------------
(* The refinement of Registry.                                             *)

Accounted == {tgUser[n] : n \in Names} \ {None}
Reachable == {tgUser[n] : n \in hasChat}
Served == {cert \in issued : Identified(cert) = "served"}

\* What the bot server decides, row by row, is whether the owner named in the
\* certificate has a chat.
ServedReachable == Served = {cert \in issued : cert.owner \in Reachable}

LEMMA ServedAreReachable == AccountsInv => ServedReachable
<1> SUFFICES ASSUME AccountsInv, NEW cert \in issued
             PROVE  Identified(cert) = "served" <=> cert.owner \in Reachable
  BY DEF ServedReachable, Served
<1>1. PICK row \in clients : row.id = cert.id /\ tgUser[row.owner] = cert.owner
  BY DEF AccountsInv, IssuedBacked
<1>2. (CHOOSE r \in RowsOf(cert) : TRUE) = row
  BY <1>1 DEF RowsOf, AccountsInv, UniqueColumns
<1>3. Identified(cert) = "served" <=> row.owner \in hasChat
  BY <1>1, <1>2 DEF Identified, RowsOf
<1>4. row.owner \in Names /\ Known(row.owner) /\ hasChat \subseteq Names
  BY DEF AccountsInv, TypeOK, Rows, RowsAreOfUsers
<1>5. row.owner \in hasChat <=> cert.owner \in Reachable
  BY <1>1, <1>4 DEF Reachable, AccountsInv, UniqueColumns
<1> QED
  BY <1>3, <1>5

LEMMA ServedAreReachableNext == AccountsInv' => ServedReachable'
BY ServedAreReachable, PTL

\* The states of the registry, written out.
LEMMA RegistryStates ==
    /\ Promise!RegistryInit <=>
            Accounted = {} /\ Reachable = {} /\ issued = {} /\ Served = {}
    /\ UNCHANGED Promise!registryVars <=>
            UNCHANGED <<Accounted, Reachable, issued, Served>>
BY DEF Promise!RegistryInit, Promise!registryVars, Accounted, Reachable, Served

\* A new user is an account nobody has.
LEMMA RegisterIsRegister ==
    ASSUME AccountsInv, AccountsInv', NEW n \in Names, NEW t \in TGNames,
           RegisterUser(n, t)
    PROVE  Promise!RegistryNext
<1> USE DEF RegisterUser
<1>1. tgUser \in [Names -> TGNames \union {None}] /\ t # None
  BY NoneIsNoName DEF AccountsInv, TypeOK
<1>2. t \notin Accounted /\ Accounted' = Accounted \union {t}
  BY <1>1 DEF Known, Accounted
<1>3. Reachable' = Reachable
  BY <1>1 DEF Reachable, AccountsInv, TypeOK, ChatsOfUsers, Known
<1>4. Served' = Served
  <2>1. Served' = {cert \in issued' : cert.owner \in Reachable'}
    BY ServedAreReachableNext DEF ServedReachable
  <2> QED
    BY <1>3, <2>1, ServedAreReachable DEF ServedReachable
<1>5. Promise!Register(t)
  BY <1>2, <1>3, <1>4 DEF Promise!Register, Accounted, Reachable, Served
<1> QED
  BY <1>5 DEF Promise!RegistryNext

\* A chat that becomes known makes the clients of its user welcome.
LEMMA OpenMenuIsReach ==
    ASSUME AccountsInv, AccountsInv', NEW n \in Names, OpenMenu(n)
    PROVE  Promise!RegistryNext
<1> USE DEF OpenMenu
<1>1. PICK t \in TGNames : t = tgUser[n]
  BY DEF Known, AccountsInv, TypeOK
<1>2. t \in Accounted
  BY <1>1, NoneIsNoName DEF Accounted
<1>3. Accounted' = Accounted /\ Reachable' = Reachable \union {t}
  BY <1>1 DEF Accounted, Reachable
<1>4. Served' = Served \union {cert \in issued : cert.owner = t}
  <2>1. Served' = {cert \in issued' : cert.owner \in Reachable'}
    BY ServedAreReachableNext DEF ServedReachable
  <2> QED
    BY <1>3, <2>1, ServedAreReachable DEF ServedReachable
<1>5. Promise!Reach(t)
  BY <1>2, <1>3, <1>4 DEF Promise!Reach, Accounted, Reachable, Served
<1> QED
  BY <1>5 DEF Promise!RegistryNext

\* A certificate that reaches its user is granted, one that does not is
\* nothing to the registry.
LEMMA GenerateCertIsGrant ==
    ASSUME AccountsInv, AccountsInv', NEW c \in Calls, GenerateCert(c)
    PROVE  Promise!RegistryNext \/ UNCHANGED Promise!registryVars
<1> USE DEF GenerateCert, tables
<1>1. Accounted' = Accounted /\ Reachable' = Reachable
  BY DEF Accounted, Reachable
<1>2. Served' = {cert \in issued' : cert.owner \in Reachable}
  <2>1. Served' = {cert \in issued' : cert.owner \in Reachable'}
    BY ServedAreReachableNext DEF ServedReachable
  <2> QED
    BY <1>1, <2>1
<1>3. Served = {cert \in issued : cert.owner \in Reachable}
  BY ServedAreReachable DEF ServedReachable
<1>4. CASE ~call[c].heard
  BY <1>1, <1>2, <1>3, <1>4, RegistryStates
<1>5. CASE call[c].heard
  <2>1. call[c] \in Running
    BY DEF At, AccountsInv, TypeOK, Idle
  <2>2. call[c].tg = tgUser[call[c].user] /\ Known(call[c].user)
    BY DEF AccountsInv, CallsInOrder, At
  <2>3. Cert(c) \in Certs /\ Cert(c).owner \in Accounted
    BY <2>1, <2>2 DEF Cert, Certs, Running, Known, Accounted
  <2>4. \A cert \in issued : cert.id # Cert(c).id
    BY DEF AccountsInv, IdsUnique, At, Cert
  <2>5. issued' = issued \union {Cert(c)}
    BY <1>5
  <2>6. Served' = Served \union
            (IF Cert(c).owner \in Reachable THEN {Cert(c)} ELSE {})
    BY <1>2, <1>3, <2>5
  <2> HIDE DEF GenerateCert
  <2>7. Promise!Grant(Cert(c))
    BY <1>1, <2>3, <2>4, <2>5, <2>6
       DEF Promise!Grant, Accounted, Reachable, Served
  <2> QED
    BY <2>3, <2>7
       DEF Promise!RegistryNext, Promise!Certificates, Certs
<1> QED
  BY <1>4, <1>5

\* Tokens and the steps of a registration before its certificate are nothing
\* to the registry, nor are its failures.
LEMMA OthersAreStutters ==
    ASSUME AccountsInv, AccountsInv', UNCHANGED <<tgUser, hasChat, issued>>
    PROVE  UNCHANGED Promise!registryVars
<1>1. Accounted' = Accounted /\ Reachable' = Reachable
  BY DEF Accounted, Reachable
<1>2. Served' = Served
  <2>1. Served' = {cert \in issued' : cert.owner \in Reachable'}
    BY ServedAreReachableNext DEF ServedReachable
  <2> QED
    BY <1>1, <2>1, ServedAreReachable DEF ServedReachable
<1> QED
  BY <1>1, <1>2, RegistryStates

----------------------------------------------------------------------------
\* The inductive invariant of the accounts.
THEOREM AccountsInvHolds == Spec => []AccountsInv
<1>1. AccountsInv /\ [Next]_vars => AccountsInv'
  <2> SUFFICES ASSUME AccountsInv, [Next]_vars PROVE AccountsInv'
    OBVIOUS
  <2>1. CASE \E n \in Names, t \in TGNames : RegisterUser(n, t)
    BY <2>1, RegisterUserKeepsInv
  <2>2. CASE \E c \in Calls, n \in Names, cl \in Clients, i \in IDs :
                Begin(c, n, cl, i)
    BY <2>2, BeginKeepsInv
  <2>3. CASE \E c \in Calls : NewClient(c)
    BY <2>3, OthersKeepInv, FindTGNameKeepsInv, SaveClientKeepsInv,
       FailKeepsInv, GenerateCertKeepsInv DEF NewClient
  <2>4. CASE (\E n \in Names : AuthUser(n) \/ OpenMenu(n)) \/ Restart
    BY <2>4, OthersKeepInv
  <2>5. CASE UNCHANGED vars
    BY <2>5 DEF vars, tables, AccountsInv, TypeOK, UniqueColumns, CallsInOrder,
                IdsUnique, RowsAreOfUsers, ChatsOfUsers, IssuedBacked,
                Known, At, NewRow
  <2> QED
    BY <2>1, <2>2, <2>3, <2>4, <2>5 DEF Next
<1> QED
  BY <1>1, InitAccounts, PTL DEF Spec

\* Types of the tables, of the calls and of the certificates.
THEOREM AccountsTypeCorrect == Spec => []TypeOK
BY AccountsInvHolds, PTL DEF AccountsInv

\* What NewClient hands out is what EventStreaming looks for
\* (clients/service.go:28-68, event_bistream.go:58-70).
THEOREM CertificatesServed == Spec => []IssuedServed
<1>1. AccountsInv => IssuedServed
  <2> SUFFICES ASSUME AccountsInv, NEW cert \in issued
               PROVE  \E row \in RowsOf(cert) :
                        /\ tgUser[row.owner] = cert.owner
                        /\ (row.owner \in hasChat => Identified(cert) = "served")
    BY DEF IssuedServed
  <2>1. PICK row \in clients :
            row.id = cert.id /\ tgUser[row.owner] = cert.owner
    BY DEF AccountsInv, IssuedBacked
  <2>2. row \in RowsOf(cert)
    BY <2>1 DEF RowsOf
  <2>3. \A r \in RowsOf(cert) : r = row
    BY <2>1 DEF RowsOf, AccountsInv, UniqueColumns
  <2>4. (CHOOSE r \in RowsOf(cert) : TRUE) = row
    BY <2>2, <2>3
  <2>5. row.owner \in hasChat => Identified(cert) = "served"
    BY <2>1, <2>2, <2>4 DEF Identified
  <2> QED
    BY <2>1, <2>2, <2>5
<1> QED
  BY <1>1, AccountsInvHolds, PTL

\* One telegram name in certificates is one user (migrations, tg_user UNIQUE).
THEOREM OwnersAreDistinct == Spec => []OwnersDistinct
<1>1. AccountsInv => OwnersDistinct
  <2> SUFFICES ASSUME AccountsInv, NEW c1 \in issued, NEW c2 \in issued,
                      NEW r1 \in clients, NEW r2 \in clients,
                      r1.id = c1.id, r2.id = c2.id, c1.owner = c2.owner
               PROVE  r1.owner = r2.owner
    BY DEF OwnersDistinct
  <2>1. tgUser[r1.owner] = c1.owner /\ tgUser[r2.owner] = c2.owner
    BY DEF AccountsInv, IssuedBacked, UniqueColumns
  <2>2. r1.owner \in Names /\ r2.owner \in Names /\ Known(r1.owner)
    BY DEF AccountsInv, TypeOK, Rows, RowsAreOfUsers
  <2> QED
    BY <2>1, <2>2 DEF AccountsInv, UniqueColumns
<1> QED
  BY <1>1, AccountsInvHolds, PTL

\* The accounts keep the promise of Registry: the grant of a certificate, the
\* chat of its owner and the bot server's decision to serve the client fit
\* together for any number of overlapping and failing registrations, and
\* nothing that was granted is taken back.
THEOREM AccountsImplementRegistry == Spec => ImplementsRegistry
<1>1. Init => Promise!RegistryInit
  BY RegistryStates DEF Init, Accounted, Reachable, Served
<1>2. AccountsInv /\ AccountsInv' /\ [Next]_vars
        => [Promise!RegistryNext]_(Promise!registryVars)
  <2> SUFFICES ASSUME AccountsInv, AccountsInv', [Next]_vars
               PROVE  \/ Promise!RegistryNext
                      \/ UNCHANGED Promise!registryVars
    OBVIOUS
  <2>1. CASE \E n \in Names, t \in TGNames : RegisterUser(n, t)
    BY <2>1, RegisterIsRegister
  <2>2. CASE \E n \in Names : OpenMenu(n)
    BY <2>2, OpenMenuIsReach
  <2>3. CASE \E c \in Calls : GenerateCert(c)
    BY <2>3, GenerateCertIsGrant
  <2>4. CASE \/ \E n \in Names : AuthUser(n)
             \/ \E c \in Calls, n \in Names, cl \in Clients, i \in IDs :
                    Begin(c, n, cl, i)
             \/ \E c \in Calls : \/ FindTGName(c) \/ SaveClient(c)
                                 \/ Fail(c) \/ Timeout(c)
             \/ Restart
             \/ UNCHANGED vars
    <3>1. UNCHANGED <<tgUser, hasChat, issued>>
      BY <2>4 DEF AuthUser, Begin, FindTGName, SaveClient, Fail, Timeout,
                  Restart, vars, tables
    <3> QED
      BY <3>1, OthersAreStutters
  <2> QED
    BY <2>1, <2>2, <2>3, <2>4 DEF Next, NewClient
<1> QED
  BY <1>1, <1>2, AccountsInvHolds, PTL
     DEF Spec, ImplementsRegistry, Promise!RegistrySpec

=============================================================================
