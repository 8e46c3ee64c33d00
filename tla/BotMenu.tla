------------------------------ MODULE BotMenu ------------------------------
(***************************************************************************)
(* The menus of the telegram bot: tg-bot/handlers/handlers.go without the  *)
(* notification switches, and the routing of updates to them               *)
(* (tg-bot/server/bot.go, server.go, handlers/utils.go).                   *)
(*                                                                         *)
(* One goroutine handles the updates of all users one by one, so a handler *)
(* is one step.  It deletes the message it sent last to the user, if there *)
(* is one, and answers with a new one; an answer that cannot be sent ends  *)
(* the process.  What survives it is the column chat_id and what the chats *)
(* show.                                                                   *)
(*                                                                         *)
(* Messages are numbered in each chat, as in supergroups; those of people  *)
(* are left out.  A button may be pressed by anybody in the chat, and the  *)
(* press be handled when its message is gone.  Of the streams a user has,  *)
(* only whether the map holds one matters here.                            *)
(***************************************************************************)
EXTENDS Integers, FiniteSets, EventTypes

CONSTANTS
    Users,              \* telegram names in the table users
    Strangers,          \* telegram names that are not
    Chats,
    Lamps,              \* "Lamp001".. of lightControl
    MaxMessages,        \* messages of the bot in each chat: a bound
    None

ASSUME NamesApart == Users \intersect Strangers = {}
ASSUME NoneIsNothing ==
    None \notin Chats \union Lamps \union [chat : Chats, id : Nat \ {0}]
ASSUME MaxMessagesAreNats == MaxMessages \in [Chats -> Nat]

People == Users \union Strangers

VARIABLES
    chat,               \* column chat_id
    posted,             \* pages of the bot that a chat has ever shown
    sent,               \* number of messages in each chat
    shown,              \* those that are not deleted
    lastMsg,            \* UserServiceImpl.userLastMsg
    connected,          \* users whom the map of streams has an entry for
    strays              \* ghost: how often a message was left behind

chatVars == <<posted, sent, shown>>
vars == <<chat, chatVars, lastMsg, connected, strays>>

\* A status and "unknown user" are both "text", without a button.
Pages == [name : {"menu", "light", "lamp", "switch", "text"},
          lamp : Lamps \union {None}]
Page(name) == [name |-> name, lamp |-> None]
PageOf(name, lamp) == [name |-> name, lamp |-> lamp]

Messages == [id : Nat \ {0}, owner : People]

----------------------------------------------------------------------------
(* Buttons and routes.                                                     *)

\* Callback data "handler:<name>?<parameters>" and plain text.
Handler(name, params) == [opaque |-> name, text |-> "", params |-> params]
Text(text) == [opaque |-> "", text |-> text, params |-> <<>>]

\* The keyboards of the handlers.
MainMenu == {Handler("status", <<>>), Handler("lightControl", <<>>)}
LightMenu ==
    {Handler("lampMenu", [lampID |-> l]) : l \in Lamps} \union {Text("/menu")}
LampMenu(lamp) ==
    {Handler("lampSwitch", [lampID |-> lamp, action |-> a]) :
        a \in {"switchON", "switchOFF"}}
    \union {Handler("lightControl", <<>>)}

\* Mutation of SwitchMenu: the way back forgets the lamp.
SwitchMenuForgetful(lamp) == {Handler("lampMenu", <<>>)}

SwitchMenu(lamp) == {Handler("lampMenu", [lampID |-> lamp])}

Buttons(page) ==
    CASE page.name = "menu" -> MainMenu
      [] page.name = "light" -> LightMenu
      [] page.name = "lamp" -> LampMenu(page.lamp)
      [] page.name = "switch" -> SwitchMenu(page.lamp)
      [] OTHER -> {}

\* What NewBotServer registers.
MessageHandlers == {"/menu", "/start", "/stop"}
CallbackHandlers == {"status", "lightControl", "lampMenu", "lampSwitch"}

\* The handler that ServeBotMessage finds for the data of a button.
Registered(name, names) == IF name \in names THEN name ELSE "unknown route"
Route(data) ==
    IF data.opaque # "" THEN Registered(data.opaque, CallbackHandlers)
    ELSE Registered(data.text, MessageHandlers)

\* Parameters a handler takes the first value of.
Needs(handler) ==
    IF handler = "lampMenu" THEN {"lampID"}
    ELSE IF handler = "lampSwitch" THEN {"lampID", "action"} ELSE {}

----------------------------------------------------------------------------
Init ==
    /\ chat = [u \in Users |-> None]
    /\ posted = [c \in Chats |-> {}]
    /\ sent = [c \in Chats |-> 0]
    /\ shown = [c \in Chats |-> {}]
    /\ lastMsg = [p \in People |-> None]
    /\ connected = {}
    /\ strays = [p \in People |-> 0]

\* The process ends and is started again.
ForgetAll ==
    /\ lastMsg' = [p \in People |-> None]
    /\ connected' = {}
    /\ strays' = [p \in People |-> IF lastMsg[p] = None THEN strays[p]
                                   ELSE strays[p] + 1]

\* Mutation of Kept: the last message is remembered by chat, not by user.
KeptByChat(p, c, done) ==
    IF done THEN {m \in shown[c] : m.id # sent[c]} ELSE shown[c]

\* What is left in chat c when the last message of p is deleted there,
\* wherever it was sent; whether that worked is not looked at.
Kept(p, c, done) ==
    IF done /\ lastMsg[p] # None THEN {m \in shown[c] : m.id # lastMsg[p].id}
    ELSE shown[c]

\* Mutation of Answer: it is remembered before telegram has numbered it.
AnswerUnnumbered(p, c, kept, page) ==
    LET id == sent[c] + 1
    IN  /\ id <= MaxMessages[c]
        /\ sent' = [sent EXCEPT ![c] = id]
        /\ posted' = [posted EXCEPT ![c] = @ \union {page}]
        /\ shown' = [shown EXCEPT ![c] = kept \union {[id |-> id, owner |-> p]}]
        /\ lastMsg' = [lastMsg EXCEPT ![p] = [chat |-> c, id |-> 0]]
        /\ UNCHANGED connected

\* The answer to p in chat c, below what was kept there.
Answer(p, c, kept, page) ==
    LET id == sent[c] + 1
    IN  /\ id <= MaxMessages[c]
        /\ sent' = [sent EXCEPT ![c] = id]
        /\ posted' = [posted EXCEPT ![c] = @ \union {page}]
        /\ shown' = [shown EXCEPT ![c] = kept \union {[id |-> id, owner |-> p]}]
        /\ lastMsg' = [lastMsg EXCEPT ![p] = [chat |-> c, id |-> id]]
        /\ UNCHANGED connected

\* logger.Fatal on an answer that was not sent, or a panic before it.
Fatal(c, kept) ==
    /\ shown' = [shown EXCEPT ![c] = kept]
    /\ ForgetAll
    /\ UNCHANGED <<posted, sent>>

\* A message of p stays behind when its deletion fails or another chat is
\* asked to delete it.
CountStrays(p, c, done) ==
    strays' = IF lastMsg[p] # None /\ (~done \/ lastMsg[p].chat # c)
              THEN [strays EXCEPT ![p] = @ + 1] ELSE strays

\* The end of the handlers that replace the last message.
Replace(p, c, page) ==
    \E done \in BOOLEAN :
        \/ Answer(p, c, Kept(p, c, done), page) /\ CountStrays(p, c, done)
        \/ Fatal(c, Kept(p, c, done))

\* UPDATE users SET chat_id: UNIQUE, and nothing is found of a stranger.
ChatIsFree(p, c) == \A u \in Users \ {p} : chat[u] # c

SetUserChatID(p, c) ==
    /\ p \in Users
    /\ ChatIsFree(p, c)
    /\ chat' = [chat EXCEPT ![p] = c]

\* Typed or pressed; every error of the update is an unknown user.
MenuHandler(p, c) ==
    \/ SetUserChatID(p, c) /\ Replace(p, c, Page("menu"))
    \/ UNCHANGED chat /\ Replace(p, c, Page("text"))

\* A database error makes anybody a stranger.
IsUserExists(p) == IF p \in Users THEN BOOLEAN ELSE {FALSE}

\* Leaves the last message where it is.
StatusHandler(p, c) ==
    \/ Answer(p, c, shown[c], Page("text")) /\ CountStrays(p, c, FALSE)
    \/ Fatal(c, shown[c])

\* Mutation of LightControlHandler: the last message is not deleted.
LightControlKeeping(p, c) ==
    \E exists \in IsUserExists(p) :
        /\ Answer(p, c, shown[c], Page(IF exists THEN "light" ELSE "text"))
        /\ CountStrays(p, c, TRUE)

LightControlHandler(p, c) ==
    \E exists \in IsUserExists(p) :
        Replace(p, c, Page(IF exists THEN "light" ELSE "text"))

LampMenuHandler(p, c, data) ==
    \E exists \in IsUserExists(p) :
        IF exists THEN Replace(p, c, PageOf("lamp", data.params.lampID))
        ELSE Replace(p, c, Page("text"))

\* Without a stream the command is sent to a nil pointer.
LampSwitchHandler(p, c, data) ==
    \E exists \in IsUserExists(p) :
        IF ~exists THEN Replace(p, c, Page("text"))
        ELSE IF p \in connected THEN Replace(p, c, PageOf("switch", data.params.lampID))
        ELSE \E done \in BOOLEAN : Fatal(c, Kept(p, c, done))

\* ServeBotMessage on a button; the answer to the query may fail.
Press(p, c, data) ==
    \/ /\ Route(data) = "/menu"
       /\ MenuHandler(p, c)
    \/ /\ Route(data) = "status"
       /\ StatusHandler(p, c) /\ UNCHANGED chat
    \/ /\ Route(data) = "lightControl"
       /\ LightControlHandler(p, c) /\ UNCHANGED chat
    \/ /\ Route(data) = "lampMenu"
       /\ LampMenuHandler(p, c, data) /\ UNCHANGED chat
    \/ /\ Route(data) = "lampSwitch"
       /\ LampSwitchHandler(p, c, data) /\ UNCHANGED chat
    \/ /\ Route(data) \in CallbackHandlers
       /\ Fatal(c, shown[c]) /\ UNCHANGED chat

\* EventStreaming puts a client of the user into the map.  It has read the row
\* before, and turned the client away if there was no chat in it; no handler
\* takes a chat out of a row again, so it does not matter when that was.
Connect(u) ==
    /\ chat[u] # None
    /\ connected' = connected \union {u}
    /\ UNCHANGED <<chat, chatVars, lastMsg, strays>>

Next ==
    \/ \E p \in People, c \in Chats : MenuHandler(p, c)
    \/ \E p \in People, c \in Chats :
           \E page \in posted[c] :
               \E data \in Buttons(page) : Press(p, c, data)
    \/ \E u \in Users : Connect(u)

Spec == Init /\ [][Next]_vars

----------------------------------------------------------------------------
LastMessages == [chat : Chats, id : Nat \ {0}]

TypeOK ==
    /\ chat \in [Users -> Chats \union {None}]
    /\ posted \in [Chats -> SUBSET Pages]
    /\ sent \in [Chats -> Nat]
    /\ shown \in [Chats -> SUBSET Messages]
    /\ lastMsg \in [People -> LastMessages \union {None}]
    /\ connected \subseteq Users
    /\ strays \in [People -> Nat]

\* Whatever a chat shows can be pressed at any time: every button has its
\* handler, which finds the parameters it takes in the data of the button,
\* and none calls a handler that expects a typed message.  The action of a
\* lamp is one that has a name: the handler ignores the error of NewAction,
\* and a text that does not parse would be sent as the first of them.
ButtonsServed ==
    \A c \in Chats : \A page \in posted[c] : \A data \in Buttons(page) :
        /\ Route(data) \in CallbackHandlers \union {"/menu"}
        /\ Needs(Route(data)) \subseteq DOMAIN data.params
        /\ Route(data) = "lampSwitch" => Parses(data.params.action) # {}

\* The menus leave one message to each user, and one more for every status,
\* failed deletion, change of chat and restart.  (The answers to /start and
\* /stop and the notifications stay in the chat as well: not counted here.)
MessagesBounded ==
    \A p \in People :
        Cardinality({m \in Chats \X UNION {shown[c] : c \in Chats} :
                        m[2] \in shown[m[1]] /\ m[2].owner = p})
            <= 1 + strays[p]

\* A message is deleted for its own user only, unless the user comes from
\* another chat, where the same number was another message.
OwnMessagesDeleted ==
    [][\A c \in Chats : \A m \in shown[c] \ shown'[c] :
        \E p \in People :
            /\ lastMsg[p] # None /\ lastMsg'[p] # lastMsg[p]
            /\ lastMsg[p].id = m.id
            /\ m.owner = p \/ lastMsg[p].chat # c]_vars

(* The invariant behind them.                                              *)

\* The next message of a chat has a number of its own.
NumbersUsed ==
    /\ \A c \in Chats : \A m \in shown[c] : m.id <= sent[c]
    /\ \A p \in People : lastMsg[p] # None => lastMsg[p].id <= sent[lastMsg[p].chat]

LastMsgOwned ==
    \A p \in People : lastMsg[p] # None =>
        \A m \in shown[lastMsg[p].chat] : m.id = lastMsg[p].id => m.owner = p

BotInv == TypeOK /\ NumbersUsed /\ LastMsgOwned

=============================================================================
