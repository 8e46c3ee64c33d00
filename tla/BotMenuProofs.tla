--------------------------- MODULE BotMenuProofs ---------------------------
(***************************************************************************)
(* Proofs about BotMenu, for any users, chats, lamps and numbers of        *)
(* messages: buttons find what they need, the bot deletes what it sent to  *)
(* the same user, and leaves no more messages than it could not clean up.  *)
(* And about EventTypes, for any text of a button: what the client makes   *)
(* of it.                                                                  *)
(*                                                                         *)
(* The argument: whatever a handler does in between, it ends by answering  *)
(* below what it kept of the chat, or with the process (Ends).  An         *)
(* answer has a number that no message of the chat had, and goes to the    *)
(* user whose last message it becomes.                                     *)
(***************************************************************************)
EXTENDS BotMenu, FiniteSetTheorems, TLAPS

\* The data of every button on every page.
LEMMA ButtonData ==
    ASSUME NEW page \in Pages, NEW data \in Buttons(page)
    PROVE  /\ Route(data) \in CallbackHandlers \union {"/menu"}
           /\ Needs(Route(data)) \subseteq DOMAIN data.params
           /\ Route(data) = "lampSwitch" => Parses(data.params.action) # {}
           /\ Route(data) \in {"lampMenu", "lampSwitch"} =>
                  data.params.lampID \in Lamps \union {None}
<1> USE DEF Route, Registered, CallbackHandlers, MessageHandlers
<1>1. ASSUME data = Handler("status", <<>>) \/ data = Handler("lightControl", <<>>)
                 \/ data = Text("/menu")
      PROVE  /\ Route(data) \in {"status", "lightControl", "/menu"}
             /\ Needs(Route(data)) = {}
  <2>1. CASE data = Handler("status", <<>>)
    BY <2>1 DEF Handler, Needs
  <2>2. CASE data = Handler("lightControl", <<>>)
    BY <2>2 DEF Handler, Needs
  <2>3. CASE data = Text("/menu")
    BY <2>3 DEF Text, Needs
  <2> QED
    BY <1>1, <2>1, <2>2, <2>3
<1>2. ASSUME NEW lamp \in Lamps \union {None},
             data = Handler("lampMenu", [lampID |-> lamp])
      PROVE  /\ Route(data) = "lampMenu" /\ Needs(Route(data)) = {"lampID"}
             /\ DOMAIN data.params = {"lampID"} /\ data.params.lampID = lamp
  BY <1>2 DEF Handler, Needs
<1>3. ASSUME NEW lamp \in Lamps \union {None}, NEW a \in {"switchON", "switchOFF"},
             data = Handler("lampSwitch", [lampID |-> lamp, action |-> a])
      PROVE  /\ Route(data) = "lampSwitch"
             /\ Needs(Route(data)) = {"lampID", "action"}
             /\ DOMAIN data.params = {"lampID", "action"}
             /\ data.params.lampID = lamp
             /\ Parses(data.params.action) # {}
  <2>1. data.params.action = a
    BY <1>3 DEF Handler
  <2>2. a = "switchON" => 2 \in Parses(a)
    BY ButtonsFold DEF Parses, EqualFold, actions
  <2>3. a = "switchOFF" => 3 \in Parses(a)
    BY ButtonsFold DEF Parses, EqualFold, actions
  <2> QED
    BY <1>3, <2>1, <2>2, <2>3 DEF Handler, Needs
<1>4. page.lamp \in Lamps \union {None}
  BY DEF Pages
<1>5. \/ data = Handler("status", <<>>) \/ data = Handler("lightControl", <<>>)
      \/ data = Text("/menu")
      \/ \E lamp \in Lamps \union {None} :
            data = Handler("lampMenu", [lampID |-> lamp])
      \/ \E lamp \in Lamps \union {None}, a \in {"switchON", "switchOFF"} :
            data = Handler("lampSwitch", [lampID |-> lamp, action |-> a])
  BY <1>4 DEF Buttons, MainMenu, LightMenu, LampMenu, SwitchMenu
<1> QED
  <2>1. CASE data = Handler("status", <<>>) \/ data = Handler("lightControl", <<>>)
                 \/ data = Text("/menu")
    <3>1. Route(data) \in {"status", "lightControl", "/menu"}
          /\ Needs(Route(data)) = {}
      BY <1>1, <2>1
    <3> QED
      BY <3>1 DEF CallbackHandlers
  <2>2. CASE \E lamp \in Lamps \union {None} :
                data = Handler("lampMenu", [lampID |-> lamp])
    BY <1>2, <2>2
  <2>3. CASE \E lamp \in Lamps \union {None}, a \in {"switchON", "switchOFF"} :
                data = Handler("lampSwitch", [lampID |-> lamp, action |-> a])
    BY <1>3, <2>3
  <2> QED
    BY <1>5, <2>1, <2>2, <2>3

\* What a handler may keep of its chat.
KeptOf(p, c, kept) ==
    kept = shown[c] \/ (lastMsg[p] # None /\ kept = Kept(p, c, TRUE))

\* A handler for p in chat c ends like this: it answers, having deleted the
\* last message or not, or the process ends.
Ends(p, c) ==
    /\ UNCHANGED chat \/ SetUserChatID(p, c)
    /\ \E done \in BOOLEAN :
          \/ \E page \in Pages :
                Answer(p, c, Kept(p, c, done), page) /\ CountStrays(p, c, done)
          \/ Fatal(c, Kept(p, c, done))

LEMMA StraysCounted ==
    ASSUME BotInv, NEW p \in People, NEW c \in Chats
    PROVE  /\ \A done \in BOOLEAN : CountStrays(p, c, done) => strays' \in [People -> Nat]
           /\ ForgetAll => strays' \in [People -> Nat]
BY DEF BotInv, TypeOK, CountStrays, ForgetAll

LEMMA EndsKept ==
    ASSUME BotInv, NEW p \in People, NEW c \in Chats, Ends(p, c)
    PROVE  /\ strays' \in [People -> Nat]
           /\ \E kept : /\ KeptOf(p, c, kept)
                        /\ \/ \E page \in Pages : Answer(p, c, kept, page)
                           \/ Fatal(c, kept)
<1>1. \A done \in BOOLEAN : KeptOf(p, c, Kept(p, c, done))
  BY DEF KeptOf, Kept
<1>2. \A kept : Fatal(c, kept) => ForgetAll
  BY DEF Fatal
<1> QED
  BY <1>1, <1>2, StraysCounted DEF Ends

LEMMA ReplaceEnds ==
    ASSUME BotInv, NEW p \in People, NEW c \in Chats, NEW page \in Pages,
           Replace(p, c, page), UNCHANGED chat \/ SetUserChatID(p, c)
    PROVE  Ends(p, c)
BY DEF Replace, Ends

LEMMA MenuEnds ==
    ASSUME BotInv, NEW p \in People, NEW c \in Chats, MenuHandler(p, c)
    PROVE  Ends(p, c)
<1>1. Page("menu") \in Pages /\ Page("text") \in Pages
  BY DEF Page, Pages
<1> QED
  BY <1>1, ReplaceEnds DEF MenuHandler

LEMMA PressEnds ==
    ASSUME BotInv, NEW p \in People, NEW c \in Chats, NEW page \in posted[c],
           NEW data \in Buttons(page), Press(p, c, data)
    PROVE  Ends(p, c)
<1>1. page \in Pages
  BY DEF BotInv, TypeOK
<1>2. Page("light") \in Pages /\ Page("text") \in Pages
  BY DEF Page, Pages
<1>3. Route(data) \in {"lampMenu", "lampSwitch"} =>
        /\ PageOf("lamp", data.params.lampID) \in Pages
        /\ PageOf("switch", data.params.lampID) \in Pages
  BY <1>1, ButtonData DEF PageOf, Pages
<1>4. shown[c] = Kept(p, c, FALSE)
  BY DEF Kept
<1>6. CASE MenuHandler(p, c)
  BY <1>6, MenuEnds
<1>7. CASE StatusHandler(p, c) /\ UNCHANGED chat
  BY <1>2, <1>4, <1>7 DEF StatusHandler, Ends
<1>8. CASE LightControlHandler(p, c) /\ UNCHANGED chat
  BY <1>2, <1>8, ReplaceEnds DEF LightControlHandler
<1>9. CASE LampMenuHandler(p, c, data) /\ UNCHANGED chat /\ Route(data) = "lampMenu"
  BY <1>2, <1>3, <1>9, ReplaceEnds DEF LampMenuHandler
<1>10. CASE LampSwitchHandler(p, c, data) /\ UNCHANGED chat
                /\ Route(data) = "lampSwitch"
  <2>1. CASE \E done \in BOOLEAN : Fatal(c, Kept(p, c, done))
    BY <1>10, <2>1 DEF Ends
  <2> QED
    BY <1>2, <1>3, <1>10, <2>1, ReplaceEnds DEF LampSwitchHandler
<1>11. CASE Fatal(c, shown[c]) /\ UNCHANGED chat
  BY <1>4, <1>11 DEF Ends
<1> QED
  BY <1>6, <1>7, <1>8, <1>9, <1>10, <1>11 DEF Press

LEMMA ChatsKept ==
    ASSUME BotInv, NEW p \in People, NEW c \in Chats,
           UNCHANGED chat \/ SetUserChatID(p, c)
    PROVE  chat' \in [Users -> Chats \union {None}]
BY DEF BotInv, TypeOK, SetUserChatID

\* The last message of p is not among what was kept of its chat by an answer
\* to p, and what was kept was there.
LEMMA AnswerKeepsInv ==
    ASSUME BotInv, NEW p \in People, NEW c \in Chats, NEW kept, KeptOf(p, c, kept),
           NEW page \in Pages, Answer(p, c, kept, page),
           UNCHANGED chat \/ SetUserChatID(p, c), strays' \in [People -> Nat]
    PROVE  BotInv'
<1> DEFINE id == sent[c] + 1
           new == [id |-> id, owner |-> p]
           last == [chat |-> c, id |-> id]
<1>1. /\ sent' = [sent EXCEPT ![c] = id]
      /\ posted' = [posted EXCEPT ![c] = @ \union {page}]
      /\ shown' = [shown EXCEPT ![c] = kept \union {new}]
      /\ lastMsg' = [lastMsg EXCEPT ![p] = last]
      /\ UNCHANGED connected
  BY DEF Answer
<1>2. id \in Nat \ {0} /\ sent[c] \in Nat
  BY DEF BotInv, TypeOK
<1>3. new \in Messages /\ last \in LastMessages
  BY <1>2 DEF Messages, LastMessages
<1>4. kept \subseteq shown[c]
  BY DEF KeptOf, Kept
<1>5. kept \subseteq Messages
  BY <1>4 DEF BotInv, TypeOK
<1>6. new.id = id /\ new.owner = p /\ last.chat = c /\ last.id = id
  OBVIOUS
<1> HIDE DEF new, last, id
<1>8. TypeOK'
  BY <1>1, <1>2, <1>3, <1>5, ChatsKept DEF BotInv, TypeOK
<1>9. sent \in [Chats -> Nat] /\ \A d \in Chats : sent'[d] \in Nat /\ sent'[d] >= sent[d]
  BY <1>1, <1>2 DEF BotInv, TypeOK, id
<1>10. NumbersUsed'
  <2>1. ASSUME NEW d \in Chats, NEW msg \in shown'[d]
        PROVE  msg.id <= sent'[d]
    <3>1. msg \in shown[d] \/ (d = c /\ msg = new)
      <4>1. shown'[d] = IF d = c THEN kept \union {new} ELSE shown[d]
        BY <1>1 DEF BotInv, TypeOK
      <4> QED
        BY <1>4, <2>1, <4>1
    <3>2. CASE msg \in shown[d]
      <4>1. msg.id <= sent[d] /\ msg.id \in Nat
        BY <3>2 DEF BotInv, TypeOK, NumbersUsed, Messages
      <4> QED
        BY <1>9, <4>1
    <3>3. CASE d = c /\ msg = new
      BY <1>1, <1>2, <1>6, <1>9, <3>3
    <3> QED
      BY <3>1, <3>2, <3>3
  <2>2. ASSUME NEW q \in People, lastMsg'[q] # None
        PROVE  lastMsg'[q].id <= sent'[lastMsg'[q].chat]
    <3>1. CASE q = p
      BY <1>1, <1>2, <1>6, <1>9, <3>1 DEF BotInv, TypeOK
    <3>2. CASE q # p
      <4>1. lastMsg'[q] = lastMsg[q]
        BY <1>1, <3>2 DEF BotInv, TypeOK
      <4>2. /\ lastMsg[q].id <= sent[lastMsg[q].chat]
            /\ lastMsg[q].id \in Nat /\ lastMsg[q].chat \in Chats
        BY <2>2, <4>1 DEF BotInv, TypeOK, NumbersUsed, LastMessages
      <4> QED
        BY <1>9, <4>1, <4>2
    <3> QED
      BY <3>1, <3>2
  <2> QED
    BY <2>1, <2>2 DEF NumbersUsed
<1>11. LastMsgOwned'
  BY <1>1, <1>2, <1>4, <1>6 DEF BotInv, TypeOK, NumbersUsed, LastMsgOwned, id
<1> QED
  BY <1>8, <1>10, <1>11, ChatsKept DEF BotInv

\* An answer that was not sent leaves what was kept of the chat.
LEMMA FatalKeepsInv ==
    ASSUME BotInv, NEW p \in People, NEW c \in Chats, NEW kept, KeptOf(p, c, kept),
           Fatal(c, kept), UNCHANGED chat \/ SetUserChatID(p, c)
    PROVE  BotInv'
<1>1. /\ shown' = [shown EXCEPT ![c] = kept]
      /\ lastMsg' = [q \in People |-> None]
      /\ connected' = {}
      /\ UNCHANGED <<posted, sent>>
  BY DEF Fatal, ForgetAll
<1>2. kept \subseteq shown[c]
  BY DEF KeptOf, Kept
<1>3. strays' \in [People -> Nat]
  BY StraysCounted DEF Fatal
<1>4. TypeOK'
  BY <1>1, <1>2, <1>3, ChatsKept DEF BotInv, TypeOK
<1>5. NumbersUsed'
  BY <1>1, <1>2 DEF BotInv, TypeOK, NumbersUsed
<1>6. LastMsgOwned'
  BY <1>1 DEF LastMsgOwned
<1> QED
  BY <1>4, <1>5, <1>6, ChatsKept DEF BotInv

LEMMA EndsKeepInv ==
    ASSUME BotInv, NEW p \in People, NEW c \in Chats, Ends(p, c)
    PROVE  BotInv'
<1>1. UNCHANGED chat \/ SetUserChatID(p, c)
  BY DEF Ends
<1> QED
  BY <1>1, EndsKept, AnswerKeepsInv, FatalKeepsInv

LEMMA ConnectKeepsInv ==
    ASSUME BotInv, NEW u \in Users, Connect(u)
    PROVE  BotInv'
<1>1. UNCHANGED <<chat, posted, sent, shown, lastMsg, strays>>
  BY DEF Connect, chatVars
<1>2. connected' \subseteq Users
  BY DEF Connect, BotInv, TypeOK
<1> QED
  BY <1>1, <1>2 DEF BotInv, TypeOK, NumbersUsed, LastMsgOwned

\* A step is the end of a handler or a new stream.
LEMMA StepEnds ==
    ASSUME BotInv, Next
    PROVE  \/ \E p \in People, c \in Chats : Ends(p, c)
           \/ \E u \in Users : Connect(u)
BY MenuEnds, PressEnds DEF Next

LEMMA InitBot == Init => BotInv
BY DEF Init, BotInv, TypeOK, NumbersUsed, LastMsgOwned

LEMMA StepKeepsInv == BotInv /\ [Next]_vars => BotInv'
<1> SUFFICES ASSUME BotInv, [Next]_vars PROVE BotInv'
  OBVIOUS
<1>1. CASE Next
  BY <1>1, StepEnds, EndsKeepInv, ConnectKeepsInv
<1>2. CASE UNCHANGED vars
  BY <1>2 DEF vars, chatVars, BotInv, TypeOK, NumbersUsed, LastMsgOwned
<1> QED
  BY <1>1, <1>2

\* Every message has a number that its chat used once, and the message kept
\* for a user is the user's.
THEOREM BotInvHolds == Spec => []BotInv
BY InitBot, StepKeepsInv, PTL DEF Spec

\* Whatever the chats show can be pressed: every button finds a handler and
\* the handler its parameters, so lampMenu and lampSwitch index no empty list.
THEOREM ButtonsAreServed == Spec => []ButtonsServed
<1>1. BotInv => ButtonsServed
  BY ButtonData DEF BotInv, TypeOK, ButtonsServed
<1> QED
  BY <1>1, BotInvHolds, PTL

\* The types of BotMenu.
THEOREM BotTypeCorrect == Spec => []TypeOK
<1>1. BotInv => TypeOK
  BY DEF BotInv
<1> QED
  BY <1>1, BotInvHolds, PTL

\* What is missing from a chat after a step was the last message of the user
\* whose handler it was, and that user has another one now, or none.
LEMMA DeletionsAreOwn ==
    ASSUME BotInv, NEW p \in People, NEW c \in Chats, Ends(p, c),
           NEW d \in Chats, NEW msg \in shown[d], msg \notin shown'[d]
    PROVE  /\ lastMsg[p] # None /\ lastMsg'[p] # lastMsg[p]
           /\ lastMsg[p].id = msg.id
           /\ msg.owner = p \/ lastMsg[p].chat # d
<1>1. PICK kept : /\ KeptOf(p, c, kept)
                  /\ \/ \E page \in Pages : Answer(p, c, kept, page)
                     \/ Fatal(c, kept)
  BY EndsKept
<1>2. d = c /\ msg \notin kept
  <2>1. CASE \E page \in Pages : Answer(p, c, kept, page)
    BY <2>1 DEF Answer, BotInv, TypeOK
  <2>2. CASE Fatal(c, kept)
    BY <2>2 DEF Fatal, BotInv, TypeOK
  <2> QED
    BY <1>1, <2>1, <2>2
<1>3. lastMsg[p] # None /\ msg.id = lastMsg[p].id
  BY <1>1, <1>2 DEF KeptOf, Kept
<1>4. msg.owner = p \/ lastMsg[p].chat # d
  BY <1>3 DEF BotInv, LastMsgOwned
<1>5. lastMsg'[p] # lastMsg[p]
  <2>1. CASE Fatal(c, kept)
    BY <1>3, <2>1 DEF Fatal, ForgetAll
  <2>2. CASE \E page \in Pages : Answer(p, c, kept, page)
    <3>1. lastMsg'[p] = [chat |-> c, id |-> sent[c] + 1]
      BY <2>2 DEF Answer, BotInv, TypeOK
    <3>2. msg.id <= sent[c] /\ msg.id \in Nat /\ sent[c] \in Nat
      BY <1>2 DEF BotInv, TypeOK, NumbersUsed, Messages
    <3>3. lastMsg'[p].id = sent[c] + 1
      BY <3>1
    <3> QED
      BY <1>3, <3>2, <3>3
  <2> QED
    BY <1>1, <2>1, <2>2
<1> QED
  BY <1>3, <1>4, <1>5

\* The bot deletes a message only for the user it was sent to, as long as
\* that user stays in the same chat: the map of last messages, which has the
\* user for its key and not the chat, never points at somebody else's.
THEOREM DeletesOwnMessages == Spec => OwnMessagesDeleted
<1> DEFINE Own == \A c \in Chats : \A m \in shown[c] \ shown'[c] :
                    \E p \in People :
                        /\ lastMsg[p] # None /\ lastMsg'[p] # lastMsg[p]
                        /\ lastMsg[p].id = m.id
                        /\ m.owner = p \/ lastMsg[p].chat # c
<1>1. ASSUME BotInv, Next PROVE Own
  <2>1. CASE \E p \in People, c \in Chats : Ends(p, c)
    BY <1>1, <2>1, DeletionsAreOwn
  <2>2. CASE \E u \in Users : Connect(u)
    BY <2>2 DEF Connect, chatVars
  <2> QED
    BY <1>1, <2>1, <2>2, StepEnds
<1>2. BotInv /\ [Next]_vars => [Own]_vars
  BY <1>1
<1> QED
  BY <1>2, BotInvHolds, PTL DEF Spec, OwnMessagesDeleted

----------------------------------------------------------------------------
(* The messages that stay behind.                                          *)

\* The messages of p that chats show, and those of them that p's handlers
\* will not delete.
Owned(p) ==
    {m \in Chats \X UNION {shown[c] : c \in Chats} :
        m[2] \in shown[m[1]] /\ m[2].owner = p}
Left(p) ==
    {m \in Owned(p) :
        lastMsg[p] # None => m[1] # lastMsg[p].chat \/ m[2].id # lastMsg[p].id}

LeftCounted ==
    \A p \in People : IsFiniteSet(Left(p)) /\ Cardinality(Left(p)) <= strays[p]

LEMMA AddElementCount ==
    ASSUME NEW S, NEW x, IsFiniteSet(S)
    PROVE  /\ IsFiniteSet(S \union {x})
           /\ Cardinality(S \union {x}) <= Cardinality(S) + 1
<1>1. Cardinality(S) \in Nat
  BY FS_CardinalityType
<1>2. CASE x \in S
  <2>1. S \union {x} = S
    BY <1>2
  <2>2. IsFiniteSet(S \union {x}) /\ Cardinality(S \union {x}) = Cardinality(S)
    BY <2>1, Zenon
  <2> QED
    BY <1>1, <2>2
<1>3. CASE x \notin S
  <2>1. IsFiniteSet(S \union {x}) /\ Cardinality(S \union {x}) = Cardinality(S) + 1
    BY <1>3, FS_AddElement
  <2> QED
    BY <1>1, <2>1
<1> QED
  BY <1>2, <1>3

\* All but the last message of p are left.
LEMMA OwnedIsLeftAndLast ==
    ASSUME BotInv, NEW p \in People, IsFiniteSet(Left(p))
    PROVE  /\ IsFiniteSet(Owned(p))
           /\ Cardinality(Owned(p)) <= Cardinality(Left(p)) + 1
           /\ lastMsg[p] = None => Owned(p) = Left(p)
<1> DEFINE last == <<lastMsg[p].chat, [id |-> lastMsg[p].id, owner |-> p]>>
<1>1. lastMsg[p] = None => Owned(p) = Left(p)
  BY DEF Left
<1>2. Owned(p) \subseteq Left(p) \union {last}
  <2> SUFFICES ASSUME NEW m \in Owned(p), m \notin Left(p)
               PROVE  m = last
    OBVIOUS
  <2>1. m[1] = lastMsg[p].chat /\ m[2].id = lastMsg[p].id
    BY DEF Left
  <2>2. m \in Chats \X Messages /\ m[2].owner = p
    BY DEF Owned, BotInv, TypeOK
  <2>3. m = <<m[1], m[2]>> /\ m[2] = [id |-> m[2].id, owner |-> m[2].owner]
    BY <2>2 DEF Messages
  <2> QED
    BY <2>1, <2>2, <2>3
<1>3. /\ IsFiniteSet(Left(p) \union {last})
      /\ Cardinality(Left(p) \union {last}) <= Cardinality(Left(p)) + 1
  BY AddElementCount
<1>4. /\ IsFiniteSet(Owned(p))
      /\ Cardinality(Owned(p)) <= Cardinality(Left(p) \union {last})
  BY <1>2, <1>3, FS_Subset
<1> QED
  <2> HIDE DEF last
  <2>1. /\ Cardinality(Owned(p)) \in Nat /\ Cardinality(Left(p)) \in Nat
        /\ Cardinality(Left(p) \union {last}) \in Nat
    BY <1>3, <1>4, FS_CardinalityType
  <2> QED
    BY <1>1, <1>3, <1>4, <2>1

\* A step leaves no more messages behind, or one more and counts it.
LEMMA CountedKept ==
    ASSUME BotInv, LeftCounted, strays' \in [People -> Nat],
           \A q \in People :
              \/ Left(q)' \subseteq Left(q) /\ strays'[q] >= strays[q]
              \/ Left(q)' \subseteq Owned(q) /\ strays'[q] = strays[q] + 1
    PROVE  LeftCounted'
<1> SUFFICES ASSUME NEW q \in People
             PROVE  IsFiniteSet(Left(q)') /\ Cardinality(Left(q)') <= strays'[q]
  BY DEF LeftCounted
<1>1. /\ IsFiniteSet(Left(q)) /\ Cardinality(Left(q)) <= strays[q]
      /\ Cardinality(Left(q)) \in Nat
      /\ strays[q] \in Nat /\ strays'[q] \in Nat
  BY FS_CardinalityType DEF LeftCounted, BotInv, TypeOK
<1>2. CASE Left(q)' \subseteq Left(q) /\ strays'[q] >= strays[q]
  <2>1. IsFiniteSet(Left(q)') /\ Cardinality(Left(q)') <= Cardinality(Left(q))
    BY <1>1, <1>2, FS_Subset
  <2> QED
    BY <1>1, <1>2, <2>1, FS_CardinalityType
<1>3. CASE Left(q)' \subseteq Owned(q) /\ strays'[q] = strays[q] + 1
  <2>1. /\ IsFiniteSet(Owned(q))
        /\ Cardinality(Owned(q)) <= Cardinality(Left(q)) + 1
    BY <1>1, OwnedIsLeftAndLast
  <2>2. IsFiniteSet(Left(q)') /\ Cardinality(Left(q)') <= Cardinality(Owned(q))
    BY <1>3, <2>1, FS_Subset
  <2> QED
    BY <1>1, <1>3, <2>1, <2>2, FS_CardinalityType
<1> QED
  BY <1>2, <1>3

LEMMA AnswerCounted ==
    ASSUME BotInv, LeftCounted, NEW p \in People, NEW c \in Chats,
           NEW done \in BOOLEAN, NEW page \in Pages,
           Answer(p, c, Kept(p, c, done), page), CountStrays(p, c, done),
           strays' \in [People -> Nat]
    PROVE  LeftCounted'
<1> DEFINE id == sent[c] + 1
           new == [id |-> id, owner |-> p]
<1>1. /\ shown' = [shown EXCEPT ![c] = Kept(p, c, done) \union {new}]
      /\ lastMsg' = [lastMsg EXCEPT ![p] = [chat |-> c, id |-> id]]
  BY DEF Answer
<1>2. /\ \A d \in Chats : shown'[d] = IF d = c THEN Kept(p, c, done) \union {new}
                                      ELSE shown[d]
      /\ lastMsg'[p] = [chat |-> c, id |-> id]
      /\ \A q \in People \ {p} : lastMsg'[q] = lastMsg[q]
  BY <1>1 DEF BotInv, TypeOK
<1>3. new.id = id /\ new.owner = p
  OBVIOUS
<1>4. ASSUME NEW q \in People, NEW m \in Left(q)'
      PROVE  /\ m \in Owned(q)
             /\ m[1] = c => m[2] \in Kept(p, c, done)
             /\ q # p => m \in Left(q)
  <2>1. /\ m \in Chats \X UNION {shown'[d] : d \in Chats}
        /\ m[1] \in Chats /\ m[2] \in shown'[m[1]] /\ m[2].owner = q
        /\ m = <<m[1], m[2]>>
        /\ lastMsg'[q] # None =>
              m[1] # lastMsg'[q].chat \/ m[2].id # lastMsg'[q].id
    BY DEF Left, Owned
  <2>2. m[1] = c => m[2] # new
    <3> SUFFICES ASSUME m[1] = c, m[2] = new PROVE FALSE
      OBVIOUS
    <3>1. q = p
      BY <1>3, <2>1
    <3>2. lastMsg'[p] # None
      <4>1. lastMsg'[p] \in [chat : Chats, id : Nat \ {0}]
        BY <1>2 DEF BotInv, TypeOK
      <4> QED
        BY <4>1, NoneIsNothing
    <3> QED
      BY <1>2, <1>3, <2>1, <3>1, <3>2
  <2>3. m[2] \in shown[m[1]] /\ (m[1] = c => m[2] \in Kept(p, c, done))
    <3> HIDE DEF new, id
    <3>1. Kept(p, c, done) \subseteq shown[c]
      BY DEF Kept
    <3>2. CASE m[1] = c
      <4>1. m[2] \in Kept(p, c, done) \union {new}
        BY <1>2, <2>1, <3>2
      <4> QED
        BY <2>2, <3>1, <3>2, <4>1
    <3>3. CASE m[1] # c
      BY <1>2, <2>1, <3>3
    <3> QED
      BY <3>2, <3>3
  <2>4. m \in Owned(q)
    BY <2>1, <2>3 DEF Owned
  <2>5. q # p => m \in Left(q)
    BY <1>2, <2>1, <2>4 DEF Left
  <2> QED
    BY <2>3, <2>4, <2>5
<1>5. strays' = IF lastMsg[p] # None /\ (~done \/ lastMsg[p].chat # c)
                THEN [strays EXCEPT ![p] = @ + 1] ELSE strays
  BY DEF CountStrays
<1>6. \A q \in People \ {p} : strays'[q] = strays[q] /\ strays[q] \in Nat
  BY <1>5 DEF BotInv, TypeOK
<1>7. CASE lastMsg[p] # None /\ (~done \/ lastMsg[p].chat # c)
  <2>1. strays'[p] = strays[p] + 1
    BY <1>5, <1>7 DEF BotInv, TypeOK
  <2>2. Left(p)' \subseteq Owned(p)
    BY <1>4
  <2>3. \A q \in People \ {p} : Left(q)' \subseteq Left(q) /\ strays'[q] >= strays[q]
    BY <1>4, <1>6
  <2> QED
    BY <2>1, <2>2, <2>3, CountedKept
<1>8. CASE ~(lastMsg[p] # None /\ (~done \/ lastMsg[p].chat # c))
  <2>1. strays'[p] = strays[p] /\ strays[p] \in Nat
    BY <1>5, <1>8 DEF BotInv, TypeOK
  <2>2. Left(p)' \subseteq Left(p)
    BY <1>4, <1>8 DEF Left, Kept
  <2>3. \A q \in People : Left(q)' \subseteq Left(q) /\ strays'[q] >= strays[q]
    BY <1>4, <1>6, <2>1, <2>2
  <2> QED
    BY <2>3, CountedKept
<1> QED
  BY <1>7, <1>8

LEMMA FatalCounted ==
    ASSUME BotInv, LeftCounted, NEW p \in People, NEW c \in Chats,
           NEW done \in BOOLEAN, Fatal(c, Kept(p, c, done)),
           strays' \in [People -> Nat]
    PROVE  LeftCounted'
<1>1. \A d \in Chats : shown'[d] \subseteq shown[d]
  BY DEF Fatal, Kept, BotInv, TypeOK
<1>2. \A q \in People : Left(q)' \subseteq Owned(q)
  BY <1>1 DEF Left, Owned
<1>3. \A q \in People :
        strays'[q] = IF lastMsg[q] = None THEN strays[q] ELSE strays[q] + 1
  BY DEF Fatal, ForgetAll
<1>4. ASSUME NEW q \in People
      PROVE  \/ Left(q)' \subseteq Left(q) /\ strays'[q] >= strays[q]
             \/ Left(q)' \subseteq Owned(q) /\ strays'[q] = strays[q] + 1
  <2>1. CASE lastMsg[q] = None
    <3>1. Owned(q) = Left(q)
      BY <2>1 DEF Left
    <3>2. strays'[q] = strays[q] /\ strays[q] \in Nat
      BY <1>3, <2>1 DEF BotInv, TypeOK
    <3> QED
      BY <1>2, <3>1, <3>2
  <2>2. CASE lastMsg[q] # None
    BY <1>2, <1>3, <2>2
  <2> QED
    BY <2>1, <2>2
<1> QED
  BY <1>4, CountedKept

LEMMA StepKeepsCount == BotInv /\ LeftCounted /\ [Next]_vars => LeftCounted'
<1> SUFFICES ASSUME BotInv, LeftCounted, [Next]_vars PROVE LeftCounted'
  OBVIOUS
<1>1. ASSUME NEW p \in People, NEW c \in Chats, Ends(p, c) PROVE LeftCounted'
  <2>1. strays' \in [People -> Nat]
    BY <1>1, EndsKept
  <2> QED
    BY <1>1, <2>1, AnswerCounted, FatalCounted DEF Ends
<1>2. ASSUME UNCHANGED <<shown, lastMsg, strays>> PROVE LeftCounted'
  <2>1. \A q \in People : Left(q)' = Left(q)
    BY <1>2 DEF Left, Owned
  <2> QED
    BY <1>2, <2>1 DEF LeftCounted
<1>3. ASSUME NEW u \in Users, Connect(u) PROVE LeftCounted'
  BY <1>2, <1>3 DEF Connect, chatVars
<1>4. CASE UNCHANGED vars
  BY <1>2, <1>4 DEF vars, chatVars
<1> QED
  BY <1>1, <1>3, <1>4, StepEnds

\* However handlers, failing deletions and restarts alternate, the menus leave
\* one message to each user and one for each time it could not clean up.
THEOREM MessagesAreBounded == Spec => []MessagesBounded
<1>1. Init => LeftCounted
  <2> SUFFICES ASSUME Init, NEW p \in People
               PROVE  IsFiniteSet(Left(p)) /\ Cardinality(Left(p)) <= strays[p]
    BY DEF LeftCounted
  <2>1. Left(p) = {} /\ strays[p] = 0
    BY DEF Init, Left, Owned
  <2> QED
    BY <2>1, FS_EmptySet
<1>2. BotInv /\ LeftCounted => MessagesBounded
  <2> SUFFICES ASSUME BotInv, LeftCounted, NEW p \in People
               PROVE  Cardinality(Owned(p)) <= 1 + strays[p]
    BY DEF MessagesBounded, Owned
  <2>1. IsFiniteSet(Left(p)) /\ Cardinality(Left(p)) <= strays[p] /\ strays[p] \in Nat
    BY DEF LeftCounted, BotInv, TypeOK
  <2>2. /\ Cardinality(Owned(p)) <= Cardinality(Left(p)) + 1
        /\ Cardinality(Owned(p)) \in Nat /\ Cardinality(Left(p)) \in Nat
    BY <2>1, OwnedIsLeftAndLast, FS_CardinalityType
  <2> QED
    BY <2>1, <2>2
<1>3. Spec => []LeftCounted
  BY <1>1, StepKeepsCount, BotInvHolds, PTL DEF Spec
<1> QED
  BY <1>2, <1>3, BotInvHolds, PTL

----------------------------------------------------------------------------
\* The first name that a text parses to is one of its names.
LEMMA NewActionParses ==
    ASSUME NEW s, Parses(s) # {}
    PROVE  \E i \in Parses(s) : NewAction(s) = i - 1
<1>1. Parses(s) \subseteq 1..4
  BY DEF Parses, actions
<1>2. \E i \in Parses(s) : \A j \in Parses(s) : i <= j
  <2>1. CASE 1 \in Parses(s)
    BY <1>1, <2>1
  <2>2. CASE 1 \notin Parses(s) /\ 2 \in Parses(s)
    BY <1>1, <2>2
  <2>3. CASE 1 \notin Parses(s) /\ 2 \notin Parses(s) /\ 3 \in Parses(s)
    BY <1>1, <2>3
  <2>4. CASE Parses(s) \subseteq {4}
    BY <1>1, <2>4
  <2> QED
    BY <1>1, <2>1, <2>2, <2>3, <2>4
<1> DEFINE first == CHOOSE i \in Parses(s) : \A j \in Parses(s) : i <= j
<1>3. first \in Parses(s)
  BY <1>2
<1>4. NewAction(s) = first - 1
  BY DEF NewAction
<1> QED
  BY <1>3, <1>4

\* Whatever the text of a button, the number that is sent has a name: String
\* (event.go:26), which indexes without a check, does not panic on it.
THEOREM NewActionIsAction == ASSUME NEW s PROVE NewAction(s) \in Action
<1>1. Len(actions) = 4
  BY DEF actions
<1>2. CASE Parses(s) = {}
  BY <1>1, <1>2 DEF NewAction, Action
<1>3. CASE Parses(s) # {}
  <2>1. PICK i \in Parses(s) : NewAction(s) = i - 1
    BY <1>3, NewActionParses
  <2>2. i \in 1..4
    BY <1>1 DEF Parses, actions
  <2> QED
    BY <1>1, <2>1, <2>2 DEF Action
<1> QED
  BY <1>2, <1>3

\* A text that parses reaches the value that the file gives under it, in
\* whatever capitals either is written (handlers.go:259, plc.go:83).
THEOREM ActionReachesValue ==
    ASSUME NEW s, Parses(s) # {}, NEW name, EqualFold(name, s)
    PROVE  Key(NewAction(s)) = ToLower(name)
<1>1. PICK i \in Parses(s) : NewAction(s) = i - 1
  BY NewActionParses
<1>2. i \in 1..4 /\ ToLower(actions[i]) = ToLower(s)
  BY DEF Parses, actions, EqualFold
<1>3. String(NewAction(s)) = actions[i]
  <2>1. (i - 1) + 1 = i
    BY <1>2
  <2> QED
    BY <1>1, <2>1 DEF String
<1> QED
  BY <1>2, <1>3 DEF Key, EqualFold

\* No two actions share a name: each is parsed from its own.
THEOREM ActionsRoundTrip ==
    ASSUME NEW a \in Action
    PROVE  NewAction(String(a)) = a
<1>1. Len(actions) = 4 /\ DOMAIN actions = 1..4
  BY DEF actions
<1>2. a \in 0..3 /\ a + 1 \in DOMAIN actions
  BY <1>1 DEF Action
<1>3. Parses(String(a)) = {a + 1}
  BY <1>2, NamesDiffer DEF Parses, EqualFold, String
<1>4. NewAction(String(a)) = (CHOOSE i \in {a + 1} : \A j \in {a + 1} : i <= j) - 1
  BY <1>3 DEF NewAction
<1> QED
  BY <1>2, <1>4

=============================================================================
