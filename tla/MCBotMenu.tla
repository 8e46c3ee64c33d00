----------------------------- MODULE MCBotMenu -----------------------------
(* TLC instances of BotMenu.                                               *)
EXTENDS BotMenu, MCEventTypes, TLC

\* Room for every page in one chat, and for the change of chats.
Room == [c \in Chats |-> IF c = "group" THEN 4 ELSE 1]

UserSymmetry == Permutations(Users)

=============================================================================
