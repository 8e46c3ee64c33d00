----------------------------- MODULE MCProcess -----------------------------
(* TLC instances of Process.                                               *)
EXTENDS Process

\* The files of the repository, without the token of the bot, which it gets
\* from the environment or not at all.
Files == UNION {Fields(p) : p \in Programs} \ {"BOT_TOKEN", "PORT"}
Shipped ==
    [flags : {{}, {"PORT"}},
     env : {{}, {"BOT_TOKEN", "DATABASE_URI"},
            UNION {Configured[p].documented : p \in Programs}},
     file : {Files}]

=============================================================================
