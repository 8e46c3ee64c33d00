---------------------------- MODULE MCClientApp ----------------------------
(* TLC instances of ClientApp.                                             *)
EXTENDS ClientApp

OneTag == <<[reg |-> "r1", bit |-> 0]>>
OneLamp ==
    <<[id |-> "Lamp001", reg |-> "r1", values |-> [a \in {"switchon"} |-> {0}]]>>

\* Which stream a dial gives does not matter, they are opened in order.  What
\* the server does with a stream that has failed or was replaced, the client
\* does not notice, and a command is looked up when no stream is on its way to
\* the map.
InOrder ==
    /\ \A x \in opened : 1..x \subseteq opened
    /\ dropped = {}
    /\ target # None => target = registered /\ pending = {}

=============================================================================
