----------------------------- MODULE MCPlcPoll -----------------------------
(* TLC instances of PlcPoll.                                               *)
EXTENDS PlcPoll, EventTypes, MCEventTypes

\* The keys that the texts of lampMenu's buttons become.
Sent == {Key(NewAction(s)) : s \in {"switchON", "switchOFF"}}

\* One register of two bits, as in configs/remote_control_client_config.yml:
\* a lamp on the register whose bits are reported, here the first one twice.
Reported ==
    <<[reg |-> "r1", bit |-> 0], [reg |-> "r1", bit |-> 1],
      [reg |-> "r1", bit |-> 0]>>

\* A lamp switched on two outputs, the second of which cannot be toggled.
Lamps ==
    <<[id |-> "Lamp001", reg |-> "r1",
       values |-> [a \in {"switchon", "switchoff"} |-> IF a = "switchon" THEN {0} ELSE {}]],
      [id |-> "Lamp001", reg |-> "r1",
       values |-> [a \in {"switchon"} |-> {0, 1}]],
      [id |-> "Lamp002", reg |-> "r1",
       values |-> [a \in {"switchon"} |-> {1}]]>>

=============================================================================
