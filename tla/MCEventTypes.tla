---------------------------- MODULE MCEventTypes ----------------------------
(* Lower case, as far as the texts of EventTypes and of the buttons go.    *)

LowerCase(s) ==
    IF s \in {"SwitchON", "switchON"} THEN "switchon"
    ELSE IF s \in {"SwitchOFF", "switchOFF"} THEN "switchoff"
    ELSE IF s = "Empty" THEN "empty"
    ELSE IF s = "Toggle" THEN "toggle" ELSE s

=============================================================================
