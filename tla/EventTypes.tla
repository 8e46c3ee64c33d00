----------------------------- MODULE EventTypes -----------------------------
(***************************************************************************)
(* The action of a command on its way from a button to the controller:     *)
(* the button's text is parsed to a number (pkg/model/event.go), which     *)
(* travels in the payload; the client takes the number's name, in lower    *)
(* case, for the key of the value it writes (plc.go).                      *)
(***************************************************************************)
EXTENDS Integers, Sequences

CONSTANT ToLower(_)     \* of package strings

actions == <<"Empty", "SwitchON", "SwitchOFF", "Toggle">>
Action == 0..(Len(actions) - 1)

\* The names differ in more than their case.
ASSUME NamesDiffer ==
    \A i, j \in DOMAIN actions : ToLower(actions[i]) = ToLower(actions[j]) => i = j

\* The texts of the bot's buttons differ from two of them in nothing else.
ASSUME ButtonsFold ==
    /\ ToLower("switchON") = ToLower("SwitchON")
    /\ ToLower("switchOFF") = ToLower("SwitchOFF")

EqualFold(s, t) == ToLower(s) = ToLower(t)
Parses(s) == {i \in DOMAIN actions : EqualFold(actions[i], s)}

\* The handler of lampSwitch does not look at the error.
NewAction(s) ==
    IF Parses(s) = {} THEN 0
    ELSE (CHOOSE i \in Parses(s) : \A j \in Parses(s) : i <= j) - 1

\* The index is not checked: it panics on a number that is no action.
String(a) == actions[a + 1]

\* The keys of a device's values; viper keeps those of the file in lower case.
Key(a) == ToLower(String(a))

=============================================================================
