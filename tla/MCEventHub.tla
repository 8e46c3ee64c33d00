----------------------------- MODULE MCEventHub -----------------------------
(* TLC instances of EventHub.                                              *)
EXTENDS EventHub, TLC

\* Streams and users are told apart by nothing but their relations.
HubSymmetry == Permutations(Streams) \union Permutations(Users)

============================================================================
