--------------------------- MODULE MCRemoteClient ---------------------------
(* TLC instances of RemoteClient.  Its runs check liveness: no symmetry.   *)
EXTENDS RemoteClient

=============================================================================
