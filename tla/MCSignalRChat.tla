---------------------------- MODULE MCSignalRChat ----------------------------
(* The client and the replicas are the strings that the .cfg names: two replicas,   *)
(* so that one can take a connection over from the other.                           *)
EXTENDS SignalRChat
=============================================================================
