--------------------------- MODULE MCRaceControl ---------------------------
(* Instances of RaceControl for TLC. *)
EXTENDS RaceControl

AllFaults == {"publish", "redeliver", "register", "unregister", "save",
              "read", "crash"}
=============================================================================
