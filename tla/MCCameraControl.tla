-------------------------- MODULE MCCameraControl --------------------------
(* Instances of CameraControl for TLC. *)
EXTENDS CameraControl

AllFaults == {"publish", "redeliver", "register", "unregister", "save",
              "read", "crash"}
=============================================================================
