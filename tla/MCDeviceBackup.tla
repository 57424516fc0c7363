--------------------------- MODULE MCDeviceBackup ---------------------------
(* Instances of DeviceBackup for TLC. *)
EXTENDS DeviceBackup
=============================================================================
