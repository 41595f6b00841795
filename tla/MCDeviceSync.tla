----------------------------- MODULE MCDeviceSync -----------------------------
(* DeviceSync with small constants. *)
EXTENDS DeviceSync
=============================================================================
