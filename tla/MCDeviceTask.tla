---------------------------- MODULE MCDeviceTask ----------------------------
(* DeviceTask for TLC: every constant gets its value in the .cfg file. *)
EXTENDS DeviceTask
=============================================================================
