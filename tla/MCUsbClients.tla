---------------------------- MODULE MCUsbClients ----------------------------
(* The service and the activities for TLC. *)
EXTENDS UsbClients
=============================================================================
