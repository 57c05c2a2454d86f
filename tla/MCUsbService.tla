---------------------------- MODULE MCUsbService ----------------------------
(* The USB service and its clients, for TLC. *)
EXTENDS UsbService
=============================================================================
