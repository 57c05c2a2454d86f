---------------------------- MODULE MCUsbControl ----------------------------
(* The requests and the transfers of the board, for TLC. *)
EXTENDS UsbControl
=============================================================================
