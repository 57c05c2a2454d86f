---------------------------- MODULE MCFirmware ----------------------------
(* The simulated table, for TLC. *)
EXTENDS Firmware

\* One bus that has every case: detectKnownDevice misses the printer where it
\* is, and finds it before the phone when the phone comes first in the list.
OneBus == {<<"printer", "hub">>}
=============================================================================
