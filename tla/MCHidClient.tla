--------------------------- MODULE MCHidClient ---------------------------
(* A wrap of the sequence byte within the calls of a run, a ring that      *)
(* overflows, one loss of the device and one reconnection.                 *)
EXTENDS HidClient

CONSTANTS c1, c2

MCCmds == {c1, c2}
=============================================================================
