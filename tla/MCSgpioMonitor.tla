--------------------------- MODULE MCSgpioMonitor ---------------------------
(* Instances of SgpioMonitor for TLC.                                      *)
EXTENDS SgpioMonitor

(* One timeout below the lower clamp, one between the two, one above.      *)
MCRequested == {1, 3, 9}
=============================================================================
