--------------------------- MODULE MCSgpioOutput ---------------------------
(* Instances of SgpioOutput for TLC.                                       *)
EXTENDS SgpioOutput

(* One interval inside the clamps, one above them.                         *)
MCRequested == {2, 9}
=============================================================================
