---------------------------- MODULE MCBridgeGui ----------------------------
(* Instances of BridgeGui for TLC.  Everything but the number of error     *)
(* boxes is finite in the code; two of them let one be closed after a      *)
(* later one, with a connection made in between.                           *)
EXTENDS BridgeGui
=============================================================================
