----------------------------- MODULE MCHidTool -----------------------------
(* Instances of HidTool for TLC.                                           *)
EXTENDS HidTool

Ask(c, s) == [magic |-> 1, cmd |-> c, seq |-> s, len |-> 0]

(* One request of each kind the dispatcher treats differently, a foreign   *)
(* packet, a reset request with a payload, and an oversized length.        *)
MCInputs ==
  {Ask("PING", 1), Ask("GET_INFO", 2), Ask("RESET_MCU", 1), Ask("ENTER_IAP", 2),
   Ask("MONITOR_ARM", 1), Ask("UNKNOWN", 2),
   [magic |-> 0, cmd |-> "RESET_MCU", seq |-> 1, len |-> 0],
   [magic |-> 1, cmd |-> "ENTER_IAP", seq |-> 1, len |-> 1],
   [magic |-> 1, cmd |-> "PING", seq |-> 2, len |-> MaxPayload + 1]}

(* For the violated run.                                                   *)
MCInfoInputs == {Ask("GET_INFO", 1), Ask("RESET_MCU", 2)}
=============================================================================
