--------------------------- MODULE MCTimerService ---------------------------
(* Instances of TimerService for TLC.                                      *)
EXTENDS TimerService

(* A timer that expires at every interrupt, and one with the longest       *)
(* period the counter can hold.                                            *)
MCPeriods == {0, 2}
=============================================================================
