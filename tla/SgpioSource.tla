---------------------------- MODULE SgpioSource ----------------------------
(***************************************************************************)
(* What a target device may rely on at the bridge's SGPIO output: one      *)
(* frame at a time is shifted out, with the settings it was started with   *)
(* to its end, or is cut short by a command; nothing is sent while the     *)
(* output is off; and a frame with the L0 bit released is only sent after  *)
(* a whole frame that had it held low since the output was switched on.    *)
(***************************************************************************)
EXTENDS Naturals

CONSTANTS
  Slots, Data,    \* slot counts, and mask settings
  FrameLen        \* PDMA words of a frame

VARIABLES
  on,             \* the output is switched on
  busy,           \* a frame is under way
  content, sent,  \* that frame, and how many of its words are out
  whole           \* a whole frame was sent since the output was switched on

vars == <<on, busy, content, sent, whole>>

Content == [slots : Slots, data : Data, first : {0, 1}]

Init ==
  /\ on = 0 /\ busy = 0 /\ whole = 0
  /\ content \in Content /\ sent = 0

SwitchOn ==
  /\ on' = 1
  /\ UNCHANGED <<busy, content, sent, whole>>

SwitchOff ==
  /\ on' = 0 /\ busy' = 0 /\ whole' = 0
  /\ UNCHANGED <<content, sent>>

Start(c) ==
  /\ on = 1 /\ busy = 0
  /\ c.first = 0 <=> whole = 1
  /\ busy' = 1 /\ content' = c /\ sent' = 0
  /\ UNCHANGED <<on, whole>>

Shift ==
  /\ busy = 1 /\ sent < FrameLen
  /\ sent' = sent + 1
  /\ UNCHANGED <<on, busy, content, whole>>

End ==
  /\ busy = 1 /\ sent = FrameLen
  /\ busy' = 0 /\ whole' = 1
  /\ UNCHANGED <<on, content, sent>>

(* A command replaces the frame under way; it does not count as sent.      *)
Cut ==
  /\ busy = 1
  /\ busy' = 0
  /\ UNCHANGED <<on, content, sent, whole>>

Next ==
  \/ SwitchOn \/ SwitchOff
  \/ \E c \in Content : Start(c)
  \/ Shift \/ End \/ Cut

Spec == Init /\ [][Next]_vars
=============================================================================
