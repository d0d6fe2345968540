------------------------------ MODULE AppSlot ------------------------------
(***************************************************************************)
(* What the bootloader promises of the application's place in the flash,   *)
(* told without words, packets and pages: it holds a whole image or none.  *)
(* Only a whole image is started, and none comes into the place of one     *)
(* that runs.  An image gets there only out of nothing, and it is the one  *)
(* the host offered last, unless the flash refused a command: then words   *)
(* of an older image may have stayed, and complete it again.               *)
(***************************************************************************)
CONSTANT Images

VARIABLES
  image,    \* the image in the flash, or "none"
  runs,     \* it was started, and runs
  offer,    \* the image the host sends, or "none"
  faulty    \* the flash refused a command during this update

vars == <<image, runs, offer, faulty>>

Init ==
  /\ image \in Images
  /\ runs = FALSE /\ offer = "none" /\ faulty = FALSE

Start ==
  /\ ~runs /\ image # "none"
  /\ runs' = TRUE
  /\ UNCHANGED <<image, offer, faulty>>

Reset ==
  /\ runs' = FALSE /\ faulty' = FALSE /\ offer' = "none"
  /\ UNCHANGED image

(* The host begins an update.                                              *)
Offer ==
  /\ ~runs
  /\ offer' \in Images
  /\ UNCHANGED <<image, runs, faulty>>

(* The image is erased, also by itself while it runs; the flash refuses a  *)
(* command, or an update that begins forgets that it did.                  *)
Spoil ==
  /\ image' \in {image, "none"}
  /\ faulty' \in (IF runs THEN {faulty} ELSE BOOLEAN)
  /\ UNCHANGED <<runs, offer>>

(* The last missing word is written.                                       *)
Install(i) ==
  /\ ~runs /\ image = "none"
  /\ i = offer \/ faulty
  /\ image' = i
  /\ UNCHANGED <<runs, offer, faulty>>

Next == Start \/ Reset \/ Offer \/ Spoil \/ (\E i \in Images : Install(i))

Spec == Init /\ [][Next]_vars
=============================================================================
