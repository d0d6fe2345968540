----------------------------- MODULE MCIapBoot -----------------------------
(* Instances of IapBoot for TLC: two pages of two words, so that packets   *)
(* cross a page boundary and end within the last page, two images to mix,  *)
(* and two packets taken back or flash commands refused between two        *)
(* resets.  Nothing tells the images apart.                                *)
EXTENDS IapBoot, TLC

Symmetry == Permutations(Images)
=============================================================================
