-------------------------- MODULE MCSgpioWaveform --------------------------
(* Instances of SgpioWaveform for TLC.                                     *)
EXTENDS SgpioWaveform

(* Both sides of each clamp, the three counts a monitor accepts, one in    *)
(* between, and the frame with the longest padding.                        *)
MCSlotCounts == {0, 4, 5, 8, 9, 16, 255}

MCRaws == {{}, {3}, {0, 1, 2, 3}}

Mask3(act, locate, fail) == [k \in 0 .. 2 |-> CASE k = 0 -> act [] k = 1 -> locate
                                                [] k = 2 -> fail]

(* Nothing, everything, the patterns of the README, the edges of a frame.  *)
MCMaskSets == {Mask3({}, {}, {}),
               Mask3(0 .. 15, 0 .. 15, 0 .. 15),
               Mask3({0, 4, 8, 12}, {1, 3, 5, 7, 9, 11, 13, 15}, {2, 6, 10, 14}),
               Mask3({3, 7, 15}, {0}, {3, 7, 15})}
=============================================================================
