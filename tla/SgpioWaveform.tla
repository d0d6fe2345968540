--------------------------- MODULE SgpioWaveform ---------------------------
(***************************************************************************)
(* The two ends of an SGPIO frame: the words BuildWaveform                 *)
(* (m031_bridge_sgpio.c) lays out for the output pins, and what Decode     *)
(* (m031_bridge_sgpio_monitor.c) makes of the clock edges of a capture.    *)
(* A source frame is captured by a monitor that may have triggered on any  *)
(* clock of it and may have run out of buffer at any later one.            *)
(*                                                                         *)
(* Masks are sets of slots and SLOAD raw bits sets of L0..L3; masks[k] is  *)
(* the ACT, LOCATE or FAIL mask for k = 0, 1, 2.  The decoder is modelled  *)
(* per rising edge of SCLOCK; its averages of times are left out, and      *)
(* CLOCK_RANGE with them.                                                  *)
(***************************************************************************)
EXTENDS Naturals, Sequences, FiniteSets, SequencesExt

CONSTANTS
  SlotMax,          \* M031_BRIDGE_SGPIO_SLOT_MAX (16)
  WordMax,          \* M031_SGPIO_WAVEFORM_WORD_MAX (130)
  SlotCounts,       \* slot counts hosts ask for, a subset of 0 .. 255
  Raws,             \* SLOAD raw settings, subsets of 0 .. 3
  MaskSets          \* [0 .. 2 -> SUBSET (0 .. 15)] settings used

ASSUME WaveformAssumption ==
  /\ SlotMax \in 1 .. 16
  /\ WordMax \in Nat /\ WordMax >= 129
  /\ SlotCounts \subseteq 0 .. 255
  /\ \A raw \in Raws : raw \subseteq 0 .. 3
  /\ \A m \in MaskSets : m \in [0 .. 2 -> SUBSET (0 .. 15)]

VARIABLES
  slots, raw, first, masks,   \* the frame: clamped slot count, settings
  line,                       \* its words, g_sgpio_waveform, as the line carries them
  expected,                   \* the monitor's expected slot count
  from,                       \* the clock the monitor triggered on
  word,                       \* the word now on the line
  capture                     \* the clocks seen since

vars == <<slots, raw, first, masks, line, expected, from, word, capture>>

-----------------------------------------------------------------------------
(* The generator.  A definition named Bug... is the one after it with a    *)
(* plausible mistake; no property is about it.                             *)

ClampSlotCount(n) == IF n = 0 THEN 1 ELSE IF n > SlotMax THEN SlotMax ELSE n

Clock(sload, sdata) == [sload |-> sload, sdata |-> sdata]
Bit(b) == IF b THEN 1 ELSE 0

(* SlotStreamBit: the b-th bit of the slot data.                           *)
BugSlotStreamBit(n, ms, b) == Bit(b \div 3 < n /\ (n - 1) - b \div 3 \in ms[b % 3])
SlotStreamBit(n, ms, b) == Bit(b \div 3 < n /\ b \div 3 \in ms[b % 3])

SlotsToEmit(n) == IF n < 4 THEN 4 ELSE n

(* SLOAD carries L0..L3 during the first four data bits; L0 is held low in *)
(* a first frame.                                                          *)
DataClocks(n, rawbits, isfirst, ms) ==
  [i \in 1 .. 3 * SlotsToEmit(n) |->
     Clock(Bit(i - 1 \in (IF isfirst = 1 THEN rawbits \ {0} ELSE rawbits) \cap 0 .. 3),
           SlotStreamBit(n, ms, i - 1))]

Sync == [i \in 1 .. 5 |-> Clock(0, 0)] \o <<Clock(1, 0)>>

BugPadding(len) == [i \in 1 .. (IF len <= 32 THEN 32 - len ELSE 0) |-> Clock(1, 0)]
Padding(len) == [i \in 1 .. ((16 - (len % 16)) % 16) |-> Clock(1, 0)]

(* BuildWaveform, clock by clock.                                          *)
Clocks(n, rawbits, isfirst, ms) ==
  LET body == Sync \o DataClocks(n, rawbits, isfirst, ms)
  IN  body \o Padding(Len(body))

(* The words the PDMA copies to the pins: each clock low and then high, a  *)
(* last word that leaves the line idle, and never more than WordMax.       *)
Words(clocks) ==
  LET Level(c, sclk) == [sload |-> c.sload, sdata |-> c.sdata, sclk |-> sclk]
      all == [i \in 1 .. 2 * Len(clocks) |-> Level(clocks[(i + 1) \div 2], (i + 1) % 2)]
               \o <<Level(Clock(1, 0), 0)>>
  IN  SubSeq(all, 1, IF Len(all) > WordMax THEN WordMax ELSE Len(all))

-----------------------------------------------------------------------------
(* The monitor.  A capture is the sequence of SLOAD and SDATA levels at    *)
(* the rising edges of SCLOCK.                                             *)

(* How many clocks just before clock i had SLOAD low.                      *)
LowRun(r, i) ==
  LET highs == {j \in 1 .. i - 1 : r[j].sload = 1}
  IN  i - 1 - (IF highs = {} THEN 0 ELSE CHOOSE j \in highs : \A k \in highs : k <= j)

(* sync_rise: the first SLOAD-high clock after a low run of four or more.  *)
Syncs(r) == {i \in DOMAIN r : r[i].sload = 1 /\ LowRun(r, i) >= 4}
SyncRise(r) == CHOOSE i \in Syncs(r) : \A j \in Syncs(r) : i <= j

(* What follows the sync clock; d[j + 1] is the clock with data_index j.   *)
DataOf(r) == SubSeq(r, SyncRise(r) + 1, Len(r))

(* padding_start: a run of at least two SLOAD-high clocks that starts at   *)
(* data bit 12, 24 or 48; runs are only looked for from bit 12 on.         *)
PaddingStarts(d) ==
  {s \in {12, 24, 48} :
     /\ s + 2 <= Len(d) /\ d[s + 1].sload = 1 /\ d[s + 2].sload = 1
     /\ s = 12 \/ d[s].sload = 0}

Valid(n) == n \in {4, 8, 16}

DetectedSlots(d, exp) ==
  IF exp # 0 THEN exp
  ELSE IF PaddingStarts(d) # {}
       THEN (CHOOSE s \in PaddingStarts(d) : \A t \in PaddingStarts(d) : s <= t) \div 3
  ELSE IF Len(d) >= 48 THEN 16 ELSE 0

MaskOf(d, n, k) ==
  {s \in 0 .. n - 1 : 3 * s + k < Len(d) /\ d[3 * s + k + 1].sdata = 1}

RawOf(d) == {j \in 0 .. 3 : j < Len(d) /\ d[j + 1].sload = 1}

NoMasks == [k \in 0 .. 2 |-> {}]

(* Whether n is a guess, no slot count at all, or more slots than the      *)
(* capture has bits for.                                                   *)
BugIncomplete(d, exp, n) ==      \* the last bit may be missing
  \/ exp = 0 /\ PaddingStarts(d) = {} /\ n = 16
  \/ ~Valid(n) \/ Len(d) + 1 < 3 * n
Incomplete(d, exp, n) ==
  \/ exp = 0 /\ PaddingStarts(d) = {} /\ n = 16
  \/ ~Valid(n) \/ Len(d) < 3 * n

(* Decode of a capture with these rising edges.                            *)
Decode(r, exp) ==
  LET noClock == IF Len(r) < 6 THEN {"NO_CLOCK"} ELSE {}
      d == DataOf(r)
      n == DetectedSlots(d, exp)
      errors ==
        noClock
          \cup (IF LowRun(r, SyncRise(r)) # 5
                   \/ \E j \in 4 .. 3 * n - 1 : j < Len(d) /\ d[j + 1].sload = 1
                THEN {"SYNC"} ELSE {})
          \cup (IF Incomplete(d, exp, n) THEN {"INCOMPLETE"} ELSE {})
  IN  IF Syncs(r) = {}
      THEN [state |-> "ERROR", errors |-> noClock \cup {"SYNC"}, masks |-> NoMasks,
            raw |-> {}, slots |-> 0]
      ELSE [state |-> IF errors \cap {"NO_CLOCK", "INCOMPLETE"} # {} THEN "ERROR"
                      ELSE "COMPLETE",
            errors |-> errors,
            masks |-> IF Valid(n) THEN [k \in 0 .. 2 |-> MaskOf(d, n, k)] ELSE NoMasks,
            raw |-> RawOf(d),
            slots |-> IF Valid(n) THEN n ELSE 0]

-----------------------------------------------------------------------------
(* Every frame, and every capture of one, as a state.  Samples come faster *)
(* than levels change; those that repeat the last one are left out.        *)

Frame == Clocks(slots, raw, first, masks)
Result == Decode(capture, expected)

Init ==
  /\ \E n \in SlotCounts : slots = ClampSlotCount(n)
  /\ raw \in Raws /\ first \in {0, 1} /\ masks \in MaskSets
  /\ line = Words(Frame)
  /\ expected \in {0, 4, 8, 16}
  /\ from \in 1 .. Len(Frame) /\ word = 2 * from - 1
  /\ capture = <<>>

(* The next word is sampled.  A clock is seen where SCLOCK was low and is  *)
(* high now, with the levels SLOAD and SDATA have there.                   *)
Sample ==
  /\ word < Len(line)
  /\ word' = word + 1
  /\ capture' = IF line[word].sclk = 0 /\ line[word'].sclk = 1
                THEN Append(capture, Clock(line[word'].sload, line[word'].sdata))
                ELSE capture
  /\ UNCHANGED <<slots, raw, first, masks, line, expected, from>>

Spec == Init /\ [][Sample]_vars

-----------------------------------------------------------------------------
(* Properties.                                                             *)

(* The raw bits and masks a correct decoder finds in this frame.           *)
SentRaw == IF first = 1 THEN raw \ {0} ELSE raw
SentMasks(n) == [k \in 0 .. 2 |-> {s \in masks[k] : s < slots /\ s < n}]

(* The waveform buffer holds every frame, ends on a 16-clock boundary, and *)
(* leaves the line idle; AppendLevel never drops a word.                   *)
FrameFits ==
  LET n == Len(Frame)
  IN  /\ Len(line) = 2 * n + 1 /\ n % 16 = 0
      /\ Last(line) = [sload |-> 1, sdata |-> 0, sclk |-> 0]

(* A whole frame of 4, 8 or 16 slots decodes without error to what was     *)
(* sent, with the slot count given or detected: whatever the masks, L bits *)
(* included, look like, they are not taken for the sync or the padding.    *)
WholeFrameDecodes ==
  word = Len(line) /\ from = 1 /\ Valid(slots) /\ expected \in {0, slots} =>
    Result = [state |-> "COMPLETE", errors |-> {}, masks |-> SentMasks(slots),
              raw |-> SentRaw, slots |-> slots]

(* A capture that began late or ended early is flagged or harmless: a      *)
(* decoding without error flags never shows a bit that was not sent.       *)
CleanDecodeIsTrue ==
  LET found == Result
  IN  found.errors = {} =>
        found.masks = SentMasks(found.slots) /\ found.raw = SentRaw

(* README's frame layout: after the sync run and the restart marker, four  *)
(* clocks of L0..L3, and then the slot data.                               *)
ReadmeLayout ==
  LET d == SubSeq(Frame, 11, Len(Frame))
  IN  \A b \in 0 .. 3 * slots - 1 :
        b < Len(d) /\ d[b + 1].sdata = SlotStreamBit(slots, masks, b)
=============================================================================
