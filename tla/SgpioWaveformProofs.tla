------------------------ MODULE SgpioWaveformProofs ------------------------
(***************************************************************************)
(* The frame format for every slot count, mask and raw setting.  First the *)
(* lengths: the waveform buffer holds every frame.  Then the decoder: a    *)
(* low run of exactly five clocks is found at the restart marker or where  *)
(* the padding begins, and there the padding gives it away, so that what   *)
(* decodes without an error was seen from the start of the frame.  Last,   *)
(* the captures of a behaviour: the line carries the frame, and the clocks *)
(* seen on it are the frame's from the trigger on.                         *)
(***************************************************************************)
EXTENDS SgpioWaveform, SequenceTheorems, FiniteSetTheorems, TLAPS

(* Joining two sequences adds their lengths.                               *)
LEMMA Joined ==
  ASSUME NEW S, NEW s \in Seq(S), NEW t \in Seq(S)
  PROVE  s \o t \in Seq(S) /\ Len(s \o t) = Len(s) + Len(t)
  BY ConcatProperties

(* The one element of a second sequence of length 1 comes last.            *)
LEMMA LastJoined ==
  ASSUME NEW S, NEW s \in Seq(S), NEW t \in Seq(S), Len(t) = 1
  PROVE  (s \o t)[Len(s) + 1] = t[1]
<1>1. Len(s) \in Nat
  OBVIOUS
<1>2. Len(s) + 1 \in 1 .. Len(s) + Len(t) /\ ~(Len(s) + 1 <= Len(s))
      /\ (Len(s) + 1) - Len(s) = 1
  BY <1>1
<1> QED
  BY <1>2, ConcatProperties

(* Padding brings a length to the next multiple of 16.                     *)
LEMMA RoundUp ==
  ASSUME NEW k \in 0 .. 54
  PROVE  /\ (16 - (k % 16)) % 16 \in 0 .. 15
         /\ k + ((16 - (k % 16)) % 16) <= 64
         /\ (k + ((16 - (k % 16)) % 16)) % 16 = 0
  BY SMT

(* A slot count is clamped to what the buffer was sized for.               *)
LEMMA Clamped ==
  ASSUME NEW n \in Nat
  PROVE  /\ ClampSlotCount(n) \in 1 .. 16
         /\ SlotsToEmit(ClampSlotCount(n)) \in 4 .. 16
  BY WaveformAssumption DEF ClampSlotCount, SlotsToEmit

(* The levels SLOAD and SDATA take during a clock.                         *)
Levels == [sload : {0, 1}, sdata : {0, 1}]

(* The parts of a frame are sequences of clocks, of these lengths.         *)
LEMMA Parts ==
  ASSUME NEW n \in Nat, SlotsToEmit(n) \in Nat, NEW rawbits, NEW isfirst, NEW ms,
         NEW k \in Nat
  PROVE  /\ Sync \in Seq(Levels) /\ Len(Sync) = 6
         /\ DataClocks(n, rawbits, isfirst, ms) \in Seq(Levels)
         /\ Len(DataClocks(n, rawbits, isfirst, ms)) = 3 * SlotsToEmit(n)
         /\ Padding(k) \in Seq(Levels)
         /\ Len(Padding(k)) = (16 - (k % 16)) % 16
<1> DEFINE five == [i \in 1 .. 5 |-> Clock(0, 0)]
           one == <<Clock(1, 0)>>
<1>1. five \in Seq(Levels) /\ Len(five) = 5
  BY DEF Clock, Levels
<1>2. one \in Seq(Levels) /\ Len(one) = 1
  BY DEF Clock, Levels
<1>3. Sync \in Seq(Levels) /\ Len(Sync) = 6
  <2>1. Sync = five \o one
    BY DEF Sync
  <2> HIDE DEF five, one
  <2>2. five \o one \in Seq(Levels) /\ Len(five \o one) = Len(five) + Len(one)
    BY <1>1, <1>2, Joined
  <2>3. Len(five) + Len(one) = 6
    BY <1>1, <1>2
  <2> QED BY <2>1, <2>2, <2>3
<1>4. /\ DataClocks(n, rawbits, isfirst, ms) \in Seq(Levels)
      /\ Len(DataClocks(n, rawbits, isfirst, ms)) = 3 * SlotsToEmit(n)
  <2> DEFINE m == 3 * SlotsToEmit(n)
  <2>1. m \in Nat
    OBVIOUS
  <2>2. \A i \in 1 .. m :
          Clock(Bit(i - 1 \in (IF isfirst = 1 THEN rawbits \ {0} ELSE rawbits)
                                \cap 0 .. 3), SlotStreamBit(n, ms, i - 1)) \in Levels
    BY DEF Clock, Levels, Bit, SlotStreamBit
  <2> QED
    BY <2>1, <2>2 DEF DataClocks
<1>5. Padding(k) \in Seq(Levels) /\ Len(Padding(k)) = (16 - (k % 16)) % 16
  <2>1. (16 - (k % 16)) % 16 \in Nat
    BY SMT
  <2> QED
    BY <2>1 DEF Padding, Clock, Levels
<1> QED
  BY <1>3, <1>4, <1>5

(* A frame has at most 64 clocks and ends on a 16-clock boundary.          *)
LEMMA FrameLength ==
  ASSUME NEW n \in Nat, NEW rawbits, NEW isfirst, NEW ms
  PROVE  LET c == Clocks(ClampSlotCount(n), rawbits, isfirst, ms)
         IN  c \in Seq(Levels) /\ Len(c) <= 64 /\ Len(c) % 16 = 0
<1> DEFINE m == ClampSlotCount(n)
           e == SlotsToEmit(m)
           data == DataClocks(m, rawbits, isfirst, ms)
           body == Sync \o data
<1>1. m \in Nat /\ e \in 4 .. 16
  BY Clamped
<1>2. Sync \in Seq(Levels) /\ Len(Sync) = 6
  BY <1>1, Parts
<1>3. data \in Seq(Levels) /\ Len(data) = 3 * e
  BY <1>1, Parts
<1>4. body \in Seq(Levels) /\ Len(body) = 6 + 3 * e
  <2> HIDE DEF data, e
  <2> QED BY <1>2, <1>3, Joined
<1>5. Len(body) \in 0 .. 54
  <2> HIDE DEF body, e
  <2> QED BY <1>1, <1>4
<1>6. /\ Padding(Len(body)) \in Seq(Levels)
      /\ Len(Padding(Len(body))) = (16 - (Len(body) % 16)) % 16
  <2>1. Len(body) \in Nat
    BY <1>5
  <2> HIDE DEF body
  <2> QED BY <1>1, <2>1, Parts
<1>7. Clocks(m, rawbits, isfirst, ms) = body \o Padding(Len(body))
  BY DEF Clocks
<1> HIDE DEF body, m
<1>8. Len(body \o Padding(Len(body))) = Len(body) + Len(Padding(Len(body)))
  BY <1>4, <1>6
<1>9. body \o Padding(Len(body)) \in Seq(Levels)
  BY <1>4, <1>6
<1>10. Len(body) + Len(Padding(Len(body))) <= 64
       /\ (Len(body) + Len(Padding(Len(body)))) % 16 = 0
  BY <1>5, <1>6, RoundUp
<1> QED
  BY <1>7, <1>8, <1>9, <1>10 DEF m

(* Every word of every frame has its place in the buffer: the bound check  *)
(* of AppendLevel never drops one, so a frame is always complete and the   *)
(* line is left idle.                                                      *)
THEOREM BufferSuffices ==
  ASSUME NEW n \in Nat, NEW rawbits, NEW isfirst, NEW ms
  PROVE  LET c == Clocks(ClampSlotCount(n), rawbits, isfirst, ms)
             w == Words(c)
         IN  /\ Len(w) = 2 * Len(c) + 1 /\ Len(w) <= WordMax
             /\ Len(c) % 16 = 0
             /\ w[Len(w)] = [sload |-> 1, sdata |-> 0, sclk |-> 0]
<1> DEFINE c == Clocks(ClampSlotCount(n), rawbits, isfirst, ms)
           Level(d, sclk) == [sload |-> d.sload, sdata |-> d.sdata, sclk |-> sclk]
           pairs == [i \in 1 .. 2 * Len(c) |-> Level(c[(i + 1) \div 2], (i + 1) % 2)]
           idle == <<Level(Clock(1, 0), 0)>>
           all == pairs \o idle
<1>1. Len(c) \in Nat /\ Len(c) <= 64 /\ Len(c) % 16 = 0
  BY FrameLength
<1> HIDE DEF c
<1> DEFINE W == {pairs[i] : i \in 1 .. 2 * Len(c)} \cup {Level(Clock(1, 0), 0)}
<1>2. pairs \in Seq(W) /\ Len(pairs) = 2 * Len(c)
  BY <1>1
<1>3. idle \in Seq(W) /\ Len(idle) = 1
  OBVIOUS
<1>4. all \in Seq(W) /\ Len(all) = 2 * Len(c) + 1
  <2> HIDE DEF pairs, idle, W
  <2> QED BY <1>1, <1>2, <1>3, Joined
<1>5. Len(all) <= WordMax
  BY <1>1, <1>4, WaveformAssumption
<1>6. Words(c) = SubSeq(all, 1, Len(all))
  <2>1. ~(Len(all) > WordMax)
    <3> HIDE DEF all
    <3> QED BY <1>1, <1>4, <1>5, WaveformAssumption
  <2>2. Words(c) = SubSeq(all, 1, IF Len(all) > WordMax THEN WordMax ELSE Len(all))
    BY DEF Words
  <2> QED BY <2>1, <2>2
<1>7. SubSeq(all, 1, Len(all)) = all
  <2> HIDE DEF all, W
  <2> QED BY <1>4
<1>8. Words(c) = all
  BY <1>6, <1>7
<1>9. all[Len(all)] = [sload |-> 1, sdata |-> 0, sclk |-> 0]
  <2>1. idle[1] = [sload |-> 1, sdata |-> 0, sclk |-> 0]
    BY DEF Clock
  <2>2. all[Len(pairs) + 1] = idle[1]
    <3> HIDE DEF pairs, idle, W
    <3> QED BY <1>2, <1>3, LastJoined
  <2>3. Len(all) = Len(pairs) + 1
    <3> HIDE DEF all, pairs
    <3> QED BY <1>2, <1>4
  <2> HIDE DEF all, pairs, idle
  <2> QED BY <2>1, <2>2, <2>3
<1> HIDE DEF all
<1> QED
  BY <1>1, <1>4, <1>5, <1>8, <1>9 DEF c

-----------------------------------------------------------------------------
(* Least and greatest members.  The library's induction over the naturals  *)
(* takes an operator; well-foundedness of set inclusion does not.          *)
LEMMA LeastMember ==
  ASSUME NEW S, S \subseteq Nat, S # {}
  PROVE  \E m \in S : \A k \in S : m <= k
<1> DEFINE T == {0 .. m : m \in S}
<1>1. T \subseteq FiniteSubsetsOf(Nat) /\ T # {}
  <2>1. ASSUME NEW m \in S PROVE 0 .. m \subseteq Nat /\ IsFiniteSet(0 .. m)
    BY <2>1, FS_Interval
  <2> QED BY <2>1 DEF FiniteSubsetsOf
<1>2. PICK x \in T : \A y \in T : ~ (<<y, x>> \in StrictSubsetOrdering(Nat))
  <2> HIDE DEF T
  <2> QED BY <1>1, FS_StrictSubsetOrderingWellFounded, WFMin
<1>3. PICK m \in S : x = 0 .. m
  OBVIOUS
<1>4. ASSUME NEW k \in S, k < m PROVE FALSE
  <2>1. 0 .. k \in T
    OBVIOUS
  <2>2. 0 .. k \subseteq 0 .. m /\ 0 .. k # 0 .. m /\ 0 .. m \subseteq Nat
    <3>1. m \in 0 .. m /\ m \notin 0 .. k
      BY <1>4
    <3> QED BY <1>4, <3>1
  <2> QED BY <1>2, <1>3, <2>1, <2>2 DEF StrictSubsetOrdering
<1> QED BY <1>4

LEMMA GreatestMember ==
  ASSUME NEW n \in Nat, NEW S, S \subseteq 1 .. n, S # {}
  PROVE  \E m \in S : \A k \in S : k <= m
<1> DEFINE T == {n - k : k \in S}
<1>1. T \subseteq Nat /\ T # {}
  <2>1. ASSUME NEW k \in S PROVE n - k \in Nat
    <3>1. k \in 1 .. n
      OBVIOUS
    <3> QED BY <3>1
  <2> QED BY <2>1
<1>2. PICK x \in T : \A y \in T : x <= y
  <2> HIDE DEF T
  <2> QED BY <1>1, LeastMember
<1>3. PICK m \in S : x = n - m
  OBVIOUS
<1>4. ASSUME NEW k \in S PROVE k <= m
  <2>1. n - m <= n - k
    BY <1>2, <1>3
  <2> QED BY <2>1
<1> QED BY <1>4

-----------------------------------------------------------------------------
(* The run of low SLOAD clocks before clock i goes back to the last high   *)
(* one, or to the start of the capture.                                    *)
LEMMA LowRunFrom ==
  ASSUME NEW r, NEW i \in Nat \ {0}, NEW m \in 0 .. i - 1,
         m = 0 \/ r[m].sload = 1,
         \A j \in m + 1 .. i - 1 : r[j].sload # 1
  PROVE  LowRun(r, i) = i - 1 - m
<1> DEFINE highs == {j \in 1 .. i - 1 : r[j].sload = 1}
           top == CHOOSE j \in highs : \A k \in highs : k <= j
<1>1. CASE m = 0
  <2>1. highs = {}
    BY <1>1
  <2> QED BY <1>1, <2>1 DEF LowRun
<1>2. CASE m # 0
  <2>1. m \in highs /\ \A k \in highs : k <= m
    BY <1>2
  <2>2. top \in highs /\ \A k \in highs : k <= top
    <3> HIDE DEF highs
    <3> QED BY <2>1
  <2>3. top = m
    <3>1. top \in Int /\ m \in Int
      BY <2>2
    <3> HIDE DEF highs, top
    <3> QED BY <2>1, <2>2, <3>1
  <2>4. LowRun(r, i) = i - 1 - (IF highs = {} THEN 0 ELSE top)
    BY DEF LowRun
  <2> HIDE DEF highs, top
  <2> QED BY <2>1, <2>3, <2>4
<1> QED BY <1>1, <1>2

(* Every clock has such a run before it.                                   *)
LEMMA LowRunStart ==
  ASSUME NEW r, NEW i \in Nat \ {0}
  PROVE  \E m \in 0 .. i - 1 :
            /\ m = 0 \/ r[m].sload = 1
            /\ \A j \in m + 1 .. i - 1 : r[j].sload # 1
            /\ LowRun(r, i) = i - 1 - m
<1> DEFINE highs == {j \in 1 .. i - 1 : r[j].sload = 1}
<1>1. CASE highs = {}
  <2>1. 0 \in 0 .. i - 1 /\ \A j \in 0 + 1 .. i - 1 : r[j].sload # 1
    BY <1>1
  <2> HIDE DEF highs
  <2> QED BY <2>1, LowRunFrom
<1>2. CASE highs # {}
  <2>1. highs \subseteq 1 .. i - 1 /\ i - 1 \in Nat
    OBVIOUS
  <2>2. PICK m \in highs : \A k \in highs : k <= m
    <3> HIDE DEF highs
    <3> QED BY <1>2, <2>1, GreatestMember
  <2>3. m \in 0 .. i - 1 /\ r[m].sload = 1
        /\ \A j \in m + 1 .. i - 1 : r[j].sload # 1
    BY <2>2
  <2> HIDE DEF highs
  <2> QED BY <2>3, LowRunFrom
<1> QED BY <1>1, <1>2

(* Where there is a sync at all, SyncRise is the first.                    *)
LEMMA FirstSync ==
  ASSUME NEW r \in Seq(Levels), Syncs(r) # {}
  PROVE  SyncRise(r) \in Syncs(r) /\ \A j \in Syncs(r) : SyncRise(r) <= j
<1>1. Syncs(r) \subseteq Nat
  BY DEF Syncs
<1>2. \E i \in Syncs(r) : \A j \in Syncs(r) : i <= j
  BY <1>1, LeastMember
<1> QED
  BY <1>2 DEF SyncRise

-----------------------------------------------------------------------------
(* What the decoder uses of a frame of e slots, the first n of them with   *)
(* data: bits are the L bits it carries.                                   *)
IsFrame(f, e, n, bits, ms) ==
  /\ f \in Seq(Levels) /\ e \in 4 .. 16 /\ n \in 1 .. e /\ Len(f) >= 6 + 3 * e
  /\ bits \subseteq 0 .. 3 /\ ms \in [0 .. 2 -> SUBSET (0 .. 15)]
  /\ \A i \in 1 .. Len(f) :
       /\ i <= 5 => f[i].sload = 0
       /\ i = 6 => f[i].sload = 1
       /\ i \in 7 .. 10 => (f[i].sload = 1 <=> i - 7 \in bits)
       /\ i \in 11 .. 6 + 3 * e => f[i].sload = 0
       /\ i > 6 + 3 * e => f[i].sload = 1
       /\ i \in 7 .. 6 + 3 * e => f[i].sdata = SlotStreamBit(n, ms, i - 7)

(* A capture of the clocks of a frame from the a-th on.                    *)
IsCapture(r, f, a) ==
  /\ r \in Seq(Levels) /\ a \in Nat \ {0} /\ a - 1 + Len(r) <= Len(f)
  /\ \A i \in 1 .. Len(r) : r[i] = f[a - 1 + i]

LEMMA FrameLevels ==
  ASSUME NEW f, NEW e, NEW n, NEW bits, NEW ms, IsFrame(f, e, n, bits, ms),
         NEW i \in 1 .. Len(f)
  PROVE  /\ i <= 5 => f[i].sload = 0
         /\ i = 6 => f[i].sload = 1
         /\ i \in 7 .. 10 => (f[i].sload = 1 <=> i - 7 \in bits)
         /\ i \in 11 .. 6 + 3 * e => f[i].sload = 0
         /\ i > 6 + 3 * e => f[i].sload = 1
         /\ i \in 7 .. 6 + 3 * e => f[i].sdata = SlotStreamBit(n, ms, i - 7)
BY DEF IsFrame

(* A low run of exactly five ends at the restart marker of a frame seen    *)
(* from its start, or where the padding begins.                            *)
LEMMA FiveLow ==
  ASSUME NEW f, NEW e, NEW n, NEW bits, NEW ms, IsFrame(f, e, n, bits, ms),
         NEW r, NEW a, IsCapture(r, f, a),
         NEW i \in 1 .. Len(r), r[i].sload = 1, LowRun(r, i) = 5
  PROVE  (a = 1 /\ i = 6) \/ a - 1 + i = 7 + 3 * e
<1> DEFINE p == a - 1 + i
<1>1. PICK m \in 0 .. i - 1 : /\ \A j \in m + 1 .. i - 1 : r[j].sload # 1
                              /\ LowRun(r, i) = i - 1 - m
  <2>1. Len(r) \in Nat
    BY DEF IsCapture
  <2>2. i \in Nat \ {0}
    BY <2>1
  <2> QED BY <2>2, LowRunStart
<1>2. i >= 6 /\ \A j \in i - 5 .. i - 1 : r[j].sload # 1
  BY <1>1
<1>3. /\ a \in Nat /\ a >= 1 /\ Len(r) \in Nat /\ Len(f) \in Nat /\ e \in Nat /\ e >= 4
      /\ a - 1 + Len(r) <= Len(f) /\ p \in 1 .. Len(f) /\ f[p] = r[i]
  <2>1. e \in Nat /\ e >= 4 /\ Len(f) \in Nat
    <3>1. f \in Seq(Levels) /\ e \in 4 .. 16
      BY DEF IsFrame
    <3> QED BY <3>1
  <2>2. a \in Nat /\ a >= 1 /\ Len(r) \in Nat /\ a - 1 + Len(r) <= Len(f) /\ f[p] = r[i]
    BY DEF IsCapture
  <2> QED BY <2>1, <2>2
<1>4. \A q \in p - 5 .. p - 1 : q \in 1 .. Len(f) /\ f[q].sload # 1
  <2> SUFFICES ASSUME NEW q \in p - 5 .. p - 1
               PROVE  q \in 1 .. Len(f) /\ f[q].sload # 1
    OBVIOUS
  <2>1. q - (a - 1) \in i - 5 .. i - 1 /\ q - (a - 1) \in 1 .. Len(r)
        /\ a - 1 + (q - (a - 1)) = q
    <3> DEFINE t == q - (a - 1)
    <3>1. q \in Int /\ a \in Nat /\ i \in Nat /\ i >= 6 /\ i <= Len(r) /\ Len(r) \in Nat
      BY <1>2, <1>3
    <3>2. t \in i - 5 .. i - 1 /\ a - 1 + t = q
      BY <3>1
    <3> HIDE DEF t
    <3>3. t \in 1 .. Len(r)
      BY <3>1, <3>2
    <3> QED BY <3>2, <3>3 DEF t
  <2>2. r[q - (a - 1)] = f[q]
    BY <2>1 DEF IsCapture
  <2>3. q \in 1 .. Len(f)
    BY <1>3, <2>1
  <2> QED BY <1>2, <2>1, <2>2, <2>3
<1>5. p >= 6
  BY <1>2, <1>3
<1>6. ~(p \in 7 .. 10)
  <2> SUFFICES ASSUME p \in 7 .. 10 PROVE FALSE
    OBVIOUS
  <2>1. 6 \in p - 5 .. p - 1 /\ 6 \in 1 .. Len(f)
    BY <1>3, <1>5
  <2> QED BY <1>4, <2>1, FrameLevels
<1>7. ~(p \in 11 .. 6 + 3 * e)
  <2>1. p \in 11 .. 6 + 3 * e => f[p].sload = 0
    BY <1>3, FrameLevels
  <2> QED BY <1>3, <2>1
<1>8. ~(p > 7 + 3 * e)
  <2> SUFFICES ASSUME p > 7 + 3 * e PROVE FALSE
    OBVIOUS
  <2>1. p - 1 \in p - 5 .. p - 1 /\ p - 1 > 6 + 3 * e
    BY <1>3
  <2> QED BY <1>4, <2>1, FrameLevels
<1>9. p = 6 \/ p = 7 + 3 * e
  BY <1>3, <1>5, <1>6, <1>7, <1>8
<1> QED
  BY <1>2, <1>3, <1>9

-----------------------------------------------------------------------------
(* The masks read for m slots, and those of the slots below n and below m. *)
MasksRead(d, m) == [k \in 0 .. 2 |-> MaskOf(d, m, k)]
Below(ms, n, m) == [k \in 0 .. 2 |-> {s \in ms[k] : s < n /\ s < m}]

(* What it takes to decode a capture without an error.                     *)
LEMMA NoErrors ==
  ASSUME NEW r, NEW exp, Decode(r, exp).errors = {},
         NEW d, d = DataOf(r), NEW n, n = DetectedSlots(d, exp)
  PROVE  /\ Syncs(r) # {} /\ LowRun(r, SyncRise(r)) = 5
         /\ \A j \in 4 .. 3 * n - 1 : j < Len(d) => d[j + 1].sload # 1
         /\ ~Incomplete(d, exp, n)
         /\ Decode(r, exp) =
              [state |-> "COMPLETE", errors |-> {},
               masks |-> [k \in 0 .. 2 |-> MaskOf(d, n, k)],
               raw |-> RawOf(d), slots |-> n]
<1> DEFINE noClock == IF Len(r) < 6 THEN {"NO_CLOCK"} ELSE {}
           late == \E j \in 4 .. 3 * n - 1 : j < Len(d) /\ d[j + 1].sload = 1
           errors == noClock \cup (IF LowRun(r, SyncRise(r)) # 5 \/ late
                                   THEN {"SYNC"} ELSE {})
                             \cup (IF Incomplete(d, exp, n) THEN {"INCOMPLETE"} ELSE {})
           found == [state |-> IF errors \cap {"NO_CLOCK", "INCOMPLETE"} # {} THEN "ERROR"
                               ELSE "COMPLETE",
                     errors |-> errors,
                     masks |-> IF Valid(n) THEN [k \in 0 .. 2 |-> MaskOf(d, n, k)]
                               ELSE NoMasks,
                     raw |-> RawOf(d),
                     slots |-> IF Valid(n) THEN n ELSE 0]
           none == [state |-> "ERROR", errors |-> noClock \cup {"SYNC"}, masks |-> NoMasks,
                    raw |-> {}, slots |-> 0]
<1>1. Decode(r, exp) = IF Syncs(r) = {} THEN none ELSE found
  BY DEF Decode
<1>2. none.errors # {}
  OBVIOUS
<1>3. Syncs(r) # {} /\ Decode(r, exp) = found
  <2> HIDE DEF none, found
  <2> QED BY <1>1, <1>2
<1>4. found.errors = errors
  OBVIOUS
<1>5. errors = {}
  <2> HIDE DEF errors, found
  <2> QED BY <1>3, <1>4
<1>6. LowRun(r, SyncRise(r)) = 5 /\ ~late /\ ~Incomplete(d, exp, n)
  <2> HIDE DEF late
  <2> QED BY <1>5
<1>7. Valid(n)
  BY <1>6 DEF Incomplete
<1>8. found = [state |-> "COMPLETE", errors |-> {},
               masks |-> [k \in 0 .. 2 |-> MaskOf(d, n, k)], raw |-> RawOf(d), slots |-> n]
  <2>1. (IF errors \cap {"NO_CLOCK", "INCOMPLETE"} # {} THEN "ERROR" ELSE "COMPLETE")
          = "COMPLETE"
    BY <1>5, Zenon
  <2> HIDE DEF errors
  <2> QED BY <1>5, <1>7, <2>1, Zenon
<1> HIDE DEF found, late
<1>9. \A j \in 4 .. 3 * n - 1 : j < Len(d) => d[j + 1].sload # 1
  BY <1>6 DEF late
<1> QED BY <1>3, <1>6, <1>8, <1>9

(* Where none of the causes of an error is there, all of it is decoded.    *)
LEMMA NoneDecoded ==
  ASSUME NEW r, NEW exp, ~(Len(r) < 6), Syncs(r) # {}, LowRun(r, SyncRise(r)) = 5,
         NEW d, d = DataOf(r), NEW n, n = DetectedSlots(d, exp), Valid(n),
         ~ \E j \in 4 .. 3 * n - 1 : j < Len(d) /\ d[j + 1].sload = 1,
         ~Incomplete(d, exp, n)
  PROVE  Decode(r, exp) = [state |-> "COMPLETE", errors |-> {}, masks |-> MasksRead(d, n),
                           raw |-> RawOf(d), slots |-> n]
<1> DEFINE noClock == IF Len(r) < 6 THEN {"NO_CLOCK"} ELSE {}
           late == \E j \in 4 .. 3 * n - 1 : j < Len(d) /\ d[j + 1].sload = 1
           errors == noClock \cup (IF LowRun(r, SyncRise(r)) # 5 \/ late
                                   THEN {"SYNC"} ELSE {})
                             \cup (IF Incomplete(d, exp, n) THEN {"INCOMPLETE"} ELSE {})
<1>1. Decode(r, exp) =
        [state |-> IF errors \cap {"NO_CLOCK", "INCOMPLETE"} # {} THEN "ERROR"
                   ELSE "COMPLETE",
         errors |-> errors,
         masks |-> IF Valid(n) THEN [k \in 0 .. 2 |-> MaskOf(d, n, k)] ELSE NoMasks,
         raw |-> RawOf(d),
         slots |-> IF Valid(n) THEN n ELSE 0]
  BY DEF Decode
<1>2. errors = {}
  OBVIOUS
<1> HIDE DEF errors
<1>3. (IF errors \cap {"NO_CLOCK", "INCOMPLETE"} # {} THEN "ERROR" ELSE "COMPLETE")
        = "COMPLETE"
  BY <1>2
<1>4. (IF Valid(n) THEN [k \in 0 .. 2 |-> MaskOf(d, n, k)] ELSE NoMasks) = MasksRead(d, n)
  BY DEF MasksRead
<1> QED BY <1>1, <1>2, <1>3, <1>4, Zenon

(* A clean decoding is one of a frame seen from its start.                 *)
LEMMA CleanFromStart ==
  ASSUME NEW f, NEW e, NEW n, NEW bits, NEW ms, IsFrame(f, e, n, bits, ms),
         NEW r, NEW a, IsCapture(r, f, a),
         NEW exp, Decode(r, exp).errors = {}
  PROVE  a = 1 /\ SyncRise(r) = 6
<1> DEFINE i == SyncRise(r)
           d == DataOf(r)
           m == DetectedSlots(d, exp)
<1> HIDE DEF i, d, m
<1>1. /\ Syncs(r) # {} /\ LowRun(r, i) = 5
      /\ \A j \in 4 .. 3 * m - 1 : j < Len(d) => d[j + 1].sload # 1
      /\ ~Incomplete(d, exp, m)
  <2>1. d = DataOf(r) /\ m = DetectedSlots(d, exp)
    BY DEF d, m
  <2> QED BY <2>1, NoErrors DEF i
<1>2. r \in Seq(Levels) /\ i \in 1 .. Len(r) /\ r[i].sload = 1
  <2>1. r \in Seq(Levels)
    BY DEF IsCapture
  <2>2. i \in Syncs(r)
    BY <1>1, <2>1, FirstSync DEF i
  <2> QED BY <2>1, <2>2 DEF Syncs
<1>3. (a = 1 /\ i = 6) \/ a - 1 + i = 7 + 3 * e
  BY <1>1, <1>2, FiveLow
<1>4. ASSUME a - 1 + i = 7 + 3 * e PROVE FALSE
  <2>1. m \in {4, 8, 16} /\ Len(d) >= 12
    <3>1. Valid(m) /\ ~(Len(d) < 3 * m)
      BY <1>1 DEF Incomplete
    <3>2. Len(d) \in Nat
      BY <1>2 DEF d, DataOf, i
    <3> QED BY <3>1, <3>2 DEF Valid
  <2>2. Len(d) = Len(r) - i /\ d[5] = r[i + 5] /\ i + 5 \in 1 .. Len(r)
    <3>1. Len(r) \in Nat /\ i \in Nat
      BY <1>2
    <3>2. d = SubSeq(r, i + 1, Len(r))
      BY DEF d, DataOf, i
    <3>3. Len(d) = Len(r) - i
      BY <1>2, <3>1, <3>2
    <3>4. 5 \in 1 .. Len(d)
      BY <2>1, <3>1, <3>3
    <3>5. d[5] = r[i + 5]
      BY <1>2, <3>1, <3>2, <3>3, <3>4
    <3> QED BY <3>1, <3>3, <3>4, <3>5
  <2>3. r[i + 5] = f[a - 1 + (i + 5)] /\ a - 1 + (i + 5) \in 1 .. Len(f)
    <3>1. a \in Nat \ {0} /\ Len(r) \in Nat /\ a - 1 + Len(r) <= Len(f)
          /\ \A j \in 1 .. Len(r) : r[j] = f[a - 1 + j]
      BY DEF IsCapture
    <3>2. Len(f) \in Nat
      BY DEF IsFrame
    <3> QED BY <1>2, <2>2, <3>1, <3>2
  <2>4. a - 1 + (i + 5) > 6 + 3 * e
    <3>1. a \in Nat /\ i \in Nat /\ e \in Nat
      BY <1>2 DEF IsCapture, IsFrame
    <3> QED BY <1>4, <3>1
  <2>5. d[5].sload = 1
    <3>1. f[a - 1 + (i + 5)].sload = 1
      BY <2>3, <2>4, FrameLevels
    <3> QED BY <2>2, <2>3, <3>1
  <2>6. 4 \in 4 .. 3 * m - 1 /\ 4 < Len(d)
    <3>1. Len(d) \in Nat
      BY <1>2 DEF d, DataOf, i
    <3> QED BY <2>1, <3>1
  <2> QED BY <1>1, <2>5, <2>6
<1> QED BY <1>3, <1>4 DEF i

-----------------------------------------------------------------------------
(* d is what follows the restart marker of the frame f, or a part of it.   *)
IsData(d, f) ==
  Len(d) \in Nat /\ \A j \in 1 .. Len(d) : 6 + j \in 1 .. Len(f) /\ d[j] = f[6 + j]

(* From a frame seen from its start the decoder takes the data clocks.     *)
LEMMA DataClocksSeen ==
  ASSUME NEW f, NEW r, IsCapture(r, f, 1), Len(r) >= 6, SyncRise(r) = 6,
         NEW d, d = DataOf(r)
  PROVE  Len(d) = Len(r) - 6 /\ IsData(d, f)
<1>1. /\ r \in Seq(Levels) /\ Len(r) \in Nat /\ Len(r) <= Len(f)
      /\ \A i \in 1 .. Len(r) : r[i] = f[i]
  <2>1. \A i \in 1 .. Len(r) : r[i] = f[1 - 1 + i] /\ 1 - 1 + i = i
    BY DEF IsCapture
  <2> QED BY <2>1 DEF IsCapture
<1>2. d = SubSeq(r, 7, Len(r))
  BY DEF DataOf
<1>3. Len(d) = Len(r) - 6 /\ \A j \in 1 .. Len(d) : d[j] = r[6 + j] /\ 6 + j \in 1 .. Len(r)
  <2>1. Len(d) = Len(r) - 6
    <3> DEFINE last == Len(r)
    <3>1. last \in Nat /\ last >= 6 /\ d = SubSeq(r, 7, last)
      BY <1>1, <1>2
    <3>2. Len(SubSeq(r, 7, last)) = IF 7 <= last THEN last - 7 + 1 ELSE 0
      BY <1>1, <3>1
    <3> HIDE DEF last
    <3>3. Len(d) = last - 6
      BY <3>1, <3>2
    <3> QED BY <3>3 DEF last
  <2>2. ASSUME NEW j \in 1 .. Len(d)
        PROVE  d[j] = r[6 + j] /\ 6 + j \in 1 .. Len(r)
    <3>1. j \in 1 .. Len(r) - 6
      BY <2>1
    <3>2. d[j] = r[7 + j - 1]
      BY <1>1, <1>2, <2>1
    <3>3. 7 + j - 1 = 6 + j /\ 6 + j \in 1 .. Len(r)
      BY <1>1, <3>1
    <3> QED BY <3>2, <3>3
  <2> QED BY <2>1, <2>2
<1>4. \A j \in 1 .. Len(d) : 6 + j \in 1 .. Len(f) /\ d[j] = f[6 + j]
  <2>1. ASSUME NEW j \in 1 .. Len(d)
        PROVE  6 + j \in 1 .. Len(f) /\ d[j] = f[6 + j]
    <3>1. 6 + j \in 1 .. Len(r) /\ d[j] = r[6 + j]
      BY <1>3
    <3>2. r[6 + j] = f[6 + j]
      BY <1>1, <3>1
    <3>3. Len(f) \in Int
      BY <1>1, <3>1
    <3> QED BY <1>1, <3>1, <3>2, <3>3
  <2> QED BY <2>1
<1> QED BY <1>1, <1>3, <1>4 DEF IsData

(* The bit of slot s and kind k is where the generator put it.             *)
LEMMA SlotBit ==
  ASSUME NEW n, NEW ms, NEW s \in Nat, NEW k \in 0 .. 2
  PROVE  SlotStreamBit(n, ms, 3 * s + k) = IF s < n /\ s \in ms[k] THEN 1 ELSE 0
<1>1. (3 * s + k) \div 3 = s /\ (3 * s + k) % 3 = k
  OBVIOUS
<1> QED BY <1>1 DEF SlotStreamBit, Bit

(* What these clocks carry, read for m slots, is what the frame was made   *)
(* of: the masks of its first n slots and the L bits.                      *)
LEMMA DataRead ==
  ASSUME NEW f, NEW e, NEW n, NEW bits, NEW ms, IsFrame(f, e, n, bits, ms),
         NEW d, IsData(d, f), NEW m \in 4 .. e, Len(d) >= 3 * m
  PROVE  /\ MasksRead(d, m) = Below(ms, n, m)
         /\ RawOf(d) = bits
<1> DEFINE len == Len(d)
<1>1. /\ e \in 4 .. 16 /\ n \in 1 .. e /\ len \in Nat /\ len >= 3 * m /\ len = Len(d)
      /\ \A j \in 1 .. len : 6 + j \in 1 .. Len(f) /\ d[j] = f[6 + j]
      /\ bits \subseteq 0 .. 3 /\ ms \in [0 .. 2 -> SUBSET (0 .. 15)]
  BY DEF IsFrame, IsData
<1> HIDE DEF len
<1>2. ASSUME NEW k \in 0 .. 2
      PROVE  MaskOf(d, m, k) = {s \in ms[k] : s < n /\ s < m}
  <2>1. ASSUME NEW s \in 0 .. m - 1
        PROVE  /\ 3 * s + k < Len(d)
               /\ d[3 * s + k + 1].sdata = 1 <=> s < n /\ s \in ms[k]
    <3>1. s \in Nat /\ k \in Nat /\ k <= 2 /\ s + 1 <= m /\ m <= e
      BY <1>1
    <3>2. 3 * s + k + 1 \in 1 .. len /\ 3 * s + k + 1 <= 3 * e
      BY <1>1, <3>1
    <3> DEFINE j == 3 * s + k + 1
    <3>3. j \in 1 .. len /\ 6 + j \in 7 .. 6 + 3 * e /\ (6 + j) - 7 = 3 * s + k
      BY <1>1, <3>1, <3>2
    <3> HIDE DEF j
    <3>4. d[j] = f[6 + j] /\ 6 + j \in 1 .. Len(f)
      BY <1>1, <3>3
    <3>5. f[6 + j].sdata = SlotStreamBit(n, ms, (6 + j) - 7)
      BY <3>3, <3>4, FrameLevels
    <3>6. d[j].sdata = IF s < n /\ s \in ms[k] THEN 1 ELSE 0
      <4>1. SlotStreamBit(n, ms, 3 * s + k) = IF s < n /\ s \in ms[k] THEN 1 ELSE 0
        BY <3>1, SlotBit
      <4>2. SlotStreamBit(n, ms, (6 + j) - 7) = SlotStreamBit(n, ms, 3 * s + k)
        BY <3>3, Zenon
      <4> QED BY <3>4, <3>5, <4>1, <4>2
    <3>7. d[j].sdata = 1 <=> s < n /\ s \in ms[k]
      BY <3>6
    <3> QED BY <1>1, <3>1, <3>2, <3>7 DEF j
  <2>2. ms[k] \subseteq 0 .. 15
    BY <1>1
  <2>3. \A s : s \in MaskOf(d, m, k) <=> s \in 0 .. m - 1 /\ s < n /\ s \in ms[k]
    BY <2>1 DEF MaskOf
  <2>4. ASSUME NEW s PROVE s \in MaskOf(d, m, k) <=> s \in ms[k] /\ s < n /\ s < m
    <3>1. s \in ms[k] /\ s < m => s \in 0 .. m - 1
      <4>1. s \in ms[k] => s \in 0 .. 15
        BY <2>2
      <4> QED BY <1>1, <4>1
    <3>2. s \in 0 .. m - 1 => s < m
      BY <1>1
    <3> QED BY <2>3, <3>1, <3>2
  <2> QED BY <2>4
<1>3. \A j : j \in RawOf(d) <=> j \in 0 .. 3 /\ j \in bits
  <2>1. ASSUME NEW j \in 0 .. 3
        PROVE  j < Len(d) /\ (d[j + 1].sload = 1 <=> j \in bits)
    <3>1. j + 1 \in 1 .. len /\ 6 + (j + 1) \in 7 .. 10 /\ 6 + (j + 1) - 7 = j
      BY <1>1
    <3>2. d[j + 1] = f[6 + (j + 1)] /\ 6 + (j + 1) \in 1 .. Len(f)
      BY <1>1, <3>1
    <3>3. f[6 + (j + 1)].sload = 1 <=> 6 + (j + 1) - 7 \in bits
      BY <3>1, <3>2, FrameLevels
    <3> QED BY <1>1, <3>1, <3>2, <3>3
  <2> QED BY <2>1 DEF RawOf
<1> QED BY <1>1, <1>2, <1>3 DEF MasksRead, Below

(* A clean decoding of a capture of a frame shows what was sent.           *)
LEMMA CleanIsTrue ==
  ASSUME NEW f, NEW e, NEW n, NEW bits, NEW ms, IsFrame(f, e, n, bits, ms),
         NEW r, NEW a, IsCapture(r, f, a),
         NEW exp, Decode(r, exp).errors = {}
  PROVE  LET found == Decode(r, exp)
         IN  /\ found.masks = Below(ms, n, found.slots)
             /\ found.raw = bits
<1> DEFINE d == DataOf(r)
           m == DetectedSlots(d, exp)
<1> HIDE DEF d, m
<1>1. a = 1 /\ SyncRise(r) = 6
  BY CleanFromStart
<1>2. /\ Syncs(r) # {}
      /\ \A j \in 4 .. 3 * m - 1 : j < Len(d) => d[j + 1].sload # 1
      /\ ~Incomplete(d, exp, m)
      /\ Decode(r, exp) =
              [state |-> "COMPLETE", errors |-> {},
               masks |-> [k \in 0 .. 2 |-> MaskOf(d, m, k)],
               raw |-> RawOf(d), slots |-> m]
  <2>1. d = DataOf(r) /\ m = DetectedSlots(d, exp)
    BY DEF d, m
  <2> QED BY <2>1, NoErrors
<1>3. Len(r) >= 6
  <2>1. r \in Seq(Levels)
    BY DEF IsCapture
  <2>2. 6 \in Syncs(r)
    BY <1>1, <1>2, <2>1, FirstSync
  <2> QED BY <2>1, <2>2 DEF Syncs
<1>4. Len(d) \in Nat /\ IsData(d, f)
  <2>1. d = DataOf(r) /\ Len(r) \in Nat
    BY DEF d, IsCapture
  <2> QED BY <1>1, <1>3, <2>1, DataClocksSeen DEF IsData
<1>5. m \in {4, 8, 16} /\ Len(d) >= 3 * m
  BY <1>2, <1>4 DEF Incomplete, Valid
<1>6. e \in 4 .. 16
  BY DEF IsFrame
<1>7. m <= e
  <2> SUFFICES ASSUME e < m PROVE FALSE
    BY <1>5, <1>6
  <2>1. 3 * e \in 4 .. 3 * m - 1 /\ 3 * e < Len(d) /\ 3 * e + 1 \in 1 .. Len(d)
    BY <1>4, <1>5, <1>6
  <2>2. 6 + (3 * e + 1) \in 1 .. Len(f) /\ d[3 * e + 1] = f[6 + (3 * e + 1)]
    BY <1>4, <2>1 DEF IsData
  <2>3. f[6 + (3 * e + 1)].sload = 1
    <3>1. 6 + (3 * e + 1) > 6 + 3 * e
      BY <1>6
    <3> QED BY <2>2, <3>1, FrameLevels
  <2> QED BY <1>2, <2>1, <2>2, <2>3
<1>8. m \in 4 .. e
  BY <1>5, <1>6, <1>7
<1>9. MasksRead(d, m) = Below(ms, n, m) /\ RawOf(d) = bits
  BY <1>4, <1>5, <1>8, DataRead
<1> QED BY <1>2, <1>9 DEF MasksRead

-----------------------------------------------------------------------------
(* The first sync of a frame seen from its start is its restart marker.    *)
LEMMA MarkerFound ==
  ASSUME NEW f, NEW e, NEW n, NEW bits, NEW ms, IsFrame(f, e, n, bits, ms),
         NEW r, IsCapture(r, f, 1), Len(r) >= 6
  PROVE  Syncs(r) # {} /\ SyncRise(r) = 6 /\ LowRun(r, 6) = 5
<1>1. /\ r \in Seq(Levels) /\ Len(r) \in Nat /\ Len(r) <= Len(f) /\ Len(f) \in Nat
      /\ \A i \in 1 .. Len(r) : r[i] = f[i]
  <2>1. \A i \in 1 .. Len(r) : r[i] = f[1 - 1 + i] /\ 1 - 1 + i = i
    BY DEF IsCapture
  <2> QED BY <2>1 DEF IsCapture, IsFrame
<1>2. \A i \in 1 .. 5 : i \in 1 .. Len(r) /\ r[i].sload = 0
  <2>1. ASSUME NEW i \in 1 .. 5 PROVE i \in 1 .. Len(r) /\ r[i].sload = 0
    <3>1. i \in 1 .. Len(r) /\ i \in 1 .. Len(f) /\ i <= 5
      BY <1>1
    <3> QED BY <1>1, <3>1, FrameLevels
  <2> QED BY <2>1
<1>3. 6 \in 1 .. Len(r) /\ r[6].sload = 1
  <2>1. 6 \in 1 .. Len(r) /\ 6 \in 1 .. Len(f)
    BY <1>1
  <2> QED BY <1>1, <2>1, FrameLevels
<1>4. LowRun(r, 6) = 5
  <2>1. 6 \in Nat \ {0} /\ 0 \in 0 .. 6 - 1 /\ \A j \in 0 + 1 .. 6 - 1 : r[j].sload # 1
    BY <1>2
  <2>2. LowRun(r, 6) = 6 - 1 - 0
    BY <2>1, LowRunFrom
  <2> QED BY <2>2
<1>5. 6 \in Syncs(r)
  BY <1>1, <1>3, <1>4 DEF Syncs
<1>6. SyncRise(r) \in Syncs(r) /\ SyncRise(r) <= 6
  BY <1>1, <1>5, FirstSync
<1>7. SyncRise(r) \in 1 .. Len(r) /\ r[SyncRise(r)].sload = 1
  BY <1>1, <1>6 DEF Syncs
<1>8. SyncRise(r) \notin 1 .. 5
  BY <1>2, <1>7
<1>9. SyncRise(r) = 6
  <2> DEFINE i == SyncRise(r)
  <2>1. i \in 1 .. Len(r) /\ i <= 6 /\ i \notin 1 .. 5
    BY <1>6, <1>7, <1>8
  <2> HIDE DEF i
  <2>2. i = 6
    BY <1>1, <2>1
  <2> QED BY <2>2 DEF i
<1> QED BY <1>4, <1>5, <1>9

(* The clocks of a frame of 4, 8 or 16 slots, the padding included.        *)
WholeLength(n) == IF n = 16 THEN 64 ELSE 32

(* In a whole frame of 4, 8 or 16 slots the padding alone looks like one.  *)
LEMMA PaddingFound ==
  ASSUME NEW f, NEW n \in {4, 8, 16}, NEW bits, NEW ms, IsFrame(f, n, n, bits, ms),
         NEW d, IsData(d, f), Len(d) = WholeLength(n) - 6
  PROVE  PaddingStarts(d) = {3 * n}
<1> DEFINE len == Len(d)
           Shape(s) == /\ s + 2 <= len /\ d[s + 1].sload = 1 /\ d[s + 2].sload = 1
                       /\ s = 12 \/ d[s].sload = 0
<1>1. len = IF n = 16 THEN 58 ELSE 26
  BY DEF WholeLength
<1> HIDE DEF len
<1>2. \A j \in 1 .. len : 6 + j \in 1 .. Len(f) /\ d[j] = f[6 + j]
  BY DEF IsData, len
<1>3. ASSUME NEW j \in 5 .. len
      PROVE  d[j].sload = IF j <= 3 * n THEN 0 ELSE 1
  <2>1. j \in 1 .. len /\ (j <= 3 * n => 6 + j \in 11 .. 6 + 3 * n)
        /\ (~(j <= 3 * n) => 6 + j > 6 + 3 * n)
    BY <1>1
  <2>2. 6 + j \in 1 .. Len(f) /\ d[j] = f[6 + j]
    BY <1>2, <2>1
  <2> QED BY <2>1, <2>2, FrameLevels
<1>4. \A s \in {12, 24, 48} : Shape(s) <=> s = 3 * n
  <2>1. ASSUME NEW s \in {12, 24, 48}, s + 2 <= len
        PROVE  /\ d[s].sload = (IF s <= 3 * n THEN 0 ELSE 1)
               /\ d[s + 1].sload = (IF s + 1 <= 3 * n THEN 0 ELSE 1)
               /\ d[s + 2].sload = (IF s + 2 <= 3 * n THEN 0 ELSE 1)
    <3>1. s \in 5 .. len /\ s + 1 \in 5 .. len /\ s + 2 \in 5 .. len
      BY <1>1, <2>1
    <3> QED BY <1>3, <3>1
  <2>2. CASE n = 4
    BY <1>1, <2>1, <2>2
  <2>3. CASE n = 8
    BY <1>1, <2>1, <2>3
  <2>4. CASE n = 16
    BY <1>1, <2>1, <2>4
  <2> QED BY <2>2, <2>3, <2>4
<1>5. PaddingStarts(d) = {s \in {12, 24, 48} : Shape(s)}
  BY DEF PaddingStarts, len
<1> HIDE DEF Shape
<1> QED BY <1>4, <1>5

(* A whole frame decodes to what it was made of.                           *)
LEMMA WholeIsRead ==
  ASSUME NEW f, NEW n \in {4, 8, 16}, NEW bits, NEW ms, IsFrame(f, n, n, bits, ms),
         Len(f) = WholeLength(n),
         NEW r, IsCapture(r, f, 1), Len(r) = Len(f), NEW exp \in {0, n}
  PROVE  Decode(r, exp) = [state |-> "COMPLETE", errors |-> {}, masks |-> Below(ms, n, n),
                           raw |-> bits, slots |-> n]
<1> DEFINE d == DataOf(r)
           m == DetectedSlots(d, exp)
<1>1. Len(r) >= 6 /\ ~(Len(r) < 6)
  <2> DEFINE len == Len(r)
  <2>1. len = IF n = 16 THEN 64 ELSE 32
    BY DEF WholeLength
  <2> HIDE DEF len
  <2>2. len >= 6 /\ ~(len < 6)
    BY <2>1
  <2> QED BY <2>2 DEF len
<1>2. Syncs(r) # {} /\ SyncRise(r) = 6 /\ LowRun(r, SyncRise(r)) = 5
  <2>1. Syncs(r) # {} /\ SyncRise(r) = 6 /\ LowRun(r, 6) = 5
    BY <1>1, MarkerFound
  <2> QED BY <2>1
<1>3. Len(d) = Len(r) - 6 /\ IsData(d, f)
  BY <1>1, <1>2, DataClocksSeen
<1>4. Len(d) = IF n = 16 THEN 58 ELSE 26
  BY <1>3 DEF WholeLength
<1> HIDE DEF d
<1>5. PaddingStarts(d) = {3 * n}
  <2>1. IsFrame(f, n, n, bits, ms)
    OBVIOUS
  <2>2. IsData(d, f)
    BY <1>3
  <2>3. Len(d) = WholeLength(n) - 6
    BY <1>3
  <2> QED BY <2>1, <2>2, <2>3, PaddingFound
<1>6. m = n
  <2>1. (CHOOSE s \in {3 * n} : \A t \in {3 * n} : s <= t) = 3 * n
    OBVIOUS
  <2>2. (3 * n) \div 3 = n
    OBVIOUS
  <2> QED BY <1>5, <2>1, <2>2 DEF DetectedSlots
<1> HIDE DEF m
<1>7. Valid(n) /\ Len(d) >= 3 * n /\ ~(Len(d) < 3 * n)
  BY <1>4 DEF Valid
<1>8. ~Incomplete(d, exp, m)
  BY <1>5, <1>6, <1>7 DEF Incomplete
<1>9. ~ \E j \in 4 .. 3 * m - 1 : j < Len(d) /\ d[j + 1].sload = 1
  <2> SUFFICES ASSUME NEW j \in 4 .. 3 * n - 1 PROVE d[j + 1].sload = 0
    BY <1>6
  <2>1. j + 1 \in 1 .. Len(d) /\ 6 + (j + 1) \in 11 .. 6 + 3 * n
    BY <1>4
  <2>2. 6 + (j + 1) \in 1 .. Len(f) /\ d[j + 1] = f[6 + (j + 1)]
    BY <1>3, <2>1 DEF IsData
  <2>3. f[6 + (j + 1)].sload = 0
    <3> DEFINE i == 6 + (j + 1)
    <3>1. IsFrame(f, n, n, bits, ms) /\ i \in 1 .. Len(f) /\ i \in 11 .. 6 + 3 * n
      BY <2>1, <2>2
    <3> HIDE DEF i
    <3>2. f[i].sload = 0
      BY <3>1, FrameLevels, Zenon
    <3> QED BY <3>2 DEF i
  <2> QED BY <2>2, <2>3
<1>10. MasksRead(d, n) = Below(ms, n, n) /\ RawOf(d) = bits
  <2> DEFINE e == n
             k == n
  <2>1. IsFrame(f, e, n, bits, ms) /\ k \in 4 .. e
    OBVIOUS
  <2>2. IsData(d, f) /\ Len(d) >= 3 * k
    BY <1>3, <1>7
  <2> HIDE DEF e, k
  <2>3. MasksRead(d, k) = Below(ms, n, k) /\ RawOf(d) = bits
    BY <2>1, <2>2, DataRead
  <2> QED BY <2>3 DEF k
<1>11. Decode(r, exp) = [state |-> "COMPLETE", errors |-> {}, masks |-> MasksRead(d, m),
                         raw |-> RawOf(d), slots |-> m]
  <2>1. d = DataOf(r) /\ m = DetectedSlots(d, exp)
    BY DEF d, m
  <2>2. ~(Len(r) < 6) /\ Syncs(r) # {} /\ LowRun(r, SyncRise(r)) = 5
    BY <1>1, <1>2
  <2>3. Valid(m) /\ ~Incomplete(d, exp, m)
    BY <1>6, <1>7, <1>8
  <2>4. ~ \E j \in 4 .. 3 * m - 1 : j < Len(d) /\ d[j + 1].sload = 1
    BY <1>9
  <2> QED BY <2>1, <2>2, <2>3, <2>4, NoneDecoded
<1> QED BY <1>6, <1>10, <1>11

-----------------------------------------------------------------------------
(* Where an element of the first or the second of two joined sequences is. *)
LEMMA InJoined ==
  ASSUME NEW S, NEW s \in Seq(S), NEW t \in Seq(S), NEW i \in 1 .. Len(s) + Len(t)
  PROVE  (s \o t)[i] = IF i <= Len(s) THEN s[i] ELSE t[i - Len(s)]
  BY ConcatProperties

(* The L bits a frame carries.                                             *)
BitsOf(rawbits, isfirst) == IF isfirst = 1 THEN rawbits \ {0} ELSE rawbits

(* BuildWaveform lays out such a frame.                                    *)
LEMMA FrameProfile ==
  ASSUME NEW n \in Nat, ClampSlotCount(n) = n, n # 0,
         NEW rawbits \in SUBSET (0 .. 3), NEW isfirst,
         NEW ms \in [0 .. 2 -> SUBSET (0 .. 15)]
  PROVE  /\ IsFrame(Clocks(n, rawbits, isfirst, ms), SlotsToEmit(n), n,
                    BitsOf(rawbits, isfirst), ms)
         /\ n \in {4, 8, 16} => /\ SlotsToEmit(n) = n
                                /\ Len(Clocks(n, rawbits, isfirst, ms)) = WholeLength(n)
<1> DEFINE e == SlotsToEmit(n)
           bits == BitsOf(rawbits, isfirst)
           data == DataClocks(n, rawbits, isfirst, ms)
           body == Sync \o data
           pad == Padding(Len(body))
           f == Clocks(n, rawbits, isfirst, ms)
<1>1. e \in 4 .. 16 /\ n \in 1 .. e /\ n <= 16
  BY Clamped DEF SlotsToEmit
<1>2. bits \subseteq 0 .. 3
  BY DEF BitsOf
<1>3. Sync \in Seq(Levels) /\ Len(Sync) = 6 /\ data \in Seq(Levels) /\ Len(data) = 3 * e
  BY <1>1, Parts
<1>4. \A i \in 1 .. 3 * e :
        data[i] = Clock(Bit(i - 1 \in bits \cap 0 .. 3), SlotStreamBit(n, ms, i - 1))
  BY DEF DataClocks, BitsOf
<1>5. f = body \o pad
  BY DEF Clocks
<1> HIDE DEF data, bits, e
<1>6. body \in Seq(Levels) /\ Len(body) = 6 + 3 * e
  BY <1>3, Joined
<1>7. \A i \in 1 .. 6 + 3 * e : body[i] = IF i <= 6 THEN Sync[i] ELSE data[i - 6]
  <2>1. \A i \in 1 .. Len(Sync) + Len(data) :
          (Sync \o data)[i] = IF i <= Len(Sync) THEN Sync[i] ELSE data[i - Len(Sync)]
    BY <1>3, InJoined
  <2>2. Len(Sync) + Len(data) = 6 + 3 * e
    BY <1>3
  <2> QED BY <1>3, <2>1, <2>2
<1> HIDE DEF body
<1>8. pad \in Seq(Levels) /\ Len(pad) = (16 - (Len(body) % 16)) % 16
  <2>1. Len(body) \in Nat /\ SlotsToEmit(n) \in Nat
    BY <1>1, <1>6 DEF e
  <2> QED BY <2>1, Parts
<1>9. \A i \in 1 .. Len(pad) : pad[i] = Clock(1, 0)
  BY <1>8 DEF Padding
<1> HIDE DEF pad
<1>10. f \in Seq(Levels) /\ Len(f) = 6 + 3 * e + Len(pad) /\ Len(pad) \in Nat
  <2>1. f \in Seq(Levels) /\ Len(f) = Len(body) + Len(pad)
    BY <1>5, <1>6, <1>8, Joined
  <2>2. Len(pad) \in Nat
    BY <1>8
  <2> QED BY <1>6, <2>1, <2>2
<1>11. \A i \in 1 .. Len(f) :
         f[i] = IF i <= 6 + 3 * e THEN body[i] ELSE pad[i - (6 + 3 * e)]
  <2>1. \A i \in 1 .. Len(body) + Len(pad) :
          (body \o pad)[i] = IF i <= Len(body) THEN body[i] ELSE pad[i - Len(body)]
    BY <1>6, <1>8, InJoined
  <2> QED BY <1>5, <1>6, <1>10, <2>1
<1> HIDE DEF f
<1>12. \A i \in 1 .. 6 : Sync[i] = Clock(Bit(i = 6), 0)
  <2> DEFINE five == [i \in 1 .. 5 |-> Clock(0, 0)]
             one == <<Clock(1, 0)>>
  <2>1. five \in Seq(Levels) /\ Len(five) = 5 /\ one \in Seq(Levels) /\ Len(one) = 1
    BY DEF Clock, Levels
  <2>2. (\A i \in 1 .. 5 : five[i] = Clock(0, 0)) /\ one[1] = Clock(1, 0)
    OBVIOUS
  <2>3. Sync = five \o one
    BY DEF Sync
  <2> HIDE DEF five, one
  <2>4. \A i \in 1 .. 6 : Sync[i] = IF i <= 5 THEN five[i] ELSE one[i - 5]
    <3>1. \A i \in 1 .. Len(five) + Len(one) :
            (five \o one)[i] = IF i <= Len(five) THEN five[i] ELSE one[i - Len(five)]
      BY <2>1, InJoined
    <3>2. Len(five) + Len(one) = 6
      BY <2>1
    <3> QED BY <2>1, <2>3, <3>1, <3>2
  <2> QED BY <2>2, <2>4 DEF Bit
<1>13. ASSUME NEW i \in 1 .. Len(f)
       PROVE  /\ i <= 5 => f[i].sload = 0
              /\ i = 6 => f[i].sload = 1
              /\ i \in 7 .. 10 => (f[i].sload = 1 <=> i - 7 \in bits)
              /\ i \in 11 .. 6 + 3 * e => f[i].sload = 0
              /\ i > 6 + 3 * e => f[i].sload = 1
              /\ i \in 7 .. 6 + 3 * e => f[i].sdata = SlotStreamBit(n, ms, i - 7)
  <2>1. CASE i <= 6
    <3>1. f[i] = Clock(Bit(i = 6), 0)
      BY <1>1, <1>7, <1>11, <1>12, <2>1
    <3> QED BY <1>1, <2>1, <3>1 DEF Clock, Bit
  <2>2. CASE i \in 7 .. 6 + 3 * e
    <3>1. i - 6 \in 1 .. 3 * e /\ (i - 6) - 1 = i - 7
      BY <1>1, <2>2
    <3>2. f[i] = Clock(Bit(i - 7 \in bits \cap 0 .. 3), SlotStreamBit(n, ms, i - 7))
      <4>1. f[i] = body[i]
        BY <1>1, <1>11, <2>2
      <4>2. body[i] = data[i - 6]
        BY <1>1, <1>7, <2>2
      <4> QED BY <1>4, <3>1, <4>1, <4>2
    <3> QED BY <1>1, <1>2, <2>2, <3>2 DEF Clock, Bit
  <2>3. CASE i > 6 + 3 * e
    <3>1. i - (6 + 3 * e) \in 1 .. Len(pad)
      BY <1>1, <1>10, <2>3
    <3>2. f[i] = Clock(1, 0)
      <4>1. f[i] = pad[i - (6 + 3 * e)]
        BY <1>1, <1>11, <2>3
      <4> QED BY <1>9, <3>1, <4>1
    <3>3. f[i].sload = 1
      BY <3>2 DEF Clock
    <3>4. ~(i <= 5) /\ i # 6 /\ i \notin 7 .. 10 /\ i \notin 11 .. 6 + 3 * e
          /\ i \notin 7 .. 6 + 3 * e
      BY <1>1, <2>3
    <3> QED BY <3>3, <3>4
  <2> QED BY <1>1, <1>10, <2>1, <2>2, <2>3
<1>14. IsFrame(f, e, n, bits, ms)
  <2>1. f \in Seq(Levels) /\ e \in 4 .. 16 /\ n \in 1 .. e /\ Len(f) >= 6 + 3 * e
    BY <1>1, <1>10
  <2> QED BY <1>2, <1>13, <2>1, Zenon DEF IsFrame
<1>15. n \in {4, 8, 16} => e = n /\ Len(f) = WholeLength(n)
  <2>1. n \in {4, 8, 16} => e = n
    BY DEF e, SlotsToEmit
  <2>2. ASSUME n \in {4, 8, 16} PROVE Len(f) = WholeLength(n)
    <3>1. CASE n = 4
      <4>1. Len(body) = 18
        BY <1>6, <2>1, <3>1
      <4>2. Len(pad) = 14
        BY <1>8, <4>1
      <4> QED BY <1>10, <2>1, <3>1, <4>2 DEF WholeLength
    <3>2. CASE n = 8
      <4>1. Len(body) = 30
        BY <1>6, <2>1, <3>2
      <4>2. Len(pad) = 2
        BY <1>8, <4>1
      <4> QED BY <1>10, <2>1, <3>2, <4>2 DEF WholeLength
    <3>3. CASE n = 16
      <4>1. Len(body) = 54
        BY <1>6, <2>1, <3>3
      <4>2. Len(pad) = 10
        BY <1>8, <4>1
      <4> QED BY <1>10, <2>1, <3>3, <4>2 DEF WholeLength
    <3> QED BY <2>2, <3>1, <3>2, <3>3
  <2> QED BY <2>1, <2>2
<1> QED
  BY <1>14, <1>15 DEF f, e, bits

-----------------------------------------------------------------------------
(* The line carries each clock low and then high, and is left low.         *)
LEMMA WordsOf ==
  ASSUME NEW c \in Seq(Levels), Len(c) <= 64
  PROVE  /\ Len(Words(c)) = 2 * Len(c) + 1
         /\ \A p \in 1 .. 2 * Len(c) :
              Words(c)[p] = [sload |-> c[(p + 1) \div 2].sload,
                             sdata |-> c[(p + 1) \div 2].sdata, sclk |-> (p + 1) % 2]
<1> DEFINE Level(d, sclk) == [sload |-> d.sload, sdata |-> d.sdata, sclk |-> sclk]
           len == Len(c)
           pairs == [i \in 1 .. 2 * len |-> Level(c[(i + 1) \div 2], (i + 1) % 2)]
           idle == <<Level(Clock(1, 0), 0)>>
           all == pairs \o idle
           W == {pairs[i] : i \in 1 .. 2 * len} \cup {Level(Clock(1, 0), 0)}
<1>1. len \in Nat /\ len <= 64
  OBVIOUS
<1>2. Words(c) = SubSeq(all, 1, IF Len(all) > WordMax THEN WordMax ELSE Len(all))
  BY DEF Words
<1> HIDE DEF len
<1>3. pairs \in Seq(W) /\ Len(pairs) = 2 * len
  <2>1. 2 * len \in Nat
    BY <1>1
  <2>2. pairs \in [1 .. 2 * len -> W]
    BY Zenon
  <2> HIDE DEF pairs, W
  <2> QED BY <2>1, <2>2
<1>4. idle \in Seq(W) /\ Len(idle) = 1
  OBVIOUS
<1>5. \A p \in 1 .. 2 * len : pairs[p] = Level(c[(p + 1) \div 2], (p + 1) % 2)
  OBVIOUS
<1> HIDE DEF pairs, idle, W
<1>6. all \in Seq(W) /\ Len(all) = 2 * len + 1
  BY <1>1, <1>3, <1>4, Joined
<1>7. \A p \in 1 .. 2 * len : all[p] = pairs[p]
  <2>1. \A p \in 1 .. Len(pairs) + Len(idle) :
          (pairs \o idle)[p] = IF p <= Len(pairs) THEN pairs[p] ELSE idle[p - Len(pairs)]
    BY <1>3, <1>4, InJoined
  <2> QED BY <1>1, <1>3, <1>4, <2>1
<1> HIDE DEF all
<1>8. Words(c) = SubSeq(all, 1, Len(all))
  <2>1. ~(Len(all) > WordMax)
    BY <1>1, <1>6, WaveformAssumption
  <2> QED BY <1>2, <2>1
<1>9. SubSeq(all, 1, Len(all)) = all
  BY <1>6
<1> QED
  BY <1>5, <1>6, <1>7, <1>8, <1>9 DEF len

-----------------------------------------------------------------------------
(* The inductive invariant: the line carries the frame, and the capture    *)
(* holds the clocks whose rising edge came since the trigger.              *)
Settings ==
  /\ slots \in 1 .. 16 /\ ClampSlotCount(slots) = slots
  /\ raw \subseteq 0 .. 3 /\ first \in {0, 1} /\ masks \in [0 .. 2 -> SUBSET (0 .. 15)]
  /\ expected \in {0, 4, 8, 16}

OnLine ==
  /\ line = Words(Frame)
  /\ from \in 1 .. Len(Frame)
  /\ word \in 2 * from - 1 .. 2 * Len(Frame) + 1

Captured ==
  /\ Len(capture) = word \div 2 - (from - 1)
  /\ IsCapture(capture, Frame, from)

WaveformInv == Settings /\ OnLine /\ Captured

(* The frame of legal settings, and its words.                             *)
LEMMA FrameFacts ==
  ASSUME Settings
  PROVE  /\ Frame \in Seq(Levels) /\ Len(Frame) \in Nat /\ Len(Frame) <= 64
         /\ Len(Words(Frame)) = 2 * Len(Frame) + 1
         /\ \A p \in 1 .. 2 * Len(Frame) :
              Words(Frame)[p] = [sload |-> Frame[(p + 1) \div 2].sload,
                                 sdata |-> Frame[(p + 1) \div 2].sdata,
                                 sclk |-> (p + 1) % 2]
<1>1. slots \in Nat /\ ClampSlotCount(slots) = slots
  BY DEF Settings
<1>2. Frame = Clocks(ClampSlotCount(slots), raw, first, masks)
  BY <1>1 DEF Frame
<1>3. Frame \in Seq(Levels) /\ Len(Frame) <= 64
  BY <1>1, <1>2, FrameLength
<1>4. Len(Frame) \in Nat
  BY <1>3
<1> QED
  BY <1>3, <1>4, WordsOf

(* A clamped slot count is its own clamping.                               *)
LEMMA ClampTwice ==
  ASSUME NEW n \in Nat
  PROVE  ClampSlotCount(ClampSlotCount(n)) = ClampSlotCount(n)
  BY WaveformAssumption DEF ClampSlotCount

LEMMA WaveformStarts == Init => WaveformInv
<1> SUFFICES ASSUME Init PROVE WaveformInv
  OBVIOUS
<1>1. Settings
  <2>1. PICK n \in SlotCounts : slots = ClampSlotCount(n)
    BY DEF Init
  <2>2. n \in Nat
    BY WaveformAssumption
  <2>3. slots \in 1 .. 16 /\ ClampSlotCount(slots) = slots
    BY <2>1, <2>2, Clamped, ClampTwice
  <2> QED BY <2>3, WaveformAssumption DEF Init, Settings
<1>2. Len(Frame) \in Nat
  BY <1>1, FrameFacts
<1>3. line = Words(Frame) /\ from \in 1 .. Len(Frame) /\ word = 2 * from - 1 /\ capture = <<>>
  BY DEF Init
<1>4. OnLine
  <2>1. from \in Nat /\ word \in 2 * from - 1 .. 2 * Len(Frame) + 1
    BY <1>2, <1>3
  <2> QED BY <1>3, <2>1 DEF OnLine
<1>5. Captured
  <2>1. from \in Nat \ {0} /\ from <= Len(Frame)
    BY <1>2, <1>3
  <2>2. Len(capture) = 0 /\ capture \in Seq(Levels)
    BY <1>3
  <2>3. word \div 2 - (from - 1) = 0
    BY <1>3, <2>1
  <2>4. from - 1 + 0 <= Len(Frame)
    BY <1>2, <2>1
  <2> QED BY <2>1, <2>2, <2>3, <2>4 DEF Captured, IsCapture
<1> QED BY <1>1, <1>4, <1>5 DEF WaveformInv

LEMMA WaveformStep == WaveformInv /\ [Sample]_vars => WaveformInv'
<1> SUFFICES ASSUME WaveformInv, [Sample]_vars PROVE WaveformInv'
  OBVIOUS
<1>1. CASE Sample
  <2> DEFINE f == Frame
             len == Len(f)
  <2>1. Settings' /\ f' = f
    BY <1>1 DEF WaveformInv, Settings, Sample, Frame
  <2>2. /\ f \in Seq(Levels) /\ len \in Nat /\ Len(line) = 2 * len + 1
        /\ \A p \in 1 .. 2 * len :
             line[p] = [sload |-> f[(p + 1) \div 2].sload,
                        sdata |-> f[(p + 1) \div 2].sdata, sclk |-> (p + 1) % 2]
    BY FrameFacts DEF WaveformInv, OnLine
  <2>3. /\ line' = Words(f) /\ from' = from /\ from \in 1 .. len /\ word' = word + 1
        /\ word \in 2 * from - 1 .. 2 * len + 1 /\ word < Len(line)
    BY <1>1 DEF WaveformInv, OnLine, Sample
  <2>4. /\ Len(capture) = word \div 2 - (from - 1) /\ capture \in Seq(Levels)
        /\ \A i \in 1 .. Len(capture) : capture[i] = f[from - 1 + i]
    BY DEF WaveformInv, Captured, IsCapture
  <2>5. capture' = IF line[word].sclk = 0 /\ line[word'].sclk = 1
                   THEN Append(capture, Clock(line[word'].sload, line[word'].sdata))
                   ELSE capture
    BY <1>1 DEF Sample
  <2> HIDE DEF f, len
  <2>6. from \in Nat /\ from >= 1 /\ from <= len /\ word \in Nat /\ word <= 2 * len
        /\ word \in 1 .. 2 * len /\ 2 * from - 1 <= word
    BY <2>2, <2>3
  <2>7. OnLine'
    <3>1. word' \in 2 * from - 1 .. 2 * len + 1
      BY <2>2, <2>3, <2>6
    <3> QED BY <2>1, <2>3, <3>1 DEF OnLine, f, len
  <2>8. line[word].sclk = (word + 1) % 2
    <3>1. line[word] = [sload |-> f[(word + 1) \div 2].sload,
                        sdata |-> f[(word + 1) \div 2].sdata, sclk |-> (word + 1) % 2]
      BY <2>2, <2>6
    <3> QED BY <3>1
  <2>9. CASE word % 2 = 1
    <3> DEFINE q == word' \div 2
    <3>1. word' = 2 * q /\ q \in from .. len /\ q \in 1 .. len /\ word' \in 1 .. 2 * len
          /\ (word' + 1) \div 2 = q /\ (word' + 1) % 2 = 1 /\ word \div 2 = q - 1
          /\ (word + 1) % 2 = 0
      BY <2>2, <2>3, <2>6, <2>9
    <3> HIDE DEF q
    <3>2. line[word'] = [sload |-> f[q].sload, sdata |-> f[q].sdata, sclk |-> 1]
      BY <2>2, <3>1
    <3>3. f[q] \in Levels
      BY <2>2, <3>1 DEF len
    <3>4. Clock(line[word'].sload, line[word'].sdata) = f[q]
      BY <3>2, <3>3 DEF Clock, Levels
    <3>5. capture' = Append(capture, f[q])
      BY <2>5, <2>8, <3>1, <3>2, <3>4
    <3>6. capture' \in Seq(Levels) /\ Len(capture') = Len(capture) + 1
          /\ Len(capture) \in Nat
      BY <2>4, <3>3, <3>5
    <3>7. Len(capture) = q - 1 - (from - 1) /\ Len(capture') = q - (from - 1)
      BY <2>4, <2>6, <3>1, <3>6
    <3>8. ASSUME NEW i \in 1 .. Len(capture') PROVE capture'[i] = f[from - 1 + i]
      <4>1. CASE i <= Len(capture)
        <5>1. i \in 1 .. Len(capture)
          BY <3>6, <4>1
        <5>2. capture'[i] = capture[i]
          BY <2>4, <3>5, <5>1
        <5> QED BY <2>4, <5>1, <5>2
      <4>2. CASE i = Len(capture) + 1
        <5>1. from - 1 + i = q
          BY <2>6, <3>1, <3>7, <4>2
        <5>2. capture'[i] = f[q]
          BY <2>4, <3>5, <4>2
        <5> QED BY <5>1, <5>2
      <4> QED BY <3>6, <4>1, <4>2
    <3>9. from - 1 + Len(capture') <= len
      BY <2>2, <2>6, <3>1, <3>7
    <3>10. IsCapture(capture', f, from)
      BY <2>6, <3>6, <3>8, <3>9 DEF IsCapture, len
    <3>11. Captured'
      BY <2>1, <2>3, <3>7, <3>10 DEF Captured, q, f
    <3> QED BY <2>1, <2>7, <3>11 DEF WaveformInv
  <2>10. CASE word % 2 = 0
    <3>1. (word + 1) % 2 = 1 /\ word' \div 2 = word \div 2
      BY <2>3, <2>6, <2>10
    <3>2. capture' = capture
      BY <2>5, <2>8, <3>1
    <3>3. Captured'
      BY <2>1, <2>3, <2>4, <3>1, <3>2 DEF Captured, WaveformInv, f
    <3> QED BY <2>1, <2>7, <3>3 DEF WaveformInv
  <2> QED BY <2>6, <2>9, <2>10
<1>2. CASE UNCHANGED vars
  BY <1>2 DEF vars, WaveformInv, Settings, OnLine, Captured, Frame
<1> QED BY <1>1, <1>2

THEOREM WaveformInvariant == Spec => []WaveformInv
<1>1. Init => WaveformInv
  BY WaveformStarts
<1>2. WaveformInv /\ [Sample]_vars => WaveformInv'
  BY WaveformStep
<1> QED
  BY <1>1, <1>2, PTL DEF Spec

(* AppendLevel's bound check never drops a word of a frame.                *)
THEOREM FramesFit == Spec => []FrameFits
<1>1. WaveformInv => FrameFits
  <2> SUFFICES ASSUME WaveformInv PROVE FrameFits
    OBVIOUS
  <2> DEFINE c == Clocks(ClampSlotCount(slots), raw, first, masks)
             w == Words(c)
  <2>1. slots \in Nat /\ Frame = c /\ line = w
    BY DEF WaveformInv, Settings, OnLine, Frame
  <2>2. /\ Len(w) = 2 * Len(c) + 1 /\ Len(c) % 16 = 0
        /\ w[Len(w)] = [sload |-> 1, sdata |-> 0, sclk |-> 0]
    BY <2>1, BufferSuffices
  <2> HIDE DEF c, w
  <2> QED BY <2>1, <2>2 DEF FrameFits, Last
<1> QED
  BY <1>1, WaveformInvariant, PTL

(* The frame on the line, as the decoder's lemmas speak of it.             *)
LEMMA ThisFrame ==
  ASSUME WaveformInv
  PROVE  /\ IsFrame(Frame, SlotsToEmit(slots), slots, SentRaw, masks)
         /\ IsCapture(capture, Frame, from)
         /\ slots \in {4, 8, 16} => /\ SlotsToEmit(slots) = slots
                                    /\ Len(Frame) = WholeLength(slots)
<1>1. /\ slots \in Nat /\ ClampSlotCount(slots) = slots /\ slots # 0
      /\ raw \in SUBSET (0 .. 3) /\ masks \in [0 .. 2 -> SUBSET (0 .. 15)]
  BY DEF WaveformInv, Settings
<1>2. SentRaw = BitsOf(raw, first)
  BY DEF SentRaw, BitsOf
<1>3. IsCapture(capture, Frame, from)
  BY DEF WaveformInv, Captured
<1> QED
  BY <1>1, <1>2, <1>3, FrameProfile DEF Frame

(* The masks sent are those below the slot counts of either end.           *)
LEMMA SentAreBelow ==
  ASSUME NEW n PROVE SentMasks(n) = Below(masks, slots, n)
  BY DEF SentMasks, Below

(* A capture that began late or ended early is flagged or harmless.        *)
THEOREM CleanDecodes == Spec => []CleanDecodeIsTrue
<1>1. WaveformInv => CleanDecodeIsTrue
  <2> SUFFICES ASSUME WaveformInv, Decode(capture, expected).errors = {}
               PROVE  LET found == Decode(capture, expected)
                      IN  found.masks = SentMasks(found.slots) /\ found.raw = SentRaw
    BY DEF CleanDecodeIsTrue, Result
  <2> DEFINE e == SlotsToEmit(slots)
             f == Frame
  <2>1. IsFrame(f, e, slots, SentRaw, masks) /\ IsCapture(capture, f, from)
    BY ThisFrame
  <2> HIDE DEF e, f
  <2>2. LET found == Decode(capture, expected)
        IN  found.masks = Below(masks, slots, found.slots) /\ found.raw = SentRaw
    BY <2>1, CleanIsTrue
  <2> QED BY <2>2, SentAreBelow
<1> QED
  BY <1>1, WaveformInvariant, PTL

(* A whole frame of 4, 8 or 16 slots decodes to what was sent.             *)
THEOREM WholeFramesDecode == Spec => []WholeFrameDecodes
<1>1. WaveformInv => WholeFrameDecodes
  <2> SUFFICES ASSUME WaveformInv, word = Len(line), from = 1, Valid(slots),
                      expected \in {0, slots}
               PROVE  Decode(capture, expected)
                        = [state |-> "COMPLETE", errors |-> {}, masks |-> SentMasks(slots),
                           raw |-> SentRaw, slots |-> slots]
    BY DEF WholeFrameDecodes, Result
  <2> DEFINE f == Frame
  <2>1. slots \in {4, 8, 16}
    BY DEF Valid
  <2>2. /\ IsFrame(f, slots, slots, SentRaw, masks) /\ Len(f) = WholeLength(slots)
        /\ IsCapture(capture, f, 1)
    BY <2>1, ThisFrame
  <2>3. Len(capture) = Len(f)
    <3>1. Len(f) \in Nat /\ Len(line) = 2 * Len(f) + 1
      BY FrameFacts DEF WaveformInv, OnLine
    <3>2. Len(capture) = word \div 2 - (from - 1)
      BY DEF WaveformInv, Captured
    <3> HIDE DEF f
    <3>3. word \div 2 = Len(f)
      BY <3>1
    <3> QED BY <3>1, <3>2, <3>3
  <2> HIDE DEF f
  <2>4. Decode(capture, expected)
          = [state |-> "COMPLETE", errors |-> {}, masks |-> Below(masks, slots, slots),
             raw |-> SentRaw, slots |-> slots]
    BY <2>1, <2>2, <2>3, WholeIsRead
  <2> QED BY <2>4, SentAreBelow
<1> QED
  BY <1>1, WaveformInvariant, PTL

=============================================================================
