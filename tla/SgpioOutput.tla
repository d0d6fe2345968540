---------------------------- MODULE SgpioOutput ----------------------------
(***************************************************************************)
(* The SGPIO generator (m031_bridge_sgpio.c): commands and a periodic      *)
(* Process run in the super-loop and start frames; a timer makes the PDMA  *)
(* copy the waveform buffer, word by word, to the output pins behind the   *)
(* loop's back.                                                            *)
(*                                                                         *)
(* Once TIMER_Stop has run the hardware does nothing, so StopFrame and     *)
(* StartFrame are single steps; the PDMA may move on between two steps of  *)
(* Apply.  The waveform is what BuildWaveform was given: its slot count,   *)
(* its masks, and whether L0 is held low (SgpioWaveform has the words).    *)
(***************************************************************************)
EXTENDS Naturals

CONSTANTS
  Slots, Data,      \* slot counts and mask settings a host uses
  FrameLen,         \* waveform_count
  IntervalMin,      \* M031_BRIDGE_SGPIO_INTERVAL_MIN_MS and _MAX_MS
  IntervalMax,
  DefaultSlots,     \* the initial settings of g_sgpio (8, 1, 100)
  DefaultData,
  DefaultInterval,
  Requested,        \* intervals a host asks for
  TickMod,          \* get_tick() counts modulo this (2^32)
  MaxLag            \* bound: ticks between two turns of the loop

ASSUME OutputAssumption ==
  /\ FrameLen \in Nat \ {0}
  /\ IntervalMin \in Nat /\ IntervalMax \in Nat /\ IntervalMin <= IntervalMax
  /\ MaxLag \in Nat \ {0}
  /\ TickMod \in Nat /\ IntervalMax + MaxLag < TickMod
  /\ Requested \subseteq Nat
  /\ DefaultSlots \in Slots /\ DefaultData \in Data
  /\ DefaultInterval \in IntervalMin .. IntervalMax

VARIABLES
  \* g_sgpio
  initialized, enabled, periodic, firstFrame, frameActive, slotCount, data,
  lastTick, interval,
  \* g_sgpio_waveform, and the PDMA's place in it
  waveform, pos,
  \* TIMER0, the PDMA channel, the pins
  timerRun,       \* the timer runs and requests transfers
  td,             \* transfer done
  dout,           \* level of the output pins
  datmsk,         \* PA->DATMSK: as it was "saved", or "open" for the output pins
  tick,
  \* the loop, and the argument of Apply it still needs
  pc, enable,
  lag             \* bound: ticks since the loop's last turn

settings == <<slotCount, data, interval, periodic>>
hardware == <<waveform, pos, timerRun, td, dout, datmsk>>
vars == <<initialized, enabled, firstFrame, frameActive, lastTick, settings,
          hardware, tick, pc, enable, lag>>

Content == [slots : Slots, data : Data, first : {0, 1}]

(* Where the loop is, with the line it runs next.                          *)
Pcs == {"loop",      \* between two calls
        "apply",     \* 394  Apply: off, or on?
        "start",     \* 405  Apply: start a frame
        "process",   \* 504  Process: has the frame under way ended?
        "due"}       \* 506  Process: is the next one due?

Init ==
  /\ initialized = 0 /\ enabled = 0 /\ periodic = 1
  /\ firstFrame = 1 /\ frameActive = 0
  /\ slotCount = DefaultSlots /\ data = DefaultData
  /\ interval = DefaultInterval
  /\ lastTick = 0
  /\ waveform = [slots |-> DefaultSlots, data |-> DefaultData, first |-> 1]
  /\ pos = 0                           \* no frame was built yet
  /\ timerRun = 0 /\ td = 0
  /\ dout = "idle" /\ datmsk = "saved"
  /\ tick = 0
  /\ pc = "loop" /\ enable = 0 /\ lag = 0

-----------------------------------------------------------------------------
(* Helpers, on primed variables.  A definition named Bug... is the one     *)
(* after it with a plausible mistake; no specification uses it.            *)

ClampInterval(ms) ==
  IF ms < IntervalMin THEN IntervalMin
  ELSE IF ms > IntervalMax THEN IntervalMax ELSE ms

FrameDone == td = 1

BugFinishFrameIfDone ==   \* the timer is not stopped
  IF frameActive = 1 /\ FrameDone
  THEN /\ td' = 0 /\ frameActive' = 0 /\ firstFrame' = 0
       /\ dout' = "idle"
       /\ UNCHANGED timerRun
  ELSE UNCHANGED <<timerRun, td, frameActive, firstFrame, dout>>
FinishFrameIfDone ==
  IF frameActive = 1 /\ FrameDone
  THEN /\ timerRun' = 0 /\ td' = 0
       /\ frameActive' = 0 /\ firstFrame' = 0
       /\ dout' = "idle"
  ELSE UNCHANGED <<timerRun, td, frameActive, firstFrame, dout>>

StopFrame ==
  /\ timerRun' = 0 /\ td' = 0
  /\ frameActive' = 0
  /\ dout' = "idle"

(* The rest of StartFrame, once no frame is active.                        *)
LaunchFrame ==
  /\ waveform' = [slots |-> slotCount, data |-> data, first |-> firstFrame]
  /\ pos' = 0 /\ td' = 0 /\ timerRun' = 1
  /\ datmsk' = "open" /\ dout' = "idle"
  /\ frameActive' = 1

Off ==
  /\ StopFrame
  /\ enabled' = 0 /\ periodic' = 0 /\ firstFrame' = 1
  /\ datmsk' = "saved"

-----------------------------------------------------------------------------
(* The hardware.                                                           *)

(* Half a clock: the PDMA writes one word of the waveform to the pins.  It *)
(* leaves them idle after the last, and reports the transfer done.         *)
TransferWord ==
  /\ timerRun = 1 /\ td = 0
  /\ pos' = pos + 1
  /\ dout' = IF pos + 1 = FrameLen THEN "idle" ELSE "word"
  /\ td' = IF pos + 1 = FrameLen THEN 1 ELSE 0
  /\ UNCHANGED <<initialized, enabled, firstFrame, frameActive, lastTick,
                 settings, waveform, timerRun, datmsk, tick, pc, enable, lag>>

(* A millisecond.  MaxLag keeps the loop from being overtaken by the wrap  *)
(* of the tick.                                                            *)
Tick ==
  /\ lag < MaxLag
  /\ lag' = lag + 1
  /\ tick' = (tick + 1) % TickMod
  /\ UNCHANGED <<initialized, enabled, firstFrame, frameActive, lastTick,
                 settings, hardware, pc, enable>>

-----------------------------------------------------------------------------
(* The commands.                                                           *)

CallProcess ==
  /\ pc = "loop"
  /\ pc' = "process"
  /\ UNCHANGED <<initialized, enabled, firstFrame, frameActive, lastTick,
                 settings, hardware, tick, enable, lag>>

Config(n) ==
  /\ pc = "loop"
  /\ slotCount' = n
  /\ initialized' = 1
  /\ pc' = "process"
  /\ UNCHANGED <<enabled, firstFrame, frameActive, lastTick, data, interval,
                 periodic, hardware, tick, enable, lag>>

BugApply(on, again, ms, d) ==   \* new masks go straight into the waveform
  /\ pc = "loop"
  /\ initialized' = 1
  /\ FinishFrameIfDone
  /\ periodic' = again /\ interval' = ClampInterval(ms) /\ data' = d
  /\ waveform' = [waveform EXCEPT !.data = d]
  /\ lastTick' = tick
  /\ enable' = on
  /\ pc' = "apply"
  /\ UNCHANGED <<enabled, slotCount, pos, datmsk, tick, lag>>
(* Apply takes the settings over before it looks at the frame under way.   *)
Apply(on, again, ms, d) ==
  /\ pc = "loop"
  /\ initialized' = 1
  /\ FinishFrameIfDone
  /\ periodic' = again /\ interval' = ClampInterval(ms) /\ data' = d
  /\ lastTick' = tick
  /\ enable' = on
  /\ pc' = "apply"
  /\ UNCHANGED <<enabled, slotCount, waveform, pos, datmsk, tick, lag>>

ApplyOff ==
  /\ pc = "apply" /\ enable = 0
  /\ Off
  /\ pc' = "process"
  /\ UNCHANGED <<initialized, lastTick, slotCount, data, interval, waveform,
                 pos, tick, enable, lag>>

ApplyStop ==
  /\ pc = "apply" /\ enable = 1
  /\ IF frameActive = 1 THEN StopFrame
     ELSE UNCHANGED <<timerRun, td, frameActive, dout>>
  /\ enabled' = 1
  /\ pc' = "start"
  /\ UNCHANGED <<initialized, firstFrame, lastTick, settings, waveform, pos,
                 datmsk, tick, enable, lag>>

(* Apply answers NOT_READY, and is off, if the frame cannot be started.    *)
ApplyStart ==
  /\ pc = "start"
  /\ IF frameActive = 1
     THEN enabled' = 0 /\ UNCHANGED <<frameActive, hardware, lastTick>>
     ELSE LaunchFrame /\ lastTick' = tick /\ UNCHANGED enabled
  /\ pc' = "process"
  /\ UNCHANGED <<initialized, firstFrame, settings, tick, enable, lag>>

SgpioOff ==
  /\ pc = "loop"
  /\ initialized' = 1
  /\ Off
  /\ pc' = "process"
  /\ UNCHANGED <<lastTick, slotCount, data, interval, waveform, pos, tick,
                 enable, lag>>

GetStatus ==
  /\ pc = "loop"
  /\ initialized' = 1
  /\ FinishFrameIfDone
  /\ pc' = "process"
  /\ UNCHANGED <<enabled, lastTick, settings, waveform, pos, datmsk, tick,
                 enable, lag>>

-----------------------------------------------------------------------------
(* Process, in two steps: a frame may end between them, and is then put    *)
(* away in the next turn.                                                  *)

BugDue == tick = (lastTick + interval) % TickMod
Due == (tick + TickMod - lastTick) % TickMod >= interval

Finish ==
  /\ pc = "process"
  /\ FinishFrameIfDone
  /\ pc' = "due"
  /\ UNCHANGED <<initialized, enabled, lastTick, settings, waveform, pos,
                 datmsk, tick, enable, lag>>

SendNext ==
  /\ pc = "due"
  /\ lag' = 0
  /\ IF enabled = 1 /\ periodic = 1 /\ frameActive = 0 /\ Due
     THEN LaunchFrame /\ lastTick' = tick
     ELSE UNCHANGED <<frameActive, hardware, lastTick>>
  /\ pc' = "loop"
  /\ UNCHANGED <<initialized, enabled, firstFrame, settings, tick, enable>>

-----------------------------------------------------------------------------
Loop ==
  \/ CallProcess
  \/ \E n \in Slots : Config(n)
  \/ \E on, again \in {0, 1}, ms \in Requested, d \in Data : Apply(on, again, ms, d)
  \/ ApplyOff \/ ApplyStop \/ ApplyStart
  \/ SgpioOff \/ GetStatus
  \/ Finish \/ SendNext

Next == Loop \/ TransferWord \/ Tick

Spec == Init /\ [][Next]_vars

(* The super-loop never blocks, time passes, and a running timer feeds the *)
(* PDMA.                                                                   *)
FairSpec == Spec /\ WF_vars(Loop) /\ WF_vars(Tick) /\ WF_vars(TransferWord)

-----------------------------------------------------------------------------
(* Properties.                                                             *)

(* Every variable stays in its range: the clamps of Config and Apply, the  *)
(* wrap of the tick, and never more words than the frame has.              *)
TypeOK ==
  /\ initialized \in {0, 1} /\ enabled \in {0, 1} /\ periodic \in {0, 1}
  /\ firstFrame \in {0, 1} /\ frameActive \in {0, 1}
  /\ slotCount \in Slots /\ data \in Data
  /\ lastTick \in 0 .. TickMod - 1 /\ tick \in 0 .. TickMod - 1
  /\ interval \in IntervalMin .. IntervalMax
  /\ waveform \in Content /\ pos \in 0 .. FrameLen
  /\ timerRun \in {0, 1} /\ td \in {0, 1}
  /\ dout \in {"idle", "word"} /\ datmsk \in {"saved", "open"}
  /\ pc \in Pcs /\ enable \in {0, 1} /\ lag \in 0 .. MaxLag

(* Between frames the timer is stopped and the pins are idle (SLOAD high); *)
(* when the output is off no frame is under way, the pins are released and *)
(* the next frame will be a first one.                                     *)
IdleLine ==
  /\ frameActive = 0 => timerRun = 0 /\ td = 0 /\ dout = "idle"
  /\ enabled = 0 =>
       frameActive = 0 /\ datmsk = "saved" /\ firstFrame = 1

(* The generator is an SgpioSource: a frame is sent as it was started      *)
(* although settings change under it, frames never overlap, and L0 is held *)
(* low until a whole frame is out.                                         *)
Source == INSTANCE SgpioSource WITH
  on <- enabled, busy <- frameActive, content <- waveform, sent <- pos,
  whole <- 1 - firstFrame
SourceSpec == Source!Spec

(* Periodic output never stops by itself, across the wrap of the tick: the *)
(* next frame starts, or the host changes its mind.                        *)
KeepsSending ==
  enabled = 1 /\ periodic = 1 /\ frameActive = 0 ~>
    frameActive = 1 \/ enabled = 0 \/ periodic = 0

-----------------------------------------------------------------------------
(* The inductive invariant: an active frame is one the timer is sending.   *)
OutputInv ==
  /\ IdleLine
  /\ frameActive = 1 => timerRun = 1
  /\ td = 1 <=> frameActive = 1 /\ pos = FrameLen
  /\ pc = "start" => frameActive = 0 /\ enabled = 1
  /\ frameActive = 1 => enabled = 1
=============================================================================
