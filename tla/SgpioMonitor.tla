---------------------------- MODULE SgpioMonitor ----------------------------
(***************************************************************************)
(* The capture of an external SGPIO source (m031_bridge_sgpio_monitor.c):  *)
(* a falling edge on SLOAD interrupts and starts a timer, the timer feeds  *)
(* the PDMA one sample of the pins at a time, and the super-loop polls for *)
(* the end of the transfer, or for one of two timeouts, and decodes.       *)
(*                                                                         *)
(* Three actors: the super-loop (commands from the dispatcher, then        *)
(* Process), the SLOAD interrupt, and the hardware (tick, timer, PDMA).    *)
(* The loop is cut wherever an edge, a sample or a tick in between can be  *)
(* told apart; the interrupt handler is atomic.                            *)
(***************************************************************************)
EXTENDS Naturals, FiniteSets

CONSTANTS
  SampleMax,        \* M031_SGPIO_MONITOR_SAMPLE_MAX (2304)
  CaptureTimeout,   \* M031_SGPIO_MONITOR_CAPTURE_TIMEOUT_MS (10)
  DefaultTimeout,   \* M031_SGPIO_MONITOR_TRIGGER_TIMEOUT_MS (3000)
  TimeoutMin,       \* the clamps of Config (100 and 30000)
  TimeoutMax,
  Requested,        \* trigger timeouts a host asks for
  TickMod,          \* get_tick() counts modulo this (2^32)
  MaxLag            \* bound: ticks between two turns of the loop

ASSUME MonitorAssumption ==
  /\ SampleMax \in Nat /\ SampleMax >= 2
  /\ TimeoutMin \in Nat /\ TimeoutMax \in Nat /\ TimeoutMin <= TimeoutMax
  /\ DefaultTimeout \in TimeoutMin .. TimeoutMax
  /\ CaptureTimeout \in 1 .. TimeoutMax
  /\ MaxLag \in Nat \ {0}
  /\ TickMod \in Nat /\ TimeoutMax + 2 * MaxLag < TickMod
  /\ Requested \subseteq Nat

States == {"IDLE", "ARMED", "CAPTURING", "COMPLETE", "TIMEOUT", "ERROR"}
Errors == {"NO_TRIGGER", "NO_CLOCK", "CLOCK_RANGE", "SYNC", "INCOMPLETE",
           "CAPTURE_TIMEOUT"}

(* A result, as far as it can be wrong: decoded says whether its counts    *)
(* and masks are those of a capture or zero.                               *)
Result == [state : States, errors : SUBSET Errors, decoded : {0, 1}]

VARIABLES
  \* g_sgpio_monitor
  initialized, state, timeout, armTick, captureTick, result,
  \* the SLOAD interrupt, TIMER2 and the PDMA channel
  intEn,        \* falling edges interrupt
  timerRun,     \* the timer counts
  trigger,      \* its timeouts are routed to the PDMA
  pdma,         \* the channel: "off", "ready" or "done"
  td,           \* its transfer-done flag
  samples,      \* samples written since it was last opened
  tick,         \* get_tick()
  \* the loop: where it is, and its locals
  pc,
  caller,       \* who called Process: "loop" or "status"
  count,        \* sample_count, the argument of Decode
  late,         \* Decode was called because the capture timed out
  report,       \* the caller's status buffer in GetStatus
  \* bound and history
  lag,          \* ticks since the loop's last turn
  waited,       \* real time since the arming, up to TimeoutMax
  triggeredAt   \* what waited was when the edge was taken; TimeoutMax + 1: not yet

monitor == <<initialized, state, timeout, armTick, captureTick, result>>
capture == <<timerRun, trigger, pdma, td, samples>>
locals  == <<count, late>>
history == <<waited, triggeredAt>>
vars    == <<monitor, intEn, capture, tick, pc, caller, locals, report, lag,
             history>>

(* Where the loop is, with the line it runs next.                          *)
Pcs == {"loop",      \* between two calls: a command, or on to Process
        "prepare",   \* 578  PrepareHardware
        "enable",    \* 579  stamp the arming, enable the interrupt
        "unroute",   \* 95   no trigger target
        "disable",   \* 97   disable the interrupt, reset the PDMA, IDLE
        "process",   \* 614  Process: which state?
        "elapsed",   \* 621  has the trigger timed out?
        "expire",    \* 624  it has
        "done",      \* 637  transfer done?
        "overdue",   \* 646  has the capture timed out?
        "decode",    \* 642, 652  Decode
        "copy",      \* 603  GetStatus: copy the result
        "override",  \* 604  GetStatus: the state as it is now
        "reply"}     \* 606  GetStatus returns report

NotYet == TimeoutMax + 1
Never(st) == [state |-> st, errors |-> {}, decoded |-> 0]

Init ==
  /\ initialized = 0 /\ state = "IDLE" /\ timeout = DefaultTimeout
  /\ armTick = 0 /\ captureTick = 0
  /\ result = Never("IDLE")
  /\ intEn = 0 /\ timerRun = 0 /\ trigger = 0
  /\ pdma = "off" /\ td = 0 /\ samples = 0
  /\ tick \in 0 .. TickMod - 1
  /\ pc = "loop" /\ caller = "loop" /\ count = 0 /\ late = 0
  /\ report = Never("IDLE")
  /\ lag = 0 /\ waited = 0 /\ triggeredAt = NotYet

-----------------------------------------------------------------------------
(* Helpers.  A definition named Bug... is the one after it with a          *)
(* plausible mistake; no specification uses it.                            *)

(* ClearResult, for the state the monitor is entering.                     *)
BugClearResult(st) == [result EXCEPT !.state = st, !.decoded = 0]
ClearResult(st) == Never(st)

(* get_tick() - start >= limit, in unsigned arithmetic.                    *)
BugElapsed(start, limit) == tick >= (start + limit) % TickMod
Elapsed(start, limit) == (tick + TickMod - start) % TickMod >= limit

Busy == state \in {"ARMED", "CAPTURING"}

Clamp(ms) == IF ms < TimeoutMin THEN TimeoutMin
             ELSE IF ms > TimeoutMax THEN TimeoutMax ELSE ms

(* The timer's timeouts reach a channel that still has room.               *)
Feeding == timerRun = 1 /\ trigger = 1 /\ pdma = "ready"

(* What PrepareHardware leaves: StopHardware, then the channel opened for  *)
(* SampleMax samples and the timer's timeouts routed to it.                *)
BugPrepareHardware ==   \* the transfer-done flag is not cleared
  /\ intEn' = 0 /\ timerRun' = 0
  /\ pdma' = "ready" /\ samples' = 0
  /\ trigger' = 1
  /\ UNCHANGED td
PrepareHardware ==
  /\ intEn' = 0 /\ timerRun' = 0 /\ td' = 0
  /\ pdma' = "ready" /\ samples' = 0
  /\ trigger' = 1

(* TransferredCount: the channel's count-down register, or SampleMax once  *)
(* the channel has stopped.                                                *)
TransferredCount == IF pdma = "ready" THEN samples ELSE SampleMax

-----------------------------------------------------------------------------
(* The interrupt and the hardware.                                         *)

(* A falling edge on SLOAD with the interrupt enabled: the handler calls   *)
(* StartCapture, which returns at once unless the monitor is armed.        *)
StartCapture ==
  /\ intEn = 1 /\ state = "ARMED"
  /\ intEn' = 0
  /\ captureTick' = tick
  /\ state' = "CAPTURING" /\ result' = [result EXCEPT !.state = "CAPTURING"]
  /\ timerRun' = 1
  /\ triggeredAt' = waited
  /\ UNCHANGED <<initialized, timeout, armTick, trigger, pdma, td, samples,
                 tick, pc, caller, locals, report, lag, waited>>

(* One timer period: the PDMA stores a sample; the last one ends it.       *)
Sample ==
  /\ Feeding
  /\ samples' = samples + 1
  /\ IF samples + 1 = SampleMax THEN pdma' = "done" /\ td' = 1
     ELSE UNCHANGED <<pdma, td>>
  /\ UNCHANGED <<monitor, intEn, timerRun, trigger, tick, pc, caller, locals,
                 report, lag, history>>

(* A millisecond.  MaxLag keeps the loop from being overtaken by the wrap  *)
(* of the tick.                                                            *)
Tick ==
  /\ lag < MaxLag
  /\ lag' = lag + 1
  /\ tick' = (tick + 1) % TickMod
  /\ waited' = IF waited < TimeoutMax THEN waited + 1 ELSE waited
  /\ UNCHANGED <<monitor, intEn, capture, pc, caller, locals, report,
                 triggeredAt>>

-----------------------------------------------------------------------------
(* The commands.                                                           *)

(* No command this turn: the loop calls Process.                           *)
CallProcess ==
  /\ pc = "loop"
  /\ pc' = "process" /\ caller' = "loop"
  /\ UNCHANGED <<monitor, intEn, capture, tick, locals, report, lag, history>>

(* Config with a valid slot count (any other returns before it touches     *)
(* anything).                                                              *)
Config(ms) ==
  /\ pc = "loop"
  /\ initialized' = 1
  /\ IF Busy THEN UNCHANGED <<timeout, state, result>>
     ELSE /\ timeout' = Clamp(ms)
          /\ state' = "IDLE" /\ result' = ClearResult("IDLE")
  /\ pc' = "process" /\ caller' = "loop"
  /\ UNCHANGED <<armTick, captureTick, intEn, capture, tick, locals, report,
                 lag, history>>

ArmRefused ==
  /\ pc = "loop" /\ Busy
  /\ initialized' = 1
  /\ pc' = "process" /\ caller' = "loop"
  /\ UNCHANGED <<state, timeout, armTick, captureTick, result, intEn, capture,
                 tick, locals, report, lag, history>>

ArmStart ==
  /\ pc = "loop" /\ ~Busy
  /\ initialized' = 1
  /\ state' = "ARMED" /\ result' = ClearResult("ARMED")
  /\ pc' = "prepare"
  /\ UNCHANGED <<timeout, armTick, captureTick, intEn, capture, tick, caller,
                 locals, report, lag, history>>

ArmPrepare ==
  /\ pc = "prepare"
  /\ PrepareHardware
  /\ pc' = "enable"
  /\ UNCHANGED <<monitor, tick, caller, locals, report, lag, history>>

ArmEnable ==
  /\ pc = "enable"
  /\ armTick' = tick
  /\ intEn' = 1
  /\ waited' = 0 /\ triggeredAt' = NotYet
  /\ pc' = "process" /\ caller' = "loop"
  /\ UNCHANGED <<initialized, state, timeout, captureTick, result, capture,
                 tick, locals, report, lag>>

(* Stop is StopHardware with the interrupt possibly enabled on the way.    *)
StopTimer ==
  /\ pc = "loop"
  /\ initialized' = 1
  /\ timerRun' = 0
  /\ pc' = "unroute"
  /\ UNCHANGED <<state, timeout, armTick, captureTick, result, intEn, trigger,
                 pdma, td, samples, tick, caller, locals, report, lag, history>>

StopRouting ==
  /\ pc = "unroute"
  /\ trigger' = 0
  /\ pc' = "disable"
  /\ UNCHANGED <<monitor, intEn, timerRun, pdma, td, samples, tick, caller,
                 locals, report, lag, history>>

BugStopRest ==      \* the interrupt is left enabled
  /\ pc = "disable"
  /\ pdma' = "off" /\ td' = 0
  /\ state' = "IDLE" /\ result' = ClearResult("IDLE")
  /\ pc' = "process" /\ caller' = "loop"
  /\ UNCHANGED <<initialized, timeout, armTick, captureTick, intEn, timerRun,
                 trigger, samples, tick, locals, report, lag, history>>
StopRest ==
  /\ pc = "disable"
  /\ intEn' = 0
  /\ pdma' = "off" /\ td' = 0
  /\ state' = "IDLE" /\ result' = ClearResult("IDLE")
  /\ pc' = "process" /\ caller' = "loop"
  /\ UNCHANGED <<initialized, timeout, armTick, captureTick, timerRun, trigger,
                 samples, tick, locals, report, lag, history>>

GetStatus ==
  /\ pc = "loop"
  /\ initialized' = 1
  /\ pc' = "process" /\ caller' = "status"
  /\ UNCHANGED <<state, timeout, armTick, captureTick, result, intEn, capture,
                 tick, locals, report, lag, history>>

CopyResult ==
  /\ pc = "copy"
  /\ report' = result
  /\ pc' = "override"
  /\ UNCHANGED <<monitor, intEn, capture, tick, caller, locals, lag, history>>

OverrideState ==
  /\ pc = "override"
  /\ report' = [report EXCEPT !.state = state]
  /\ pc' = "reply"
  /\ UNCHANGED <<monitor, intEn, capture, tick, caller, locals, lag, history>>

Reply ==
  /\ pc = "reply"
  /\ report' = Never("IDLE")          \* the buffer was on the caller's stack
  /\ pc' = "process" /\ caller' = "loop"
  /\ UNCHANGED <<monitor, intEn, capture, tick, locals, lag, history>>

-----------------------------------------------------------------------------
(* Process.                                                                *)

Returned == IF caller = "status" THEN "copy" ELSE "loop"

BugCheckState ==     \* only a status request lets an armed monitor time out
  /\ pc = "process"
  /\ pc' = IF initialized = 1 /\ state = "ARMED" /\ caller = "status" THEN "elapsed"
           ELSE IF initialized = 1 /\ state = "CAPTURING" THEN "done"
           ELSE Returned
  /\ lag' = 0
  /\ UNCHANGED <<monitor, intEn, capture, tick, caller, locals, report, history>>
CheckState ==
  /\ pc = "process"
  /\ pc' = IF initialized = 1 /\ state = "ARMED" THEN "elapsed"
           ELSE IF initialized = 1 /\ state = "CAPTURING" THEN "done"
           ELSE Returned
  /\ lag' = 0
  /\ UNCHANGED <<monitor, intEn, capture, tick, caller, locals, report, history>>

CheckElapsed ==
  /\ pc = "elapsed"
  /\ pc' = IF Elapsed(armTick, timeout) THEN "expire" ELSE Returned
  /\ UNCHANGED <<monitor, intEn, capture, tick, caller, locals, report, lag,
                 history>>

(* The monitor gives up, whatever its state has become in between.         *)
Expire ==
  /\ pc = "expire"
  /\ intEn' = 0
  /\ state' = "TIMEOUT"
  /\ result' = [result EXCEPT !.state = "TIMEOUT", !.errors = {"NO_TRIGGER"}]
  /\ pc' = Returned
  /\ UNCHANGED <<initialized, timeout, armTick, captureTick, capture, tick,
                 caller, locals, report, lag, history>>

CheckDone ==
  /\ pc = "done"
  /\ IF td = 1
     THEN /\ timerRun' = 0 /\ trigger' = 0 /\ td' = 0
          /\ count' = SampleMax /\ late' = 0
          /\ pc' = "decode"
     ELSE /\ pc' = "overdue"
          /\ UNCHANGED <<timerRun, trigger, td, locals>>
  /\ UNCHANGED <<monitor, intEn, pdma, samples, tick, caller, report, lag,
                 history>>

CheckOverdue ==
  /\ pc = "overdue"
  /\ IF Elapsed(captureTick, CaptureTimeout)
     THEN /\ timerRun' = 0 /\ trigger' = 0
          /\ count' = TransferredCount /\ late' = 1
          /\ pc' = "decode"
     ELSE /\ pc' = Returned
          /\ UNCHANGED <<timerRun, trigger, locals>>
  /\ UNCHANGED <<monitor, intEn, pdma, td, samples, tick, caller, report, lag,
                 history>>

(* What Decode may find in n samples; what they hold is the source's       *)
(* business.  Without a sync pattern it stops early, with an error.        *)
Decodings(n) ==
  IF n < 2 THEN {[errors |-> {"NO_CLOCK"}, state |-> "ERROR"]}
  ELSE {[errors |-> e,
         state |-> IF e \cap {"NO_CLOCK", "INCOMPLETE"} # {} THEN "ERROR"
                   ELSE "COMPLETE"] :
          e \in {f \in SUBSET {"NO_CLOCK", "CLOCK_RANGE", "SYNC", "INCOMPLETE"} :
                   ~({"NO_CLOCK", "CLOCK_RANGE"} \subseteq f)}}
       \cup {[errors |-> e \cup {"SYNC"}, state |-> "ERROR"] :
               e \in {{}, {"NO_CLOCK"}, {"CLOCK_RANGE"}}}

Decode ==
  /\ pc = "decode"
  /\ \E d \in Decodings(count) :
       LET final == IF late = 1 THEN "ERROR" ELSE d.state
           errors == IF late = 1 THEN d.errors \cup {"CAPTURE_TIMEOUT"} ELSE d.errors
       IN  /\ state' = final
           /\ result' = [state |-> final, errors |-> errors, decoded |-> 1]
  /\ count' = 0 /\ late' = 0          \* out of scope
  /\ pc' = Returned
  /\ UNCHANGED <<initialized, timeout, armTick, captureTick, intEn, capture,
                 tick, caller, report, lag, history>>

-----------------------------------------------------------------------------
Loop ==
  \/ CallProcess \/ \E ms \in Requested : Config(ms)
  \/ ArmRefused \/ ArmStart \/ ArmPrepare \/ ArmEnable
  \/ StopTimer \/ StopRouting \/ StopRest
  \/ GetStatus \/ CopyResult \/ OverrideState \/ Reply
  \/ CheckState \/ CheckElapsed \/ Expire \/ CheckDone \/ CheckOverdue \/ Decode

Next == Loop \/ StartCapture \/ Sample \/ Tick

Spec == Init /\ [][Next]_vars

(* The super-loop never blocks and time passes; neither the source nor the *)
(* PDMA owes anything.                                                     *)
FairSpec == Spec /\ WF_vars(Loop) /\ WF_vars(Tick)

-----------------------------------------------------------------------------
(* Properties.                                                             *)

(* Every variable stays in its range: the clamps of Config, the wrap of    *)
(* the tick, and never more samples than the buffer holds.                 *)
TypeOK ==
  /\ initialized \in {0, 1} /\ state \in States
  /\ timeout \in TimeoutMin .. TimeoutMax
  /\ armTick \in 0 .. TickMod - 1 /\ captureTick \in 0 .. TickMod - 1
  /\ result \in Result /\ report \in Result
  /\ intEn \in {0, 1} /\ timerRun \in {0, 1} /\ trigger \in {0, 1}
  /\ pdma \in {"off", "ready", "done"} /\ td \in {0, 1}
  /\ samples \in 0 .. SampleMax
  /\ tick \in 0 .. TickMod - 1
  /\ pc \in Pcs /\ caller \in {"loop", "status"}
  /\ count \in 0 .. SampleMax /\ late \in {0, 1}
  /\ lag \in 0 .. MaxLag
  /\ waited \in 0 .. TimeoutMax /\ triggeredAt \in 0 .. NotYet

(* Whenever an edge can be taken, the monitor is armed and the capture it  *)
(* starts begins clean: the channel open and empty, no stale transfer-done *)
(* flag, the timer still and, unless Stop is under way, routed to the PDMA.*)
CleanArm ==
  intEn = 1 =>
    /\ state = "ARMED" /\ pdma = "ready" /\ samples = 0 /\ td = 0
    /\ timerRun = 0
    /\ trigger = 1 \/ pc = "disable"

(* Decode has the sample buffer to itself, and is given exactly the number *)
(* of samples captured since the arming.                                   *)
DecodeAlone == pc = "decode" => ~Feeding /\ count = samples

(* Error flags and decoded data agree with the state they come with.       *)
Coherent(r) ==
  /\ r.state \in {"IDLE", "ARMED", "CAPTURING"} => r.errors = {} /\ r.decoded = 0
  /\ r.state = "TIMEOUT" => r.errors = {"NO_TRIGGER"} /\ r.decoded = 0
  /\ r.state = "COMPLETE" =>
       r.decoded = 1 /\ r.errors \cap {"NO_TRIGGER", "NO_CLOCK", "INCOMPLETE",
                                       "CAPTURE_TIMEOUT"} = {}
  /\ r.state = "ERROR" => r.decoded = 1 /\ r.errors # {} /\ "NO_TRIGGER" \notin r.errors

(* A status report is coherent even when an edge arrives between the copy  *)
(* of the result and the reading of the state: no result of an earlier     *)
(* capture, no error of one, is reported with a newer state.               *)
ReportCoherent == pc = "reply" => Coherent(report)

(* No capture is given up before its time, across the wrap of the tick.    *)
TimeoutIsDue == pc = "expire" \/ state = "TIMEOUT" => waited >= timeout
-----------------------------------------------------------------------------
(* The inductive invariant: how the interrupt, the timer and the PDMA are  *)
(* wired in each state, what the result holds, and that waited is what the *)
(* tick has counted since the arming.                                      *)

WiringInv ==
  /\ pc \in {"prepare", "enable"} => state = "ARMED" /\ intEn = 0
  /\ pc = "enable" =>
       timerRun = 0 /\ trigger = 1 /\ pdma = "ready" /\ samples = 0 /\ td = 0
  /\ pc = "disable" => trigger = 0
  /\ pc \in {"elapsed", "expire"} => Busy
  /\ pc \in {"done", "overdue", "decode"} => state = "CAPTURING"
  /\ pc = "decode" => trigger = 0 /\ count = samples
  /\ state = "CAPTURING" => pdma # "off"
  /\ td = 1 => pdma = "done"
  /\ pdma = "done" => samples = SampleMax
  /\ pdma = "ready" => samples < SampleMax

ResultInv ==
  /\ Coherent([result EXCEPT !.state = state])
  /\ pc = "override" => report.errors = result.errors /\ report.decoded = result.decoded

ClockInv ==
  (state = "ARMED" /\ pc \notin {"prepare", "enable"}) \/ pc = "elapsed" =>
    waited = TimeoutMax \/ tick = (armTick + waited) % TickMod

MonitorInv ==
  /\ CleanArm /\ DecodeAlone /\ ReportCoherent /\ TimeoutIsDue
  /\ WiringInv /\ ResultInv /\ ClockInv

(* An armed monitor never waits for ever, whatever the source, the PDMA    *)
(* and the host do.                                                        *)
Settles == Busy ~> ~Busy

(* README: "A Timeout with No trigger means no SLOAD falling edge arrived  *)
(* before the configured timeout."                                         *)
NoTriggerMeansNoEdge == state = "TIMEOUT" => triggeredAt >= timeout
=============================================================================
