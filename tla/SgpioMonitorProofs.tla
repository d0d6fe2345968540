------------------------- MODULE SgpioMonitorProofs -------------------------
(* What SgpioMonitor promises for every buffer size, timeout, tick width   *)
(* and pace of the loop.                                                   *)
EXTENDS SgpioMonitor, TLAPS

(* A sum of two residues is reduced by at most one modulus.                *)
LEMMA Wrap ==
  ASSUME NEW m \in Nat, m > 0, NEW x \in Nat, x < 2 * m
  PROVE  x % m = IF x < m THEN x ELSE x - m
<1>1. CASE x < m
  BY <1>1, SMT
<1>2. CASE x >= m
  <2>1. x - m \in 0 .. m - 1
    BY <1>2, SMT
  <2>2. x = m * 1 + (x - m)
    OBVIOUS
  <2> QED BY <1>2, <2>1, <2>2, SMT
<1> QED BY <1>1, <1>2, SMT

(* The wrapping difference of two ticks is the time between them, as long  *)
(* as that is shorter than a turn of the tick.                             *)
LEMMA Difference ==
  ASSUME NEW m \in Nat, m > 0, NEW a \in 0 .. m - 1, NEW w \in 0 .. m - 1,
         NEW t, t = (a + w) % m
  PROVE  (t + m - a) % m = w
<1>1. t = IF a + w < m THEN a + w ELSE a + w - m
  BY Wrap, SMT
<1>2. t \in 0 .. m - 1 /\ t + m - a \in Nat /\ t + m - a < 2 * m
  BY <1>1, SMT
<1>3. (t + m - a) % m = IF t + m - a < m THEN t + m - a ELSE t + m - a - m
  BY <1>2, Wrap, SMT
<1> QED BY <1>1, <1>2, <1>3, SMT

(* Ticking commutes with the wrap.                                         *)
LEMMA Advance ==
  ASSUME NEW m \in Nat, m > 0, NEW a \in 0 .. m - 1, NEW w \in 0 .. m - 1,
         w + 1 < m
  PROVE  (((a + w) % m) + 1) % m = (a + (w + 1)) % m
<1>1. (a + w) % m = IF a + w < m THEN a + w ELSE a + w - m
  BY Wrap, SMT
<1>2. (a + (w + 1)) % m = IF a + (w + 1) < m THEN a + (w + 1) ELSE a + (w + 1) - m
  BY Wrap, SMT
<1> DEFINE t == (a + w) % m
<1>3. t \in 0 .. m - 1 /\ (t + 1) % m = IF t + 1 < m THEN t + 1 ELSE t + 1 - m
  <2>1. t \in 0 .. m - 1
    BY <1>1, SMT
  <2> HIDE DEF t
  <2> QED BY <2>1, Wrap, SMT
<1>4. t = IF a + w < m THEN a + w ELSE a + w - m
  BY <1>1
<1> HIDE DEF t
<1>5. (t + 1) % m = (a + (w + 1)) % m
  BY <1>2, <1>3, <1>4, SMT
<1> QED BY <1>5 DEF t
-----------------------------------------------------------------------------
(* A cleared result is a result.                                           *)
LEMMA NeverType == ASSUME NEW st \in States PROVE Never(st) \in Result
  BY DEF Never, Result

(* What Decode reports of a capture: states and flags of the protocol, an  *)
(* error exactly with a flag that says why, and no flag of a timeout.      *)
LEMMA DecodingsType ==
  ASSUME NEW n, NEW d \in Decodings(n)
  PROVE  /\ d.state \in States /\ d.errors \in SUBSET Errors
         /\ d.state \in {"COMPLETE", "ERROR"}
         /\ d.state = "COMPLETE" => d.errors \cap {"NO_CLOCK", "INCOMPLETE"} = {}
         /\ d.state = "ERROR" => d.errors # {}
         /\ d.errors \cap {"NO_TRIGGER", "CAPTURE_TIMEOUT"} = {}
<1>1. CASE n < 2
  BY <1>1 DEF Decodings, States, Errors
<1>2. CASE ~(n < 2)
  <2> DEFINE All == {f \in SUBSET {"NO_CLOCK", "CLOCK_RANGE", "SYNC", "INCOMPLETE"} :
                       ~({"NO_CLOCK", "CLOCK_RANGE"} \subseteq f)}
  <2>1. ASSUME NEW e \in All,
               d = [errors |-> e,
                    state |-> IF e \cap {"NO_CLOCK", "INCOMPLETE"} # {} THEN "ERROR"
                              ELSE "COMPLETE"]
        PROVE  /\ d.state \in States /\ d.errors \in SUBSET Errors
               /\ d.state \in {"COMPLETE", "ERROR"}
               /\ d.state = "COMPLETE" => d.errors \cap {"NO_CLOCK", "INCOMPLETE"} = {}
               /\ d.state = "ERROR" => d.errors # {}
               /\ d.errors \cap {"NO_TRIGGER", "CAPTURE_TIMEOUT"} = {}
    BY <2>1 DEF States, Errors
  <2>2. ASSUME NEW e \in {{}, {"NO_CLOCK"}, {"CLOCK_RANGE"}},
               d = [errors |-> e \cup {"SYNC"}, state |-> "ERROR"]
        PROVE  /\ d.state \in States /\ d.errors \in SUBSET Errors
               /\ d.state = "ERROR" /\ d.errors # {}
               /\ d.errors \cap {"NO_TRIGGER", "CAPTURE_TIMEOUT"} = {}
    BY <2>2 DEF States, Errors
  <2>3. \/ \E e \in All : d = [errors |-> e,
                                state |-> IF e \cap {"NO_CLOCK", "INCOMPLETE"} # {}
                                          THEN "ERROR" ELSE "COMPLETE"]
        \/ \E e \in {{}, {"NO_CLOCK"}, {"CLOCK_RANGE"}} :
             d = [errors |-> e \cup {"SYNC"}, state |-> "ERROR"]
    BY <1>2 DEF Decodings
  <2> HIDE DEF All
  <2> QED
    BY <2>1, <2>2, <2>3
<1> QED
  BY <1>1, <1>2

(* The initial state has every variable in its range.                      *)
LEMMA InitTypeOK == Init => TypeOK
<1> SUFFICES ASSUME Init PROVE TypeOK
  OBVIOUS
<1>1. Never("IDLE") \in Result
  BY NeverType DEF States
<1> QED
  BY <1>1, MonitorAssumption DEF Init, TypeOK, Pcs, NotYet, States

(* Every step keeps the variables in their ranges: a sample lands inside   *)
(* the buffer because a channel that is ready still has room.              *)
LEMMA NextTypeOK == TypeOK /\ MonitorInv /\ [Next]_vars => TypeOK'
<1> SUFFICES ASSUME TypeOK, MonitorInv, [Next]_vars PROVE TypeOK'
  OBVIOUS
<1> USE MonitorAssumption DEF TypeOK, monitor, capture, locals, history
<1>1. CASE CallProcess
  BY <1>1 DEF CallProcess, Pcs
<1>2. ASSUME NEW ms \in Requested, Config(ms) PROVE TypeOK'
  <2>1. Clamp(ms) \in TimeoutMin .. TimeoutMax
    BY DEF Clamp
  <2>2. ClearResult("IDLE") \in Result
    BY NeverType DEF ClearResult, States
  <2> QED
    BY <1>2, <2>1, <2>2 DEF Config, Pcs, States
<1>3. CASE ArmRefused
  BY <1>3 DEF ArmRefused, Pcs
<1>4. CASE ArmStart
  <2>1. ClearResult("ARMED") \in Result
    BY NeverType DEF ClearResult, States
  <2> QED
    BY <1>4, <2>1 DEF ArmStart, Pcs, States
<1>5. CASE ArmPrepare
  BY <1>5 DEF ArmPrepare, PrepareHardware, Pcs
<1>6. CASE ArmEnable
  BY <1>6 DEF ArmEnable, NotYet, Pcs
<1>7. CASE StopTimer
  BY <1>7 DEF StopTimer, Pcs
<1>8. CASE StopRouting
  BY <1>8 DEF StopRouting, Pcs
<1>9. CASE StopRest
  <2>1. ClearResult("IDLE") \in Result
    BY NeverType DEF ClearResult, States
  <2> QED
    BY <1>9, <2>1 DEF StopRest, Pcs, States
<1>10. CASE GetStatus
  BY <1>10 DEF GetStatus, Pcs
<1>11. CASE CopyResult
  BY <1>11 DEF CopyResult, Pcs
<1>12. CASE OverrideState
  BY <1>12 DEF OverrideState, Result, Pcs
<1>13. CASE Reply
  <2>1. Never("IDLE") \in Result
    BY NeverType DEF States
  <2> QED
    BY <1>13, <2>1 DEF Reply, Pcs
<1>14. CASE CheckState
  BY <1>14 DEF CheckState, Pcs, Returned
<1>15. CASE CheckElapsed
  BY <1>15 DEF CheckElapsed, Pcs, Returned
<1>16. CASE Expire
  <2>1. result' \in Result
    BY <1>16 DEF Expire, Result, States, Errors
  <2> QED
    BY <1>16, <2>1 DEF Expire, Pcs, Returned, States
<1>17. CASE CheckDone
  BY <1>17 DEF CheckDone, Pcs, Returned
<1>18. CASE CheckOverdue
  <2>1. TransferredCount \in 0 .. SampleMax
    BY DEF TransferredCount
  <2> QED
    BY <1>18, <2>1 DEF CheckOverdue, Pcs, Returned
<1>19. CASE Decode
  <2>1. PICK d \in Decodings(count) :
          /\ state' = IF late = 1 THEN "ERROR" ELSE d.state
          /\ result' = [state |-> IF late = 1 THEN "ERROR" ELSE d.state,
                        errors |-> IF late = 1 THEN d.errors \cup {"CAPTURE_TIMEOUT"}
                                   ELSE d.errors,
                        decoded |-> 1]
    BY <1>19 DEF Decode
  <2>2. d.state \in States /\ d.errors \in SUBSET Errors
    BY DecodingsType
  <2>3. state' \in States /\ result' \in Result
    BY <2>1, <2>2 DEF Result, States, Errors
  <2> QED
    BY <1>19, <2>3 DEF Decode, Pcs, Returned
<1>20. CASE StartCapture
  BY <1>20 DEF StartCapture, NotYet, Result, States
<1>21. CASE Sample
  <2>1. samples + 1 \in 0 .. SampleMax
    BY <1>21 DEF Sample, Feeding, MonitorInv, WiringInv
  <2> QED
    BY <1>21, <2>1 DEF Sample
<1>22. CASE Tick
  <2>1. tick' \in 0 .. TickMod - 1
    BY <1>22 DEF Tick
  <2> QED
    BY <1>22, <2>1 DEF Tick, NotYet
<1>23. CASE UNCHANGED vars
  BY <1>23 DEF vars
<1> QED
  BY <1>1, <1>2, <1>3, <1>4, <1>5, <1>6, <1>7, <1>8, <1>9, <1>10, <1>11,
     <1>12, <1>13, <1>14, <1>15, <1>16, <1>17, <1>18, <1>19, <1>20, <1>21,
     <1>22, <1>23 DEF Next, Loop
-----------------------------------------------------------------------------
(* The inductive invariant.  The cases that need more than the wiring: the *)
(* stamp of the arming and the tick move together (ArmEnable, Tick), the   *)
(* wrapping comparison therefore tells real time (CheckElapsed), and the   *)
(* count given to Decode is that of the samples (CheckOverdue).            *)
LEMMA InitMonitorInv == Init => MonitorInv
  BY MonitorAssumption
     DEF Init, MonitorInv, CleanArm, DecodeAlone, ReportCoherent, TimeoutIsDue,
         WiringInv, ResultInv, ClockInv, Coherent, Never, Busy

(* Every step keeps the invariant.                                         *)
LEMMA NextMonitorInv == TypeOK /\ MonitorInv /\ [Next]_vars => MonitorInv'
<1> SUFFICES ASSUME TypeOK, MonitorInv, [Next]_vars PROVE MonitorInv'
  OBVIOUS
<1> USE MonitorAssumption DEF TypeOK, MonitorInv, CleanArm, DecodeAlone,
        ReportCoherent, TimeoutIsDue, WiringInv, ResultInv, ClockInv, Coherent,
        monitor, capture, locals, history
<1>1. CASE CallProcess
  BY <1>1 DEF CallProcess
<1>2. ASSUME NEW ms \in Requested, Config(ms) PROVE MonitorInv'
  BY <1>2 DEF Config, ClearResult, Never, Busy
<1>3. CASE ArmRefused
  BY <1>3 DEF ArmRefused, Busy
<1>4. CASE ArmStart
  BY <1>4 DEF ArmStart, ClearResult, Never, Busy
<1>5. CASE ArmPrepare
  BY <1>5 DEF ArmPrepare, PrepareHardware
<1>6. CASE ArmEnable
  <2>1. tick = (armTick' + waited') % TickMod
    <3>1. waited' = 0 /\ armTick' = tick
      BY <1>6 DEF ArmEnable
    <3>2. tick % TickMod = tick
      BY Wrap, SMT
    <3> QED
      BY <3>1, <3>2
  <2> QED
    BY <1>6, <2>1 DEF ArmEnable
<1>7. CASE StopTimer
  BY <1>7 DEF StopTimer
<1>8. CASE StopRouting
  BY <1>8 DEF StopRouting
<1>9. CASE StopRest
  BY <1>9 DEF StopRest, ClearResult, Never
<1>10. CASE GetStatus
  BY <1>10 DEF GetStatus
<1>11. CASE CopyResult
  BY <1>11 DEF CopyResult
<1>12. CASE OverrideState
  BY <1>12 DEF OverrideState, Result
<1>13. CASE Reply
  BY <1>13 DEF Reply, Never
<1>14. CASE CheckState
  BY <1>14 DEF CheckState, Returned, Busy
<1>15. CASE CheckElapsed
  <2>1. ASSUME Elapsed(armTick, timeout) PROVE waited >= timeout
    <3>1. CASE waited = TimeoutMax
      BY <3>1
    <3>2. CASE tick = (armTick + waited) % TickMod
      <4>1. (tick + TickMod - armTick) % TickMod = waited
        BY <3>2, Difference
      <4> QED
        BY <2>1, <4>1 DEF Elapsed
    <3> QED
      BY <1>15, <3>1, <3>2 DEF CheckElapsed
  <2> QED
    BY <1>15, <2>1 DEF CheckElapsed, Returned, Busy
<1>16. CASE Expire
  BY <1>16 DEF Expire, Returned, Busy, Result
<1>17. CASE CheckDone
  <2>1. CASE td = 1
    BY <1>17, <2>1 DEF CheckDone, Feeding
  <2>2. CASE td # 1
    BY <1>17, <2>2 DEF CheckDone
  <2> QED
    BY <2>1, <2>2
<1>18. CASE CheckOverdue
  <2>1. TransferredCount = samples
    BY <1>18 DEF CheckOverdue, TransferredCount
  <2> QED
    BY <1>18, <2>1 DEF CheckOverdue, Returned, Feeding
<1>19. CASE Decode
  <2>1. PICK d \in Decodings(count) :
          /\ state' = IF late = 1 THEN "ERROR" ELSE d.state
          /\ result' = [state |-> IF late = 1 THEN "ERROR" ELSE d.state,
                        errors |-> IF late = 1 THEN d.errors \cup {"CAPTURE_TIMEOUT"}
                                   ELSE d.errors,
                        decoded |-> 1]
    BY <1>19 DEF Decode
  <2>2. Coherent([result' EXCEPT !.state = state'])
    BY <2>1, DecodingsType
  <2>3. state' \in {"COMPLETE", "ERROR"}
    BY <2>1, DecodingsType
  <2> QED
    BY <1>19, <2>2, <2>3 DEF Decode, Returned
<1>20. CASE StartCapture
  BY <1>20 DEF StartCapture, Result, Busy
<1>21. CASE Sample
  <2>1. intEn = 0 /\ pc # "decode" /\ pc # "enable" /\ td = 0
    BY <1>21 DEF Sample, Feeding
  <2>2. /\ pdma' \in {"ready", "done"}
        /\ pdma' = "done" => samples' = SampleMax
        /\ pdma' = "ready" => samples' < SampleMax /\ td' = 0
    BY <1>21, <2>1 DEF Sample, Feeding
  <2>3. UNCHANGED <<state, result, report, pc, intEn, trigger, waited, timeout, tick, armTick>>
    BY <1>21 DEF Sample
  <2> QED
    BY <2>1, <2>2, <2>3 DEF Busy
<1>22. CASE Tick
  <2>1. ASSUME waited < TimeoutMax, tick = (armTick + waited) % TickMod
        PROVE  tick' = (armTick + waited') % TickMod
    <3>1. waited' = waited + 1 /\ tick' = (tick + 1) % TickMod
      BY <1>22, <2>1 DEF Tick
    <3>2. waited + 1 < TickMod
      BY <2>1
    <3>3. (((armTick + waited) % TickMod) + 1) % TickMod = (armTick + (waited + 1)) % TickMod
      BY <3>2, Advance
    <3> QED
      BY <2>1, <3>1, <3>3
  <2> QED
    BY <1>22, <2>1 DEF Tick, Busy, Feeding
<1>23. CASE UNCHANGED vars
  BY <1>23 DEF vars, Busy, Feeding
<1> QED
  BY <1>1, <1>2, <1>3, <1>4, <1>5, <1>6, <1>7, <1>8, <1>9, <1>10, <1>11,
     <1>12, <1>13, <1>14, <1>15, <1>16, <1>17, <1>18, <1>19, <1>20, <1>21,
     <1>22, <1>23 DEF Next, Loop

(* Type correctness of the monitor, with a capture that never overruns its *)
(* sample buffer.                                                          *)
THEOREM TypeCorrect == Spec => []TypeOK
<1>1. Init => TypeOK /\ MonitorInv
  BY InitTypeOK, InitMonitorInv
<1>2. TypeOK /\ MonitorInv /\ [Next]_vars => (TypeOK /\ MonitorInv)'
  BY NextTypeOK, NextMonitorInv
<1> QED
  BY <1>1, <1>2, PTL DEF Spec

(* The inductive invariant holds in every reachable state.                 *)
THEOREM Safety == Spec => []MonitorInv
<1>1. Init => TypeOK /\ MonitorInv
  BY InitTypeOK, InitMonitorInv
<1>2. TypeOK /\ MonitorInv /\ [Next]_vars => (TypeOK /\ MonitorInv)'
  BY NextTypeOK, NextMonitorInv
<1> QED
  BY <1>1, <1>2, PTL DEF Spec

(* A capture always begins with an empty channel and clear flags.          *)
THEOREM ArmingIsClean == Spec => []CleanArm
  BY Safety, PTL DEF MonitorInv

(* The decoder never reads the buffer while the PDMA writes it, and is     *)
(* told the number of samples captured.                                    *)
THEOREM DecodeIsAlone == Spec => []DecodeAlone
  BY Safety, PTL DEF MonitorInv

(* No status report mixes the result of one capture with the state of      *)
(* another.                                                                *)
THEOREM ReportsAreCoherent == Spec => []ReportCoherent
  BY Safety, PTL DEF MonitorInv

(* The monitor never gives up before the configured time, whatever value   *)
(* the tick counter starts from and wherever it wraps.                     *)
THEOREM TimeoutsAreDue == Spec => []TimeoutIsDue
  BY Safety, PTL DEF MonitorInv
=============================================================================
