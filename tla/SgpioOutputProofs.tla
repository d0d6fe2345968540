------------------------- MODULE SgpioOutputProofs -------------------------
(* What SgpioOutput promises for every frame length, interval, tick width  *)
(* and set of settings.                                                    *)
EXTENDS SgpioOutput, TLAPS

(* The initial state has every variable in its range.                      *)
LEMMA InitTypeOK == Init => TypeOK
  BY OutputAssumption DEF Init, TypeOK, Content, Pcs

(* Every step keeps the variables in their ranges: the PDMA stays inside   *)
(* the waveform because the transfer-done flag stops it.                   *)
LEMMA NextTypeOK == TypeOK /\ OutputInv /\ [Next]_vars => TypeOK'
<1> SUFFICES ASSUME TypeOK, OutputInv, [Next]_vars PROVE TypeOK'
  OBVIOUS
<1> USE OutputAssumption DEF TypeOK, settings, hardware
<1>1. CASE CallProcess
  BY <1>1 DEF CallProcess, Pcs
<1>2. ASSUME NEW n \in Slots, Config(n)
      PROVE  TypeOK'
  BY <1>2 DEF Config, Pcs
<1>3. ASSUME NEW on \in {0, 1}, NEW again \in {0, 1}, NEW ms \in Requested,
             NEW d \in Data, Apply(on, again, ms, d)
      PROVE  TypeOK'
  <2>1. ClampInterval(ms) \in IntervalMin .. IntervalMax
    BY DEF ClampInterval
  <2> QED
    BY <1>3, <2>1 DEF Apply, FinishFrameIfDone, Pcs
<1>4. CASE ApplyOff
  BY <1>4 DEF ApplyOff, Off, StopFrame, Pcs
<1>5. CASE ApplyStop
  BY <1>5 DEF ApplyStop, StopFrame, Pcs
<1>6. CASE ApplyStart
  BY <1>6 DEF ApplyStart, LaunchFrame, Content, Pcs
<1>7. CASE SgpioOff
  BY <1>7 DEF SgpioOff, Off, StopFrame, Pcs
<1>8. CASE GetStatus
  BY <1>8 DEF GetStatus, FinishFrameIfDone, FrameDone, Pcs
<1>9. CASE Finish
  BY <1>9 DEF Finish, FinishFrameIfDone, FrameDone, Pcs
<1>10. CASE SendNext
  BY <1>10 DEF SendNext, LaunchFrame, Content, Pcs
<1>11. CASE TransferWord
  <2>1. pos + 1 \in 0 .. FrameLen
    BY <1>11 DEF TransferWord, OutputInv, IdleLine
  <2> QED
    BY <1>11, <2>1 DEF TransferWord
<1>12. CASE Tick
  BY <1>12 DEF Tick
<1>13. CASE UNCHANGED vars
  BY <1>13 DEF vars
<1> QED
  BY <1>1, <1>2, <1>3, <1>4, <1>5, <1>6, <1>7, <1>8, <1>9, <1>10, <1>11,
     <1>12, <1>13 DEF Next, Loop

(* The invariant holds initially.                                          *)
LEMMA InitOutputInv == Init => OutputInv
  BY OutputAssumption DEF Init, OutputInv, IdleLine

(* Every step keeps it: frames are started and put away with their timer.  *)
LEMMA NextOutputInv == TypeOK /\ OutputInv /\ [Next]_vars => OutputInv'
<1> SUFFICES ASSUME TypeOK, OutputInv, [Next]_vars PROVE OutputInv'
  OBVIOUS
<1> USE OutputAssumption DEF TypeOK, OutputInv, IdleLine, settings, hardware
<1>1. CASE CallProcess
  BY <1>1 DEF CallProcess
<1>2. ASSUME NEW n \in Slots, Config(n)
      PROVE  OutputInv'
  BY <1>2 DEF Config
<1>3. ASSUME NEW on \in {0, 1}, NEW again \in {0, 1}, NEW ms \in Requested,
             NEW d \in Data, Apply(on, again, ms, d)
      PROVE  OutputInv'
  BY <1>3 DEF Apply, FinishFrameIfDone, FrameDone
<1>4. CASE ApplyOff
  BY <1>4 DEF ApplyOff, Off, StopFrame
<1>5. CASE ApplyStop
  BY <1>5 DEF ApplyStop, StopFrame
<1>6. CASE ApplyStart
  BY <1>6 DEF ApplyStart, LaunchFrame
<1>7. CASE SgpioOff
  BY <1>7 DEF SgpioOff, Off, StopFrame
<1>8. CASE GetStatus
  BY <1>8 DEF GetStatus, FinishFrameIfDone, FrameDone
<1>9. CASE Finish
  BY <1>9 DEF Finish, FinishFrameIfDone, FrameDone
<1>10. CASE SendNext
  BY <1>10 DEF SendNext, LaunchFrame
<1>11. CASE TransferWord
  BY <1>11 DEF TransferWord
<1>12. CASE Tick
  BY <1>12 DEF Tick
<1>13. CASE UNCHANGED vars
  BY <1>13 DEF vars
<1> QED
  BY <1>1, <1>2, <1>3, <1>4, <1>5, <1>6, <1>7, <1>8, <1>9, <1>10, <1>11,
     <1>12, <1>13 DEF Next, Loop

(* Types and invariant together are inductive.                             *)
LEMMA Inductive == Spec => [](TypeOK /\ OutputInv)
<1>1. Init => TypeOK /\ OutputInv
  BY InitTypeOK, InitOutputInv
<1>2. TypeOK /\ OutputInv /\ [Next]_vars => (TypeOK /\ OutputInv)'
  BY NextTypeOK, NextOutputInv
<1> QED
  BY <1>1, <1>2, PTL DEF Spec

(* Type correctness of the generator; the PDMA never reads past the        *)
(* waveform.                                                               *)
THEOREM TypeCorrect == Spec => []TypeOK
  BY Inductive, PTL

(* Pins idle between frames and released when the output is off.           *)
THEOREM LineIsIdle == Spec => []IdleLine
<1>1. OutputInv => IdleLine
  BY DEF OutputInv
<1> QED
  BY Inductive, <1>1, PTL

-----------------------------------------------------------------------------
(* The refinement.                                                         *)

(* The generator starts as a source that is off.                           *)
LEMMA InitRefines == Init => Source!Init
  BY OutputAssumption DEF Init, Source!Init, Content, Source!Content

(* Each step of the generator is a step of the source, or none: putting a  *)
(* frame away is End, replacing it is Cut, LaunchFrame is Start.           *)
LEMMA NextRefines ==
  TypeOK /\ TypeOK' /\ OutputInv /\ [Next]_vars => [Source!Next]_(Source!vars)
<1> SUFFICES ASSUME TypeOK, TypeOK', OutputInv, [Next]_vars
             PROVE  [Source!Next]_(Source!vars)
  OBVIOUS
<1> USE OutputAssumption DEF TypeOK, OutputInv, IdleLine, settings, hardware,
        Source!vars
<1>100. waveform' \in Source!Content
  BY DEF Content, Source!Content
<1>1. CASE CallProcess
  BY <1>1 DEF CallProcess
<1>2. ASSUME NEW n \in Slots, Config(n)
      PROVE  [Source!Next]_(Source!vars)
  BY <1>2 DEF Config
<1>3. ASSUME NEW on \in {0, 1}, NEW again \in {0, 1}, NEW ms \in Requested,
             NEW d \in Data, Apply(on, again, ms, d)
      PROVE  [Source!Next]_(Source!vars)
  <2>1. CASE frameActive = 1 /\ FrameDone
    <3>1. Source!End
      BY <1>3, <2>1 DEF Apply, FinishFrameIfDone, FrameDone, Source!End
    <3> QED
      BY <3>1 DEF Source!Next
  <2>2. CASE ~(frameActive = 1 /\ FrameDone)
    BY <1>3, <2>2 DEF Apply, FinishFrameIfDone
  <2> QED
    BY <2>1, <2>2
<1>4. CASE ApplyOff
  <2>1. Source!SwitchOff
    BY <1>4 DEF ApplyOff, Off, StopFrame, Source!SwitchOff
  <2> QED
    BY <2>1 DEF Source!Next
<1>5. CASE ApplyStop
  <2>1. CASE frameActive = 1
    <3>1. Source!Cut
      BY <1>5, <2>1 DEF ApplyStop, StopFrame, Source!Cut
    <3> QED
      BY <3>1 DEF Source!Next
  <2>2. CASE frameActive # 1
    <3>1. Source!SwitchOn
      BY <1>5, <2>2 DEF ApplyStop, Source!SwitchOn
    <3> QED
      BY <3>1 DEF Source!Next
  <2> QED
    BY <2>1, <2>2
<1>6. CASE ApplyStart
  <2>1. Source!Start(waveform')
    BY <1>6 DEF ApplyStart, LaunchFrame, Source!Start
  <2> QED
    BY <2>1, <1>100 DEF Source!Next
<1>7. CASE SgpioOff
  <2>1. Source!SwitchOff
    BY <1>7 DEF SgpioOff, Off, StopFrame, Source!SwitchOff
  <2> QED
    BY <2>1 DEF Source!Next
<1>8. CASE GetStatus
  <2>1. CASE frameActive = 1 /\ FrameDone
    <3>1. Source!End
      BY <1>8, <2>1 DEF GetStatus, FinishFrameIfDone, FrameDone, Source!End
    <3> QED
      BY <3>1 DEF Source!Next
  <2>2. CASE ~(frameActive = 1 /\ FrameDone)
    BY <1>8, <2>2 DEF GetStatus, FinishFrameIfDone
  <2> QED
    BY <2>1, <2>2
<1>9. CASE Finish
  <2>1. CASE frameActive = 1 /\ FrameDone
    <3>1. Source!End
      BY <1>9, <2>1 DEF Finish, FinishFrameIfDone, FrameDone, Source!End
    <3> QED
      BY <3>1 DEF Source!Next
  <2>2. CASE ~(frameActive = 1 /\ FrameDone)
    BY <1>9, <2>2 DEF Finish, FinishFrameIfDone
  <2> QED
    BY <2>1, <2>2
<1>10. CASE SendNext
  <2>1. CASE enabled = 1 /\ periodic = 1 /\ frameActive = 0 /\ Due
    <3>1. Source!Start(waveform')
      BY <1>10, <2>1 DEF SendNext, LaunchFrame, Source!Start
    <3> QED
      BY <3>1, <1>100 DEF Source!Next
  <2>2. CASE ~(enabled = 1 /\ periodic = 1 /\ frameActive = 0 /\ Due)
    BY <1>10, <2>2 DEF SendNext
  <2> QED
    BY <2>1, <2>2
<1>11. CASE TransferWord
  <2>1. Source!Shift
    BY <1>11 DEF TransferWord, Source!Shift
  <2> QED
    BY <2>1 DEF Source!Next
<1>12. CASE Tick
  BY <1>12 DEF Tick
<1>13. CASE UNCHANGED vars
  BY <1>13 DEF vars
<1> QED
  BY <1>1, <1>2, <1>3, <1>4, <1>5, <1>6, <1>7, <1>8, <1>9, <1>10, <1>11,
     <1>12, <1>13 DEF Next, Loop

(* Every behaviour of the generator is one of an SgpioSource.              *)
THEOREM Refinement == Spec => SourceSpec
<1>1. Spec => []TypeOK /\ []OutputInv
  BY Inductive, PTL
<1> QED
  BY <1>1, InitRefines, NextRefines, PTL DEF Spec, SourceSpec, Source!Spec
=============================================================================
