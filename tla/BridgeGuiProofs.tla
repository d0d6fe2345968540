-------------------------- MODULE BridgeGuiProofs --------------------------
(***************************************************************************)
(* The tabs' promises for any number of error boxes on the screen.  GuiInv *)
(* adds to them what a late request has to do with behind: its tab is      *)
(* among those something may have happened to, until a call is answered.   *)
(***************************************************************************)
EXTENDS BridgeGui, TLAPS

LateBehind ==
  /\ late \in {"apply", "off"} => Output \in behind
  /\ late = "arm" => Monitor \in behind

GuiInv ==
  /\ TypeOK
  /\ OutputBelief
  /\ MonitorBelief
  /\ LateBehind
  /\ ButtonsSafe
  /\ ConnectedIsReal

-----------------------------------------------------------------------------
(* What a call leaves of the parts of the invariant the firmware's side    *)
(* can disturb: Calls is GuiInv without the window.                        *)
Calls == OutputBelief /\ MonitorBelief /\ LateBehind

(* The firmware's variables keep their ranges through every call.          *)
LEMMA CallTypes ==
  ASSUME TypeOK, NEW r \in Requests, Fails(r) \/ Answered(r)
  PROVE  /\ running' \subseteq Owners /\ late' \in Requests \union {"none"}
         /\ handle' \in {"null", "open", "dead"}
         /\ Fails(r) => behind' \subseteq Owners
BY DEF TypeOK, Fails, Missed, Unseen, Answered, Done, Concerned, Requests, Owners,
       Output, Monitor, Reachable

(* A failed call leaves the beliefs right or its tab behind.               *)
LEMMA FailedCall ==
  ASSUME TypeOK, Calls, NEW r \in Requests, Fails(r), on' = on,
         r \in {"apply", "off", "stop", "reset"} \/ Monitor \notin running
  PROVE  Calls'
BY DEF TypeOK, Calls, OutputBelief, MonitorBelief, LateBehind, Fails, Missed, Unseen,
       Done, Concerned, Requests, Owners, Output, Monitor, Reachable

(* Being disconnected leaves nothing a belief could be wrong about.        *)
LEMMA Forgotten ==
  ASSUME TypeOK, Calls, UNCHANGED firmware,
         \/ on' = {} /\ behind' = behind \union on
         \/ on' = on \ {Monitor} /\ behind' = behind \union (on \cap {Monitor})
  PROVE  Calls'
BY DEF TypeOK, Calls, OutputBelief, MonitorBelief, LateBehind, Owners, Output, Monitor,
       firmware

(* No button is offered where the other function is active, if the tab in  *)
(* view has just computed its own or if nothing has become active.         *)
LEMMA ButtonsKept ==
  ASSUME TypeOK, ButtonsSafe, NEW O \in SUBSET Owners, UpdateEnableState(O),
         tab' \in Owners, tab' \in O \/ (tab' = tab /\ active' \subseteq active)
  PROVE  ButtonsSafe' /\ buttons' \subseteq Owners
BY DEF TypeOK, ButtonsSafe, UpdateEnableState, CanStart, AnyActiveExcept

-----------------------------------------------------------------------------
(* The firmware, the link and the board.                                   *)
LEMMA WorldKeeps ==
  ASSUME GuiInv, World
  PROVE  GuiInv'
<1>1. CASE Settle
  BY <1>1 DEF Settle, GuiInv, TypeOK, OutputBelief, MonitorBelief, LateBehind, ButtonsSafe,
     ConnectedIsReal, frame, tabs, Owners, Output, Monitor, Requests, AnyActiveExcept
<1>2. CASE LateRequest
  <2>1. TypeOK'
    BY <1>2 DEF LateRequest, GuiInv, TypeOK, tabs, Owners, Output, Monitor, Requests, Done
  <2>2. OutputBelief' /\ MonitorBelief' /\ LateBehind'
    BY <1>2 DEF LateRequest, GuiInv, TypeOK, OutputBelief, MonitorBelief, LateBehind, tabs,
       Owners, Output, Monitor, Requests, Done
  <2>3. ButtonsSafe' /\ ConnectedIsReal'
    BY <1>2 DEF LateRequest, GuiInv, ButtonsSafe, ConnectedIsReal, tabs, AnyActiveExcept
  <2>4. QED
    BY <2>1, <2>2, <2>3 DEF GuiInv
<1>3. CASE DeviceReset
  <2>1. TypeOK' /\ OutputBelief' /\ MonitorBelief' /\ LateBehind'
    BY <1>3 DEF DeviceReset, GuiInv, TypeOK, OutputBelief, MonitorBelief, LateBehind, tabs,
       Owners, Output, Monitor
  <2>2. ButtonsSafe' /\ ConnectedIsReal'
    BY <1>3 DEF DeviceReset, GuiInv, ButtonsSafe, ConnectedIsReal, tabs, AnyActiveExcept
  <2>3. QED
    BY <2>1, <2>2 DEF GuiInv
<1>4. QED
  BY <1>1, <1>2, <1>3 DEF World

-----------------------------------------------------------------------------
(* The monitor tab.  A poll may run beside the output tab in view: it      *)
(* switches the monitor off or leaves it on, and so offers no button.      *)
LEMMA StatusKeeps ==
  ASSUME GuiInv, ApplyStatus, tab = Monitor \/ pollTimer = "set"
  PROVE  GuiInv'
<1>1. /\ tab' = tab /\ tab \in Owners /\ {Monitor} \in SUBSET Owners
      /\ tab' \in {Monitor} \/ (tab' = tab /\ active' \subseteq active)
  BY DEF GuiInv, TypeOK, ConnectedIsReal, ApplyStatus, frame, SwitchOn, SwitchOff, Owners,
     Output, Monitor
<1>2. UpdateEnableState({Monitor})
  BY DEF ApplyStatus
<1>3. ButtonsSafe' /\ buttons' \subseteq Owners
  BY <1>1, <1>2, ButtonsKept DEF GuiInv
<1>4. TypeOK'
  BY <1>3 DEF GuiInv, TypeOK, ApplyStatus, frame, firmware, SwitchOn, SwitchOff, Owners,
     Output, Monitor
<1>5. OutputBelief' /\ MonitorBelief' /\ LateBehind'
  BY DEF GuiInv, TypeOK, OutputBelief, MonitorBelief, LateBehind, ApplyStatus, firmware,
     Reachable, SwitchOn, SwitchOff, Owners, Output, Monitor
<1>6. ConnectedIsReal'
  BY DEF GuiInv, ConnectedIsReal, ApplyStatus, frame, SwitchOn, SwitchOff
<1>7. QED
  BY <1>3, <1>4, <1>5, <1>6 DEF GuiInv

LEMMA MonitorTabKeeps ==
  ASSUME GuiInv, MonitorTab
  PROVE  GuiInv'
<1>1. CASE OnBtnArm
  <2>1. CASE Unseen("arm") /\ UNCHANGED <<tabs, active>>
    <3>1. Fails("arm") /\ "arm" \in Requests
      BY <2>1 DEF Fails, Requests
    <3>2. TypeOK'
      BY <1>1, <2>1, <3>1, CallTypes DEF GuiInv, TypeOK, OnBtnArm, tabs
    <3>3. Calls'
      BY <1>1, <2>1, <3>1, FailedCall DEF GuiInv, Calls, OnBtnArm, tabs
    <3>4. ButtonsSafe' /\ ConnectedIsReal'
      BY <1>1, <2>1 DEF GuiInv, ButtonsSafe, ConnectedIsReal, OnBtnArm, Unseen, tabs,
         AnyActiveExcept
    <3>5. QED
      BY <3>2, <3>3, <3>4 DEF GuiInv, Calls
  <2>2. CASE /\ Answered("arm")
             /\ SwitchOn(Monitor) /\ pollTimer' = "set" /\ connected' = connected
             /\ UpdateEnableState({Monitor})
             /\ behind' = behind \ {Monitor}
    <3>1. tab' = tab /\ tab = Monitor /\ Monitor \in connected /\ {Monitor} \in SUBSET Owners
          /\ tab \in Owners
      BY <1>1 DEF OnBtnArm, MonitorShown, Owners
    <3>2. ButtonsSafe' /\ buttons' \subseteq Owners
      BY <2>2, <3>1, ButtonsKept DEF GuiInv
    <3>3. "arm" \in Requests
      BY DEF Requests
    <3>4. TypeOK'
      BY <1>1, <2>2, <3>2, <3>3, CallTypes DEF GuiInv, TypeOK, OnBtnArm, SwitchOn, Owners
    <3>5. OutputBelief' /\ MonitorBelief' /\ LateBehind'
      BY <2>2 DEF GuiInv, TypeOK, OutputBelief, MonitorBelief, LateBehind, Answered,
         Reachable, Done, SwitchOn, Owners, Output, Monitor
    <3>6. ConnectedIsReal'
      BY <1>1, <2>2, <3>1 DEF GuiInv, ConnectedIsReal, OnBtnArm, Answered, SwitchOn
    <3>7. QED
      BY <3>2, <3>4, <3>5, <3>6 DEF GuiInv
  <2>3. QED
    BY <1>1, <2>1, <2>2 DEF OnBtnArm
<1>2. CASE OnBtnStop
  <2>1. CASE Unseen("stop") /\ UNCHANGED <<tabs, active>>
    <3>1. Fails("stop") /\ "stop" \in Requests
      BY <2>1 DEF Fails, Requests
    <3>2. TypeOK'
      BY <1>2, <2>1, <3>1, CallTypes DEF GuiInv, TypeOK, OnBtnStop, tabs
    <3>3. Calls'
      BY <1>2, <2>1, <3>1, FailedCall DEF GuiInv, Calls, OnBtnStop, tabs
    <3>4. ButtonsSafe' /\ ConnectedIsReal'
      BY <1>2, <2>1 DEF GuiInv, ButtonsSafe, ConnectedIsReal, OnBtnStop, Unseen, tabs,
         AnyActiveExcept
    <3>5. QED
      BY <3>2, <3>3, <3>4 DEF GuiInv, Calls
  <2>2. CASE /\ Answered("stop")
             /\ SwitchOff(Monitor) /\ pollTimer' = "off" /\ connected' = connected
             /\ UpdateEnableState({Monitor})
             /\ behind' = behind \ {Monitor}
    <3>1. tab' = tab /\ tab = Monitor /\ {Monitor} \in SUBSET Owners /\ tab \in Owners
      BY <1>2 DEF OnBtnStop, MonitorShown, Owners
    <3>2. ButtonsSafe' /\ buttons' \subseteq Owners
      BY <2>2, <3>1, ButtonsKept DEF GuiInv
    <3>3. "stop" \in Requests
      BY DEF Requests
    <3>4. TypeOK'
      BY <1>2, <2>2, <3>2, <3>3, CallTypes DEF GuiInv, TypeOK, OnBtnStop, SwitchOff
    <3>5. OutputBelief' /\ MonitorBelief' /\ LateBehind'
      BY <2>2 DEF GuiInv, TypeOK, OutputBelief, MonitorBelief, LateBehind, Answered,
         Reachable, Done, SwitchOff, Owners, Output, Monitor
    <3>6. ConnectedIsReal'
      BY <1>2, <2>2 DEF GuiInv, ConnectedIsReal, OnBtnStop, Answered
    <3>7. QED
      BY <3>2, <3>4, <3>5, <3>6 DEF GuiInv
  <2>3. QED
    BY <1>2, <2>1, <2>2 DEF OnBtnStop
<1>3. CASE OnBtnMonitorStatus
  BY <1>3, StatusKeeps DEF OnBtnMonitorStatus, MonitorShown
<1>4. CASE Poll
  <2>1. CASE ApplyStatus
    BY <1>4, <2>1, StatusKeeps DEF Poll
  <2>2. CASE /\ SwitchOff(Monitor) /\ pollTimer' = "off" /\ connected' = connected
             /\ UpdateEnableState({Monitor})
             /\ behind' = behind \union {Monitor}
             /\ UNCHANGED <<frame, firmware>>
    <3>1. /\ tab' = tab /\ tab \in Owners /\ {Monitor} \in SUBSET Owners
          /\ active' \subseteq active
      BY <2>2 DEF GuiInv, TypeOK, frame, SwitchOff, Owners
    <3>2. ButtonsSafe' /\ buttons' \subseteq Owners
      BY <2>2, <3>1, ButtonsKept DEF GuiInv
    <3>3. TypeOK' /\ OutputBelief' /\ MonitorBelief' /\ LateBehind'
      BY <2>2, <3>2 DEF GuiInv, TypeOK, OutputBelief, MonitorBelief, LateBehind, frame,
         firmware, SwitchOff, Owners, Output, Monitor
    <3>4. ConnectedIsReal'
      BY <2>2 DEF GuiInv, ConnectedIsReal, frame
    <3>5. QED
      BY <3>2, <3>3, <3>4 DEF GuiInv
  <2>3. QED
    BY <1>4, <2>1, <2>2 DEF Poll
<1>5. QED
  BY <1>1, <1>2, <1>3, <1>4 DEF MonitorTab

-----------------------------------------------------------------------------
(* The output tab: a call that fails, and one that is answered.            *)
LEMMA OutputFails ==
  ASSUME GuiInv, NEW r \in {"apply", "off"}, Fails(r), ShowError,
         UNCHANGED <<chip, tab, connectErrors>>
  PROVE  GuiInv'
<1>1. r \in Requests
  BY DEF Requests
<1>2. behind' \subseteq Owners
  BY <1>1, CallTypes DEF GuiInv
<1>3. TypeOK'
  BY <1>1, <1>2, CallTypes DEF GuiInv, TypeOK, ShowError, tabs
<1>4. Calls'
  BY <1>1, FailedCall DEF GuiInv, Calls, ShowError, tabs
<1>5. handle # "null" => handle' # "null"
  BY DEF Fails, Missed, Unseen
<1>6. ButtonsSafe' /\ ConnectedIsReal'
  BY <1>5 DEF GuiInv, ButtonsSafe, ConnectedIsReal, ShowError, tabs, AnyActiveExcept
<1>7. QED
  BY <1>3, <1>4, <1>6 DEF GuiInv, Calls

LEMMA OutputAnswered ==
  ASSUME GuiInv, tab = Output,
         /\ UNCHANGED <<handle, chip, tab, connectErrors, box, late, connected, pollTimer>>
         /\ Reachable /\ running' \subseteq Owners
         /\ (Monitor \in running <=> Monitor \in running')
         /\ behind' = behind \ {Output}
         /\ UpdateEnableState({Output}),
         \/ SwitchOn(Output) /\ Output \in running'
         \/ SwitchOff(Output) /\ Output \notin running'
  PROVE  GuiInv'
<1>1. tab' \in Owners /\ tab' \in {Output} /\ {Output} \in SUBSET Owners
  BY DEF Owners
<1>2. ButtonsSafe' /\ buttons' \subseteq Owners
  BY <1>1, ButtonsKept DEF GuiInv
<1>3. TypeOK'
  BY <1>2 DEF GuiInv, TypeOK, SwitchOn, SwitchOff, Owners
<1>4. OutputBelief' /\ MonitorBelief' /\ LateBehind'
  BY DEF GuiInv, TypeOK, OutputBelief, MonitorBelief, LateBehind, Reachable, SwitchOn,
     SwitchOff, Output, Monitor
<1>5. ConnectedIsReal'
  BY DEF GuiInv, ConnectedIsReal, SwitchOn, SwitchOff, Output, Monitor
<1>6. QED
  BY <1>2, <1>3, <1>4, <1>5 DEF GuiInv

LEMMA ApplyKeeps ==
  ASSUME GuiInv, ApplyFromUi, tab = Output, UNCHANGED <<chip, tab, connectErrors>>
  PROVE  GuiInv'
<1>1. CASE Fails("apply") /\ ShowError
  BY <1>1, OutputFails
<1>2. CASE /\ Answered("apply")
           /\ SwitchOn(Output) /\ UNCHANGED <<connected, pollTimer>>
           /\ UpdateEnableState({Output})
           /\ behind' = behind \ {Output}
           /\ box' = box
  <2>1. /\ Reachable /\ UNCHANGED <<handle, late>>
        /\ running' = running \union {Output}
    BY <1>2 DEF Answered, Done
  <2>2. running' \subseteq Owners /\ (Monitor \in running <=> Monitor \in running')
        /\ Output \in running'
    BY <2>1 DEF GuiInv, TypeOK, Owners, Output, Monitor
  <2>3. QED
    BY <1>2, <2>1, <2>2, OutputAnswered
<1>3. QED
  BY <1>1, <1>2 DEF ApplyFromUi, Fails

LEMMA OutputTabKeeps ==
  ASSUME GuiInv, OutputTab
  PROVE  GuiInv'
<1>1. CASE OnBtnEnable
  BY <1>1, ApplyKeeps DEF OnBtnEnable, OutputShown
<1>2. CASE OnBtnApplyNow
  BY <1>2, ApplyKeeps DEF OnBtnApplyNow, OutputShown
<1>3. CASE OnBtnDisable
  <2>1. CASE Fails("off") /\ ShowError
    BY <1>3, <2>1, OutputFails DEF OnBtnDisable
  <2>2. CASE /\ Answered("off")
             /\ SwitchOff(Output) /\ UNCHANGED <<connected, pollTimer>>
             /\ UpdateEnableState({Output})
             /\ behind' = behind \ {Output}
             /\ box' = box
    <3>1. /\ Reachable /\ UNCHANGED <<handle, late>>
          /\ running' = running \ {Output}
      BY <2>2 DEF Answered, Done
    <3>2. running' \subseteq Owners /\ (Monitor \in running <=> Monitor \in running')
          /\ Output \notin running'
      BY <3>1 DEF GuiInv, TypeOK, Owners, Output, Monitor
    <3>3. tab = Output /\ UNCHANGED <<chip, tab, connectErrors>>
      BY <1>3 DEF OnBtnDisable, OutputShown
    <3>4. QED
      BY <2>2, <3>1, <3>2, <3>3, OutputAnswered
  <2>3. QED
    BY <1>3, <2>1, <2>2 DEF OnBtnDisable
<1>4. CASE OnBtnStatus
  <2>1. CASE Missed /\ ShowError
    BY <1>4, <2>1, OutputFails DEF OnBtnStatus, Fails
  <2>2. CASE /\ Reachable
             /\ IF Output \in running THEN SwitchOn(Output) ELSE SwitchOff(Output)
             /\ UNCHANGED <<connected, pollTimer, running, handle, late>>
             /\ UpdateEnableState({Output})
             /\ behind' = behind \ {Output}
             /\ box' = box
    <3>1. tab = Output /\ UNCHANGED <<chip, tab, connectErrors>>
      BY <1>4 DEF OnBtnStatus, OutputShown
    <3>2. running' \subseteq Owners /\ (Monitor \in running <=> Monitor \in running')
      BY <2>2 DEF GuiInv, TypeOK
    <3>3. QED
      BY <2>2, <3>1, <3>2, OutputAnswered
  <2>3. QED
    BY <1>4, <2>1, <2>2 DEF OnBtnStatus
<1>5. CASE CloseOutputError
  <2>1. /\ tab' = tab /\ tab \in Owners /\ {Output} \in SUBSET Owners
        /\ active' \subseteq active /\ UpdateEnableState({Output})
    BY <1>5 DEF CloseOutputError, GuiInv, TypeOK, Owners
  <2>2. ButtonsSafe' /\ buttons' \subseteq Owners
    BY <2>1, ButtonsKept DEF GuiInv
  <2>3. TypeOK' /\ OutputBelief' /\ MonitorBelief' /\ LateBehind'
    BY <1>5, <2>2 DEF CloseOutputError, GuiInv, TypeOK, OutputBelief, MonitorBelief,
       LateBehind, firmware
  <2>4. ConnectedIsReal'
    BY <1>5 DEF CloseOutputError, GuiInv, ConnectedIsReal
  <2>5. QED
    BY <2>2, <2>3, <2>4 DEF GuiInv
<1>6. QED
  BY <1>1, <1>2, <1>3, <1>4, <1>5 DEF OutputTab

-----------------------------------------------------------------------------
(* The main window.  The three ways of telling the tabs, each as a lemma   *)
(* about all of the invariant but the window's own variables.              *)
Told == /\ UNCHANGED firmware
        /\ handle' \in {"null", "open", "dead"} /\ chip' \in {"Connected", "Disconnected"}
        /\ tab' \in Owners /\ connectErrors' \in 0 .. MaxErrors
        /\ box' \in {"none", "output"}
        /\ (chip' = "Connected" => handle' # "null")

LEMMA ConnectedKeeps ==
  ASSUME GuiInv, Told, SetConnected
  PROVE  GuiInv'
<1>1. tab' \in Owners /\ Owners \in SUBSET Owners /\ UpdateEnableState(Owners)
  BY DEF Told, SetConnected
<1>2. ButtonsSafe' /\ buttons' \subseteq Owners
  BY <1>1, ButtonsKept DEF GuiInv
<1>3. TypeOK' /\ OutputBelief' /\ MonitorBelief' /\ LateBehind'
  BY <1>2 DEF Told, SetConnected, GuiInv, TypeOK, OutputBelief, MonitorBelief, LateBehind,
     firmware
<1>4. ConnectedIsReal'
  BY DEF Told, SetConnected, GuiInv, ConnectedIsReal, Owners
<1>5. QED
  BY <1>2, <1>3, <1>4 DEF GuiInv

LEMMA DisconnectedKeeps ==
  ASSUME GuiInv, Told,
         SetDisconnected \/ (BothDisconnected /\ behind' = behind \union on)
  PROVE  GuiInv'
<1>1. TypeOK' /\ ButtonsSafe' /\ ConnectedIsReal'
  BY DEF Told, SetDisconnected, BothDisconnected, GuiInv, TypeOK, ButtonsSafe,
     ConnectedIsReal, SwitchOff, firmware
<1>2. Calls'
  BY Forgotten DEF Told, SetDisconnected, BothDisconnected, GuiInv, Calls, SwitchOff
<1>3. QED
  BY <1>1, <1>2 DEF GuiInv, Calls

LEMMA MainFrameKeeps ==
  ASSUME GuiAssumption, GuiInv, MainFrame
  PROVE  GuiInv'
<1>1. CASE ConnectDone
  <2>1. Told /\ SetConnected
    BY <1>1 DEF ConnectDone, Told, GuiInv, TypeOK
  <2>2. QED
    BY <2>1, ConnectedKeeps
<1>2. CASE ConnectFails
  <2>1. connectErrors' \in 0 .. MaxErrors
    BY <1>2 DEF ConnectFails, GuiInv, TypeOK, GuiAssumption
  <2>2. TypeOK' /\ ButtonsSafe' /\ ConnectedIsReal'
    BY <1>2, <2>1 DEF ConnectFails, GuiInv, TypeOK, ButtonsSafe, ConnectedIsReal, tabs,
       firmware, AnyActiveExcept
  <2>3. OutputBelief' /\ MonitorBelief' /\ LateBehind'
    BY <1>2 DEF ConnectFails, GuiInv, OutputBelief, MonitorBelief, LateBehind, tabs, firmware
  <2>4. QED
    BY <2>2, <2>3 DEF GuiInv
<1>3. CASE CloseConnectError
  <2>1. connectErrors' \in 0 .. MaxErrors
    BY <1>3 DEF CloseConnectError, GuiInv, TypeOK, GuiAssumption
  <2>2. Told /\ SetDisconnected
    BY <1>3, <2>1 DEF CloseConnectError, Told, GuiInv, TypeOK
  <2>3. QED
    BY <2>2, DisconnectedKeeps
<1>4. CASE Disconnect
  <2>1. Told /\ BothDisconnected /\ behind' = behind \union on
    BY <1>4 DEF Disconnect, Told, GuiInv, TypeOK
  <2>2. QED
    BY <2>1, DisconnectedKeeps
<1>5. CASE ResetMcu
  <2>1. CASE /\ Reachable
             /\ running' = Done("reset")
             /\ handle' = "null" /\ chip' = "Disconnected"
             /\ BothDisconnected
             /\ UNCHANGED <<late, behind>>
    <3>1. running' = {}
      BY <2>1 DEF Done
    <3>2. TypeOK' /\ ButtonsSafe' /\ ConnectedIsReal'
      BY <1>5, <2>1, <3>1 DEF ResetMcu, BothDisconnected, GuiInv, TypeOK, ButtonsSafe,
         ConnectedIsReal
    <3>3. OutputBelief' /\ MonitorBelief' /\ LateBehind'
      BY <2>1, <3>1 DEF BothDisconnected, GuiInv, OutputBelief, MonitorBelief, LateBehind
    <3>4. QED
      BY <3>2, <3>3 DEF GuiInv
  <2>2. CASE Fails("reset") /\ UNCHANGED <<chip, tabs, active>>
    <3>1. "reset" \in Requests
      BY DEF Requests
    <3>2. TypeOK'
      BY <1>5, <2>2, <3>1, CallTypes DEF ResetMcu, GuiInv, TypeOK, tabs
    <3>3. Calls'
      BY <2>2, <3>1, FailedCall DEF GuiInv, Calls, tabs
    <3>4. handle # "null" => handle' # "null"
      BY <2>2 DEF Fails, Missed, Unseen
    <3>5. ButtonsSafe' /\ ConnectedIsReal'
      BY <1>5, <2>2, <3>4 DEF ResetMcu, GuiInv, ButtonsSafe, ConnectedIsReal, tabs,
         AnyActiveExcept
    <3>6. QED
      BY <3>2, <3>3, <3>5 DEF GuiInv, Calls
  <2>3. QED
    BY <1>5, <2>1, <2>2 DEF ResetMcu
<1>6. CASE LoadIni
  <2>1. TypeOK' /\ ButtonsSafe' /\ ConnectedIsReal'
    BY <1>6 DEF LoadIni, GuiInv, TypeOK, ButtonsSafe, ConnectedIsReal, frame, firmware,
       AnyActiveExcept
  <2>2. Calls'
    BY <1>6, Forgotten DEF LoadIni, GuiInv, Calls
  <2>3. QED
    BY <2>1, <2>2 DEF GuiInv, Calls
<1>7. CASE Restart
  <2>1. Told /\ BothDisconnected /\ behind' = behind \union on
    BY <1>7 DEF Restart, Told, Owners, GuiAssumption
  <2>2. QED
    BY <2>1, DisconnectedKeeps
<1>8. ASSUME NEW t \in Owners, TabSelect(t)
      PROVE  GuiInv'
  <2>1. Told
    BY <1>8 DEF TabSelect, Told, GuiInv, TypeOK, ConnectedIsReal
  <2>2. SetConnected \/ SetDisconnected
    BY <1>8 DEF TabSelect
  <2>3. QED
    BY <2>1, <2>2, ConnectedKeeps, DisconnectedKeeps
<1>9. QED
  BY <1>1, <1>2, <1>3, <1>4, <1>5, <1>6, <1>7, <1>8 DEF MainFrame

-----------------------------------------------------------------------------
(* GuiInv is inductive.                                                    *)
LEMMA GuiStart == ASSUME GuiAssumption, Init PROVE GuiInv
BY DEF GuiAssumption, Init, GuiInv, TypeOK, OutputBelief, MonitorBelief, LateBehind,
   ButtonsSafe, ConnectedIsReal, Owners

LEMMA GuiStep ==
  ASSUME GuiAssumption, GuiInv, [Next]_vars
  PROVE  GuiInv'
<1>1. CASE Next
  BY <1>1, MainFrameKeeps, OutputTabKeeps, MonitorTabKeeps, WorldKeeps DEF Next
<1>2. CASE UNCHANGED vars
  BY <1>2 DEF vars, frame, tabs, firmware, GuiInv, TypeOK, OutputBelief, MonitorBelief,
     LateBehind, ButtonsSafe, ConnectedIsReal, AnyActiveExcept
<1>3. QED
  BY <1>1, <1>2

LEMMA GuiAlways == Spec => []GuiInv
<1>1. Init => GuiInv
  BY GuiAssumption, GuiStart
<1>2. GuiInv /\ [Next]_vars => GuiInv'
  BY GuiAssumption, GuiStep
<1>3. QED
  BY <1>1, <1>2, PTL DEF Spec

(* Types, and flags that are what the registry was told, after any series  *)
(* of the window's, the tabs' and the device's events.                     *)
THEOREM TypeCorrect == Spec => []TypeOK
<1>1. GuiInv => TypeOK
  BY DEF GuiInv
<1>2. QED
  BY <1>1, GuiAlways, PTL

(* The output tab is right about the firmware's output unless something    *)
(* happened behind its back, whatever SGPIO_CONFIG and SGPIO_APPLY did.    *)
THEOREM OutputKnown == Spec => []OutputBelief
<1>1. GuiInv => OutputBelief
  BY DEF GuiInv
<1>2. QED
  BY <1>1, GuiAlways, PTL

(* The monitor tab knows of a monitor that runs, in the same sense.        *)
THEOREM MonitorKnown == Spec => []MonitorBelief
<1>1. GuiInv => MonitorBelief
  BY DEF GuiInv
<1>2. QED
  BY <1>1, GuiAlways, PTL

(* The tab in view never offers to start beside the other function, though *)
(* no tab updates the other's buttons.                                     *)
THEOREM ButtonsRight == Spec => []ButtonsSafe
<1>1. GuiInv => ButtonsSafe
  BY DEF GuiInv
<1>2. QED
  BY <1>1, GuiAlways, PTL

(* A window that says Connected has a handle, and a poll timer an armed    *)
(* and connected tab, for any number of connect errors left on the screen. *)
THEOREM ConnectedRight == Spec => []ConnectedIsReal
<1>1. GuiInv => ConnectedIsReal
  BY DEF GuiInv
<1>2. QED
  BY <1>1, GuiAlways, PTL

-----------------------------------------------------------------------------
(* The firmware starts an output only beside a monitor its tab has lost    *)
(* track of, and the reverse: the tabs' check of the registry, right about *)
(* the firmware as long as nothing is behind, rules out the rest.          *)
LEMMA Starts ==
  ASSUME GuiInv, Next, running' = Owners, running # Owners
  PROVE  behind # {}
<1>1. CASE OnBtnEnable \/ OnBtnApplyNow
  <2>1. CASE ~Blocked(Output)
    BY <1>1, <2>1 DEF OnBtnEnable, OnBtnApplyNow, ApplyFromUi, Fails, Missed, Unseen,
       Answered, Done, Blocked, AnyActiveExcept, GuiInv, TypeOK, MonitorBelief, Owners,
       Output, Monitor
  <2>2. CASE Blocked(Output)
    BY <1>1, <2>2 DEF OnBtnEnable, OnBtnApplyNow, ApplyFromUi, Missed
  <2>3. QED
    BY <2>1, <2>2
<1>2. CASE OnBtnArm
  BY <1>2 DEF OnBtnArm, Unseen, Answered, Done, Blocked, AnyActiveExcept, GuiInv, TypeOK,
     OutputBelief, Owners, Output, Monitor
<1>3. CASE LateRequest
  BY <1>3 DEF LateRequest, Done, GuiInv, TypeOK, LateBehind, Owners, Output, Monitor,
     Requests
<1>4. CASE OnBtnDisable \/ OnBtnStatus \/ CloseOutputError
  BY <1>4 DEF OnBtnDisable, OnBtnStatus, CloseOutputError, Fails, Missed, Unseen, Answered,
     Done, GuiInv, TypeOK, Owners, Output, Monitor, firmware
<1>5. CASE OnBtnStop \/ OnBtnMonitorStatus \/ Poll
  BY <1>5 DEF OnBtnStop, OnBtnMonitorStatus, Poll, ApplyStatus, Unseen, Answered, Done,
     GuiInv, TypeOK, Owners, Output, Monitor, firmware
<1>6. CASE MainFrame
  BY <1>6 DEF MainFrame, ConnectDone, ConnectFails, CloseConnectError, Disconnect, ResetMcu,
     LoadIni, Restart, TabSelect, Fails, Missed, Unseen, Done, firmware, Owners
<1>7. CASE Settle \/ DeviceReset
  BY <1>7 DEF Settle, DeviceReset, Owners, Monitor
<1>8. QED
  BY <1>1, <1>2, <1>3, <1>4, <1>5, <1>6, <1>7 DEF Next, OutputTab, MonitorTab, World

(* Output and monitor come to run together only when one of them had been  *)
(* changed behind its tab's back before.                                   *)
THEOREM StartsAlone == Spec => StartsExclusive
<1>1. GuiInv /\ [Next]_vars
        => [running' = Owners /\ running # Owners => behind # {}]_vars
  BY Starts
<1>2. QED
  BY <1>1, GuiAlways, PTL DEF Spec, StartsExclusive
=============================================================================
