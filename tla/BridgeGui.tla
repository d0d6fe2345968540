----------------------------- MODULE BridgeGui -----------------------------
(***************************************************************************)
(* The two tabs of the host tool, their main window and the registry of    *)
(* pins they share, beside a bridge that may answer late, lose an answer,  *)
(* be reset or vanish (main_frame.cpp, ui/sgpio_tab.cpp,                   *)
(* ui/sgpio_monitor_tab.cpp, core/pin_usage_registry.cpp).                 *)
(*                                                                         *)
(* All handlers run on one thread and a call blocks it, so a handler is    *)
(* one action, up to an error box: a box runs a message loop of its own,   *)
(* in which the poll timer goes on, and under a box without an owner the   *)
(* whole main window does.  What the tabs think (on, active) is one side,  *)
(* what the firmware does (running) the other.                             *)
(*                                                                         *)
(* A call is what BridgeCall promises: answered, and then its request was  *)
(* processed, or failed, and then it was, was not or will be.              *)
(***************************************************************************)
EXTENDS Naturals, FiniteSets

CONSTANT MaxErrors    \* bound: connect errors on the screen at a time

ASSUME GuiAssumption == MaxErrors \in Nat

Output == "SGPIO"
Monitor == "SGPIO_MONITOR"
Owners == {Output, Monitor}

VARIABLES
  \* CMainFrame and its service
  handle,         \* of the service's client: "null", "open", or "dead"
  chip,           \* status chip: "Connected" | "Disconnected"
  tab,            \* the tab that is shown
  connectErrors,  \* error boxes of OnBnClickedConnect not yet closed
  box,            \* "output" while an error box of the output tab is open
  \* the tabs, as sets of owners
  connected,      \* connected_
  on,             \* enabled_ of the output tab, armed_ of the monitor tab
  buttons,        \* whose Enable or Arm button can be pressed
  pollTimer,      \* polling_: "off" | "set"
  \* PinUsageRegistry
  active,         \* active_
  \* the firmware
  running,        \* outputs or armed (or capturing) monitors
  late,           \* a request whose call has failed and which is still to come
  \* history
  behind          \* whose operation may have changed behind its tab's back

frame == <<handle, chip, tab, connectErrors, box>>
tabs == <<connected, on, buttons, pollTimer>>
firmware == <<running, late>>
vars == <<frame, tabs, active, firmware, behind>>

Requests == {"apply", "off", "arm", "stop", "reset"}

Init ==
  /\ handle = "null" /\ chip = "Disconnected" /\ tab = Output
  /\ connectErrors = 0 /\ box = "none"
  /\ connected = {} /\ on = {} /\ buttons = {} /\ pollTimer = "off"
  /\ active = {}
  /\ running = {} /\ late = "none"
  /\ behind = {}

-----------------------------------------------------------------------------
(* The registry.  A definition named Bug... is the one after it with a     *)
(* plausible mistake; no specification uses it.                            *)

Pins == [o \in Owners |-> IF o = Output THEN {0, 1, 2, 3} ELSE {4, 5, 6}]

BugAnyActiveExcept(act, o) == o \in act   \* the tab's own owner set, not the rest

AnyActiveExcept(act, o) == act \ {o} # {}

Occupied(o) == UNION {Pins[p] : p \in active \ {o}}

AnyPinOccupied(o) == Pins[o] \cap Occupied(o) # {}

Blocked(o) == AnyActiveExcept(active, o) \/ AnyPinOccupied(o)

(* A tab's flag and the registry always change together (RefreshPinUsage). *)
SwitchOn(o) == on' = on \union {o} /\ active' = active \union {o}

SwitchOff(o) == on' = on \ {o} /\ active' = active \ {o}

CanStart(o, act) == o \in connected' \ on' /\ ~AnyActiveExcept(act, o)

(* A tab computes its own buttons only.                                    *)
UpdateEnableState(O) ==
  buttons' = {o \in Owners : IF o \in O THEN CanStart(o, active') ELSE o \in buttons}

-----------------------------------------------------------------------------
(* Calls to the firmware.                                                  *)

Done(r) ==
  CASE r = "apply" -> running \union {Output}
    [] r = "off"   -> running \ {Output}
    [] r = "arm"   -> running \union {Monitor}
    [] r = "stop"  -> running \ {Monitor}
    [] r = "reset" -> {}

Concerned(r) ==
  CASE r \in {"apply", "off"} -> {Output}
    [] r \in {"arm", "stop"} -> {Monitor}
    [] r = "reset" -> on

(* Requests keep their order: an answer means that no earlier one is late. *)
Reachable == handle = "open" /\ late = "none"

Answered(r) == Reachable /\ running' = Done(r) /\ UNCHANGED <<handle, late>>

(* The call failed, and its request was or will be processed all the same. *)
Unseen(r) ==
  /\ Reachable
  /\ \/ /\ running' = Done(r) /\ late' = late
        /\ handle' = IF r = "reset" THEN "dead" ELSE handle
     \/ late' = r /\ UNCHANGED <<running, handle>>
  /\ behind' = behind \union Concerned(r)

Missed == UNCHANGED <<running, handle, late, behind>>

Fails(r) == Missed \/ Unseen(r)

-----------------------------------------------------------------------------
(* The tabs' ways of being disconnected.                                   *)

(* OnDisconnected of both tabs, then SetConnected(false).                  *)
BothDisconnected ==
  /\ connected' = {} /\ on' = {} /\ active' = {}
  /\ buttons' = {} /\ pollTimer' = "off"

(* SetConnected(false): only the monitor tab forgets what it was doing.    *)
SetDisconnected ==
  /\ connected' = {}
  /\ SwitchOff(Monitor)
  /\ buttons' = {} /\ pollTimer' = "off"
  /\ behind' = behind \union (on \cap {Monitor})

SetConnected ==
  /\ connected' = Owners
  /\ UNCHANGED <<on, active, pollTimer, behind>>
  /\ UpdateEnableState(Owners)

-----------------------------------------------------------------------------
(* The main window.  Its handlers cannot run under a tab's error box.      *)

FrameLive == box = "none"

(* OnBnClickedConnect.  GET_INFO may fail without any consequence.         *)
ConnectDone ==
  /\ FrameLive /\ chip = "Disconnected"
  /\ handle' = "open" /\ chip' = "Connected"
  /\ SetConnected
  /\ UNCHANGED <<tab, connectErrors, box, firmware>>

(* The error box has no owner: the main window stays usable beside it, and *)
(* the handler's last statement waits until it is closed.                  *)
ConnectFails ==
  /\ FrameLive /\ chip = "Disconnected" /\ connectErrors < MaxErrors
  /\ connectErrors' = connectErrors + 1
  /\ handle' \in {handle, "null"}
  /\ UNCHANGED <<chip, tab, box, tabs, active, firmware, behind>>

CloseConnectError ==
  /\ FrameLive /\ connectErrors > 0
  /\ connectErrors' = connectErrors - 1
  /\ chip' = "Disconnected"
  /\ SetDisconnected
  /\ UNCHANGED <<handle, tab, box, firmware>>

Disconnect ==
  /\ FrameLive /\ chip = "Connected"
  /\ BothDisconnected
  /\ handle' = "null" /\ chip' = "Disconnected"
  /\ behind' = behind \union on
  /\ UNCHANGED <<tab, connectErrors, box, firmware>>

BugResetMcu ==    \* the main window is not told
  /\ FrameLive /\ chip = "Connected"
  /\ \/ /\ Reachable
        /\ running' = Done("reset")
        /\ handle' = "null"
        /\ BothDisconnected
        /\ UNCHANGED <<late, behind, chip>>
     \/ Fails("reset") /\ UNCHANGED <<chip, tabs, active>>
  /\ UNCHANGED <<tab, connectErrors, box>>

(* OnBnClickedResetMcu, and OnBnClickedReturnBootloader.  A failed call    *)
(* leaves the window connected, whatever became of the device.             *)
ResetMcu ==
  /\ FrameLive /\ chip = "Connected"
  /\ \/ /\ Reachable
        /\ running' = Done("reset")
        /\ handle' = "null" /\ chip' = "Disconnected"
        /\ BothDisconnected
        /\ UNCHANGED <<late, behind>>
     \/ Fails("reset") /\ UNCHANGED <<chip, tabs, active>>
  /\ UNCHANGED <<tab, connectErrors, box>>

BugTabSelect(t) ==    \* the tabs are not refreshed
  /\ FrameLive
  /\ tab' = t
  /\ UNCHANGED <<handle, chip, connectErrors, box, tabs, active, firmware, behind>>

(* OnTabSelChange: both tabs are told whether the service has a handle.    *)
TabSelect(t) ==
  /\ FrameLive
  /\ tab' = t
  /\ IF handle # "null" THEN SetConnected ELSE SetDisconnected
  /\ UNCHANGED <<handle, chip, connectErrors, box, firmware>>

(* Load INI and Reset INI: LoadState of one tab after the other, so that   *)
(* the output tab still sees the monitor as it was.                        *)
LoadIni ==
  /\ FrameLive /\ handle = "null"
  /\ on' = {} /\ active' = {} /\ pollTimer' = "off"
  /\ connected' = connected
  /\ buttons' = {o \in Owners : CanStart(o, IF o = Output THEN active ELSE {})}
  /\ behind' = behind \union on
  /\ UNCHANGED <<frame, firmware>>

(* The program ends, in order or not, and is started again.                *)
Restart ==
  /\ handle' = "null" /\ chip' = "Disconnected" /\ tab' = Output
  /\ connectErrors' = 0 /\ box' = "none"
  /\ BothDisconnected
  /\ behind' = behind \union on
  /\ UNCHANGED firmware

-----------------------------------------------------------------------------
(* The output tab.                                                         *)

OutputShown == FrameLive /\ tab = Output /\ Output \in connected

(* A handler's error box disables the main window; what follows it waits.  *)
ShowError ==
  /\ box' = "output"
  /\ UNCHANGED <<tabs, active>>

BugApplyFromUi ==    \* enabled_ is set before the two calls
  \/ Blocked(Output) /\ Missed /\ ShowError
  \/ /\ ~Blocked(Output)
     /\ SwitchOn(Output)
     /\ UNCHANGED <<connected, pollTimer>>
     /\ \/ /\ Answered("apply") /\ behind' = behind \ {Output}
           /\ UpdateEnableState({Output}) /\ box' = box
        \/ Fails("apply") /\ box' = "output" /\ buttons' = buttons

(* ApplyFromUi(true): SGPIO_CONFIG, SGPIO_APPLY and only then enabled_.    *)
ApplyFromUi ==
  \/ Blocked(Output) /\ Missed /\ ShowError
  \/ ~Blocked(Output) /\ Fails("apply") /\ ShowError
  \/ /\ ~Blocked(Output) /\ Answered("apply")
     /\ SwitchOn(Output) /\ UNCHANGED <<connected, pollTimer>>
     /\ UpdateEnableState({Output})
     /\ behind' = behind \ {Output}
     /\ box' = box

OnBtnEnable ==
  /\ OutputShown /\ Output \in buttons
  /\ ApplyFromUi
  /\ UNCHANGED <<chip, tab, connectErrors>>

OnBtnApplyNow ==
  /\ OutputShown /\ Output \in on
  /\ ApplyFromUi
  /\ UNCHANGED <<chip, tab, connectErrors>>

OnBtnDisable ==
  /\ OutputShown /\ Output \in on
  /\ \/ Fails("off") /\ ShowError
     \/ /\ Answered("off")
        /\ SwitchOff(Output) /\ UNCHANGED <<connected, pollTimer>>
        /\ UpdateEnableState({Output})
        /\ behind' = behind \ {Output}
        /\ box' = box
  /\ UNCHANGED <<chip, tab, connectErrors>>

(* SGPIO_GET_STATUS: enabled_ becomes what the firmware says, whatever the *)
(* monitor is doing.                                                       *)
OnBtnStatus ==
  /\ OutputShown
  /\ \/ Missed /\ ShowError
     \/ /\ Reachable
        /\ IF Output \in running THEN SwitchOn(Output) ELSE SwitchOff(Output)
        /\ UNCHANGED <<connected, pollTimer, running, handle, late>>
        /\ UpdateEnableState({Output})
        /\ behind' = behind \ {Output}
        /\ box' = box
  /\ UNCHANGED <<chip, tab, connectErrors>>

CloseOutputError ==
  /\ box = "output" /\ box' = "none"
  /\ UNCHANGED <<connected, on, active, pollTimer>>
  /\ UpdateEnableState({Output})
  /\ UNCHANGED <<handle, chip, tab, connectErrors, firmware, behind>>

-----------------------------------------------------------------------------
(* The monitor tab.  Its error boxes have nothing after them.              *)

MonitorShown == FrameLive /\ tab = Monitor /\ Monitor \in connected

(* SGPIO_MONITOR_CONFIG is refused while the firmware's monitor runs; else *)
(* SGPIO_MONITOR_ARM is always answered ARMED.                             *)
OnBtnArm ==
  /\ MonitorShown /\ Monitor \in buttons /\ ~Blocked(Monitor)
  /\ Monitor \notin running
  /\ \/ Unseen("arm") /\ UNCHANGED <<tabs, active>>
     \/ /\ Answered("arm")
        /\ SwitchOn(Monitor) /\ pollTimer' = "set" /\ connected' = connected
        /\ UpdateEnableState({Monitor})
        /\ behind' = behind \ {Monitor}
  /\ UNCHANGED <<chip, tab, connectErrors, box>>

BugOnBtnStop ==    \* the tab is stopped before the firmware is asked
  /\ MonitorShown /\ Monitor \in on
  /\ SwitchOff(Monitor) /\ pollTimer' = "off" /\ connected' = connected
  /\ UpdateEnableState({Monitor})
  /\ \/ Fails("stop")
     \/ Answered("stop") /\ behind' = behind \ {Monitor}
  /\ UNCHANGED <<chip, tab, connectErrors, box>>

OnBtnStop ==
  /\ MonitorShown /\ Monitor \in on
  /\ \/ Unseen("stop") /\ UNCHANGED <<tabs, active>>
     \/ /\ Answered("stop")
        /\ SwitchOff(Monitor) /\ pollTimer' = "off" /\ connected' = connected
        /\ UpdateEnableState({Monitor})
        /\ behind' = behind \ {Monitor}
  /\ UNCHANGED <<chip, tab, connectErrors, box>>

(* An answered SGPIO_MONITOR_GET_STATUS: armed_ follows the firmware; the  *)
(* timer is stopped with it, and not started again with it.                *)
ApplyStatus ==
  /\ Reachable
  /\ IF Monitor \in running
     THEN SwitchOn(Monitor) /\ pollTimer' = pollTimer
     ELSE SwitchOff(Monitor) /\ pollTimer' = "off"
  /\ connected' = connected
  /\ UpdateEnableState({Monitor})
  /\ behind' = behind \ {Monitor}
  /\ UNCHANGED <<frame, firmware>>

OnBtnMonitorStatus == MonitorShown /\ ApplyStatus

BugPoll ==    \* a status that fails is skipped
  /\ pollTimer = "set"
  /\ ApplyStatus

(* OnTimer.  A status that fails ends the polling and the claim, whatever  *)
(* the firmware is doing.                                                  *)
Poll ==
  /\ pollTimer = "set"
  /\ \/ ApplyStatus
     \/ /\ SwitchOff(Monitor) /\ pollTimer' = "off" /\ connected' = connected
        /\ UpdateEnableState({Monitor})
        /\ behind' = behind \union {Monitor}
        /\ UNCHANGED <<frame, firmware>>

-----------------------------------------------------------------------------
(* The firmware, the link and the board.                                   *)

(* A capture ends or its trigger times out.                                *)
Settle ==
  /\ Monitor \in running
  /\ running' = running \ {Monitor}
  /\ UNCHANGED <<frame, tabs, active, late, behind>>

LateRequest ==
  /\ late # "none" /\ late' = "none"
  /\ \/ UNCHANGED <<running, handle, behind>>
     \/ /\ running' = Done(late)
        /\ handle' = IF late = "reset" /\ handle = "open" THEN "dead" ELSE handle
        /\ behind' = IF late = "reset" THEN behind \union on ELSE behind
  /\ UNCHANGED <<chip, tab, connectErrors, box, tabs, active>>

(* The board is reset or unplugged.                                        *)
DeviceReset ==
  /\ running' = {} /\ late' = "none"
  /\ handle' = IF handle = "open" THEN "dead" ELSE handle
  /\ behind' = behind \union on
  /\ UNCHANGED <<chip, tab, connectErrors, box, tabs, active>>

-----------------------------------------------------------------------------
MainFrame ==
  \/ ConnectDone \/ ConnectFails \/ CloseConnectError \/ Disconnect \/ ResetMcu
  \/ LoadIni \/ Restart
  \/ \E t \in Owners : TabSelect(t)

OutputTab ==
  OnBtnEnable \/ OnBtnApplyNow \/ OnBtnDisable \/ OnBtnStatus \/ CloseOutputError

MonitorTab == OnBtnArm \/ OnBtnStop \/ OnBtnMonitorStatus \/ Poll

World == Settle \/ LateRequest \/ DeviceReset

Next == MainFrame \/ OutputTab \/ MonitorTab \/ World

Spec == Init /\ [][Next]_vars

(* A capture ends by itself (SgpioMonitor's Settles), and Windows sends    *)
(* WM_TIMER when the thread has nothing else to do; a poll that finds the  *)
(* monitor idle, or fails, is the end of polling either way.               *)
FairSpec == Spec /\ WF_vars(Settle) /\ WF_vars(Poll /\ Monitor \notin running)

-----------------------------------------------------------------------------
(* Every variable stays in its range, and the tabs' flags are what the     *)
(* registry was last told (RefreshPinUsage after every change).            *)
TypeOK ==
  /\ handle \in {"null", "open", "dead"}
  /\ chip \in {"Connected", "Disconnected"}
  /\ tab \in Owners
  /\ connectErrors \in 0 .. MaxErrors
  /\ box \in {"none", "output"}
  /\ connected \subseteq Owners /\ buttons \subseteq Owners
  /\ on \subseteq Owners /\ active = on
  /\ pollTimer \in {"off", "set"}
  /\ running \subseteq Owners
  /\ late \in Requests \union {"none"}
  /\ behind \subseteq Owners

(* The output tab thinks what the firmware does, as long as nothing was    *)
(* done behind its back: not by a request whose answer it never got, nor   *)
(* by a reset, nor by forgetting an output it left switched on.  Whatever  *)
(* fails in between (ApplyFromUi, OnBtnDisable), the flag must be right.   *)
OutputBelief == Output \notin behind => (Output \in on <=> Output \in running)

(* In the same circumstances a monitor that runs is one its tab knows of;  *)
(* the reverse the tab learns with the next poll.                          *)
MonitorBelief == Monitor \notin behind /\ Monitor \in running => Monitor \in on

(* Output and monitor come to run together only when one of them had been  *)
(* changed behind its tab's back before.                                   *)
StartsExclusive == [][running' = Owners /\ running # Owners => behind # {}]_vars

(* The button that would start one function is not offered on the tab in   *)
(* view while the other is active, although only its own tab updates it.   *)
ButtonsSafe == tab \in buttons => ~AnyActiveExcept(active, tab)

(* The window says Connected only while the service has a handle, and the  *)
(* tab polls only while it thinks itself connected and armed: no handler,  *)
(* and no error box closed late, leaves one of them behind the others.     *)
ConnectedIsReal ==
  /\ chip = "Connected" => handle # "null"
  /\ pollTimer = "set" => Monitor \in on \cap connected

(* Polling comes to an end: with the capture, with a failing status, with  *)
(* the connection, although every answer may be lost.                      *)
PollingEnds == pollTimer = "set" ~> pollTimer = "off"

(* SELF_CHECK.md: "Output and Monitor pin owners cannot be active          *)
(* simultaneously in the GUI".                                             *)
OwnersExclusive == active # Owners
=============================================================================
